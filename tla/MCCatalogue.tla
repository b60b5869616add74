---------------------------- MODULE MCCatalogue ----------------------------
(* Instances of Catalogue for TLC.                                         *)
EXTENDS Catalogue

CONSTANTS p1, t1, s1, s2, a, b, c

OneOld   == [p \in Problems |-> {t1}]
OneSeed  == [p \in Problems |-> {s1}]
TwoSeeds == [p \in Problems |-> {s1, s2}]
=============================================================================
