----------------------------- MODULE MCGateway -----------------------------
(* Instances of Gateway for TLC.                                           *)
EXTENDS Gateway

CONSTANTS a, b, c, u1, u2, p1, p2, e1, e2

Authors == [r \in Requests |-> IF r = c THEN u2 ELSE u1]
Tasks   == [r \in Requests |-> IF r = c THEN p2 ELSE p1]
Emails  == [u \in Users |-> IF u = u1 THEN e1 ELSE e2]
(* u1 had the email of u2 when the file was written.                       *)
OldFile == [u \in {u1} |-> e2]
=============================================================================
