------------------------------ MODULE MCRunner ------------------------------
(* Instances of Runner for TLC.                                            *)
EXTENDS Runner

Limits == {-1, 0, 1, 3}
=============================================================================
