----------------------------- MODULE MCGrading -----------------------------
(***************************************************************************)
(* Instances of Grading for TLC.                                           *)
(***************************************************************************)
EXTENDS Grading, TLC

CONSTANTS w1, w2, r1, r2, r3, u1, u2, k1

OneWorker    == {{w1}}
TwoProcesses == {{w1}, {w2}}
NoJobs       == {}

OneUser      == [r \in Jobs |-> u1]
ForeignThird == [r \in Jobs |-> IF r = r3 THEN u2 ELSE u1]
SameKey      == [r \in Jobs |-> k1]
NoKeys       == [r \in Jobs |-> NoKey]
FirstKeyed   == [r \in Jobs |-> IF r = r1 THEN k1 ELSE NoKey]
FirstServes  == [r \in Jobs |-> {w1}]

RequestSymmetry == Permutations({r1, r2})
=============================================================================
