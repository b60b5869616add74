------------------------ MODULE MCJobQueueRefinement ------------------------
(***************************************************************************)
(* Instances of the queue for TLC: which workers share a process, and the  *)
(* symmetry of the run that checks safety only.                            *)
(***************************************************************************)
EXTENDS JobQueueRefinement, TLC

CONSTANTS w1, w2, j1, j2

TwoProcesses == {{w1}, {w2}}
OneProcess   == {{w1, w2}}
NoJobs       == {}

QueueSymmetry == Permutations({j1, j2}) \cup Permutations({w1, w2})
=============================================================================
