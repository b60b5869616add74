---------------------------- MODULE JobDelivery ----------------------------
(***************************************************************************)
(* What the queue promises of each job, without streams, consumers or      *)
(* acknowledgements: it is taken once, attempted until it succeeded at     *)
(* least once or failed MaxAttempts times, and only then let go - done, or *)
(* given up.  Delivery is at least once: a job that succeeded may be       *)
(* attempted again, and may even be given up when those attempts fail.     *)
(***************************************************************************)
EXTENDS Naturals

CONSTANTS Jobs, MaxAttempts

VARIABLES
  held,      \* jobs taken and not yet let go
  done,      \* jobs let go after a success
  gaveUp,    \* jobs let go after MaxAttempts failures
  succeeded, \* jobs with at least one successful attempt
  failures   \* failures[j]: attempts at j that failed

vars == <<held, done, gaveUp, succeeded, failures>>

Init ==
  /\ held = {} /\ done = {} /\ gaveUp = {} /\ succeeded = {}
  /\ failures = [j \in Jobs |-> 0]

Take(j) ==
  /\ j \notin held \cup done \cup gaveUp
  /\ held' = held \cup {j}
  /\ UNCHANGED <<done, gaveUp, succeeded, failures>>

Succeed(j) ==
  /\ j \in held
  /\ succeeded' = succeeded \cup {j}
  /\ UNCHANGED <<held, done, gaveUp, failures>>

Fail(j) ==
  /\ j \in held
  /\ failures' = [failures EXCEPT ![j] = @ + 1]
  /\ UNCHANGED <<held, done, gaveUp, succeeded>>

Finish(j) ==
  /\ j \in held \cap succeeded
  /\ held' = held \ {j}
  /\ done' = done \cup {j}
  /\ UNCHANGED <<gaveUp, succeeded, failures>>

GiveUp(j) ==
  /\ j \in held
  /\ failures[j] >= MaxAttempts
  /\ held' = held \ {j}
  /\ gaveUp' = gaveUp \cup {j}
  /\ UNCHANGED <<done, succeeded, failures>>

Attempt(j) == Succeed(j) \/ Fail(j)
LetGo(j)   == Finish(j) \/ GiveUp(j)

Next == \E j \in Jobs : Take(j) \/ Attempt(j) \/ LetGo(j)

Safety == Init /\ [][Next]_vars

(* A held job is attempted again and again until it is let go.             *)
Spec == Safety /\ \A j \in Jobs : WF_vars(Attempt(j)) /\ WF_vars(LetGo(j))
=============================================================================
