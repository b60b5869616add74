--------------------------- MODULE GradingProofs ---------------------------
(***************************************************************************)
(* Proofs about Grading, for every value of the constants: any number of   *)
(* submissions, users, keys, workers and processes, any number of faults.  *)
(* Slow jobs and calls sent twice are included, but for the last parts, on *)
(* batches of results, on the status of finished submissions and on the    *)
(* abstract delivery, which need Timely and ~Resend.  The invariants of    *)
(* the queue come from its own proofs: every step here is a step of the    *)
(* queue or leaves it alone.                                               *)
(***************************************************************************)
EXTENDS Grading, JobQueueRefinementProofs

(* Grading uses the queue as the queue allows.                             *)
LEMMA QueueStepOrNot ==
  ASSUME [GradingNext]_allVars
  PROVE  [Next]_vars
<1>1. ASSUME NEW r \in Jobs, Submit(r) PROVE [Next]_vars
  BY <1>1
  DEF Submit, Lookup, FindProgress, CreateProgress, CreateRow, CreateRowLost, Recheck,
      EnqueueJob, EnqueueFails, Undo, SubmitFails, Next
<1>2. ASSUME NEW w \in Workers, GradeJob(w) PROVE [Next]_vars
  BY <1>2
  DEF GradeJob, RunGrader, RunFails, SaveResults, RaiseBest, SaveVerdict, SaveError,
      StoreFails, MarkJobExhausted, Next, Handles
<1>3. ASSUME NEW w \in Workers, MarkLost(w) PROVE [Next]_vars
  BY <1>3 DEF MarkLost, Next
<1>4. ASSUME NEW P \in Processes, CrashAll(P) PROVE [Next]_vars
  BY <1>4 DEF CrashAll, Next
<1>5. ASSUME QueueAlone PROVE [Next]_vars
  BY <1>5, QueueAssumption DEF QueueAlone, QueueStep, Next, Handles
<1>6. CASE UNCHANGED allVars
  BY <1>6 DEF allVars
<1> QED
  BY <1>1, <1>2, <1>3, <1>4, <1>5, <1>6 DEF GradingNext

(* The system of requests, workers and tables is a behaviour of the queue: *)
(* whatever holds of JobQueue holds in it.                                 *)
THEOREM QueueIsRespected == GradingSpec => Spec
<1>1. GradingInit => Init
  BY DEF GradingInit
<1> QED
  BY <1>1, QueueStepOrNot, PTL DEF GradingSpec, Spec

-----------------------------------------------------------------------------
(* What a step does to the tables.                                         *)

Stored == Core /\ GradingTypeOK /\ ScoresInv

(* The worker that runs GradeJob has a submission of a user, and what it   *)
(* is about to store is a score.                                           *)
LEMMA AtStage ==
  ASSUME Stored, NEW w \in Workers, at[w] = "handle"
  PROVE  /\ Job(w) \in Jobs /\ UserOf[Job(w)] \in Users
         /\ Job(w) \in enqueued
         /\ best[UserOf[Job(w)]] \in Scores
         /\ best[UserOf[Job(w)]] \in Nat
         /\ stage[w] \in {"results", "best", "save"}
              => outcome[w] \in Scores /\ outcome[w] \in Nat
<1>1. msg[w] \in Ids /\ IsJob(msg[w]) /\ Job(w) \in Jobs
  BY InHand DEF Stored, Handling, Job, IsJob
<1>2. Job(w) \in enqueued
  BY <1>1 DEF Stored, ScoresInv, Known, Job
<1>3. UserOf[Job(w)] \in Users
  BY <1>1, GradingAssumption
<1>4. best[UserOf[Job(w)]] \in Scores
  BY <1>2, <1>3 DEF Stored, ScoresInv, ProgressInv, GradingTypeOK
<1>5. stage[w] \in {"results", "best", "save"} => outcome[w] \in Scores
  BY DEF Stored, ScoresInv, InGrading, GradingTypeOK
<1> QED
  BY <1>1, <1>2, <1>3, <1>4, <1>5, GradingAssumption

(* best_score: a new row starts at 0, a grading may raise it.              *)
BestMoves ==
  \A u \in Users :
    \/ best'[u] = best[u]
    \/ best[u] = Absent /\ best'[u] = 0
    \/ \E w \in Workers : /\ At(w, "best") /\ u = UserOf[Job(w)]
                          /\ best'[u] = outcome[w] /\ best[u] < outcome[w]

(* A row becomes graded only by the last call of GradeJob.                 *)
RowMoves ==
  \A j \in Jobs :
    \/ row'[j] = row[j]
    \/ row'[j] \in Row /\ row'[j].status # "graded"
    \/ \E w \in Workers : /\ At(w, "save") /\ j = Job(w)
                          /\ row'[j] = [status |-> "graded", score |-> outcome[w], keyed |-> FALSE]

SavedGrows == \A j \in Jobs : saved[j] \subseteq saved'[j]

TableMoves == BestMoves /\ RowMoves /\ SavedGrows

LEMMA SubmitMoves ==
  ASSUME Stored, NEW r \in Jobs, Submit(r)
  PROVE  TableMoves
<1> USE DEF Stored, GradingTypeOK
<1>1. BestMoves
  BY GradingAssumption
  DEF Submit, Lookup, FindProgress, CreateProgress, CreateRow, CreateRowLost, Recheck,
      EnqueueJob, EnqueueFails, Undo, SubmitFails, store, BestMoves
<1>2. ASSUME NEW s \in {"queued", "system_error"}, NEW k \in BOOLEAN, SaveRow(r, s, 0, k)
      PROVE  RowMoves
  BY <1>2, GradingAssumption DEF SaveRow, RowMoves, Row, Status
<1>3. Keyed(r) \in BOOLEAN
  BY DEF Keyed
<1>4. RowMoves
  <2>1. CASE UNCHANGED row
    BY <2>1 DEF RowMoves
  <2> QED
    BY <1>2, <1>3, <2>1
    DEF Submit, Lookup, FindProgress, CreateProgress, CreateRow, CreateRowLost, Recheck,
        EnqueueJob, EnqueueFails, Undo, SubmitFails, store
<1>5. SavedGrows
  BY DEF Submit, Lookup, FindProgress, CreateProgress, CreateRow, CreateRowLost, Recheck,
      EnqueueJob, EnqueueFails, Undo, SubmitFails, store, SavedGrows
<1> QED
  BY <1>1, <1>4, <1>5 DEF TableMoves

LEMMA GradeMoves ==
  ASSUME Stored, NEW w \in Workers, GradeJob(w) \/ MarkLost(w)
  PROVE  TableMoves
<1> USE DEF Stored, GradingTypeOK
<1>1. ASSUME StoreResults(w) \/ UNCHANGED saved PROVE SavedGrows
  BY <1>1 DEF StoreResults, SavedGrows
<1>2. ASSUME At(w, "best"), StoreBest(w) PROVE BestMoves
  <2>1. /\ UserOf[Job(w)] \in Users /\ best[UserOf[Job(w)]] \in Nat
        /\ outcome[w] \in Nat
    BY <1>2, AtStage DEF At
  <2> QED
    BY <1>2, <2>1 DEF StoreBest, BestMoves
<1>3. ASSUME At(w, "save"), StoreVerdict(w) PROVE RowMoves
  <2>1. Job(w) \in Jobs
    BY <1>3, AtStage DEF At
  <2> QED
    BY <1>3, <2>1 DEF StoreVerdict, SaveRow, RowMoves
<1>4. ASSUME StoreError(w) PROVE RowMoves
  BY <1>4, GradingAssumption DEF StoreError, SaveRow, RowMoves, Row, Status
<1>5. ASSUME UNCHANGED row PROVE RowMoves
  BY <1>5 DEF RowMoves
<1>6. ASSUME UNCHANGED best PROVE BestMoves
  BY <1>6 DEF BestMoves
<1>7. CASE RunGrader(w) \/ RunFails(w)
  BY <1>1, <1>5, <1>6, <1>7 DEF RunGrader, RunFails, store, TableMoves
<1>8. CASE SaveResults(w)
  BY <1>1, <1>5, <1>6, <1>8 DEF SaveResults, TableMoves
<1>9. CASE RaiseBest(w)
  BY <1>1, <1>2, <1>5, <1>9 DEF RaiseBest, TableMoves
<1>10. CASE SaveVerdict(w)
  BY <1>1, <1>3, <1>6, <1>10 DEF SaveVerdict, TableMoves
<1>11. CASE SaveError(w) \/ MarkJobExhausted(w) \/ MarkLost(w)
  BY <1>1, <1>4, <1>5, <1>6, <1>11 DEF SaveError, MarkJobExhausted, MarkLost, TableMoves
<1>12. CASE StoreFails(w)
  BY <1>1, <1>2, <1>3, <1>5, <1>6, <1>12 DEF StoreFails, TableMoves
<1> QED
  BY <1>7, <1>8, <1>9, <1>10, <1>11, <1>12 DEF GradeJob

LEMMA TableStep ==
  ASSUME Stored, [GradingNext]_allVars
  PROVE  TableMoves
<1>1. CASE UNCHANGED <<row, best, saved>>
  BY <1>1 DEF TableMoves, BestMoves, RowMoves, SavedGrows
<1> QED
  BY <1>1, SubmitMoves, GradeMoves DEF GradingNext, QueueAlone, CrashAll, store, allVars

-----------------------------------------------------------------------------
(* Types.                                                                  *)

IntakeTypeOK ==
  /\ req \in [Jobs -> Steps \cup Ended]
  /\ answer \in [Jobs -> Jobs \cup {Absent}]

GraderTypeOK ==
  /\ stage \in [Workers -> {"run", "results", "best", "save", "error"}]
  /\ outcome \in [Workers -> Scores \cup {Absent}]

StoreTypeOK ==
  /\ row \in [Jobs -> Row \cup {Absent}]
  /\ saved \in [Jobs -> SUBSET Scores]
  /\ batches \in [Jobs -> Nat]
  /\ best \in [Users -> Scores \cup {Absent}]

LEMMA SubmitType ==
  ASSUME Stored, NEW r \in Jobs, Submit(r)
  PROVE  GradingTypeOK'
<1> USE DEF Stored, GradingTypeOK
<1>1. ASSUME NEW s \in {"queued", "system_error"}, SaveRow(r, s, 0, Keyed(r))
      PROVE  row' \in [Jobs -> Row \cup {Absent}]
  BY <1>1, GradingAssumption DEF SaveRow, Row, Status, Keyed
<1>2. row' \in [Jobs -> Row \cup {Absent}]
  BY <1>1
  DEF Submit, Lookup, FindProgress, CreateProgress, CreateRow, CreateRowLost, Recheck,
      EnqueueJob, EnqueueFails, Undo, SubmitFails, store
<1>3. /\ best' \in [Users -> Scores \cup {Absent}]
      /\ UNCHANGED <<saved, batches>>
  BY GradingAssumption
  DEF Submit, Lookup, FindProgress, CreateProgress, CreateRow, CreateRowLost, Recheck,
      EnqueueJob, EnqueueFails, Undo, SubmitFails, store
<1>4. IntakeTypeOK'
  BY DEF Submit, Lookup, FindProgress, CreateProgress, CreateRow, CreateRowLost, Recheck,
      EnqueueJob, EnqueueFails, Undo, SubmitFails, AnswerPrior, Holders, Goto, Steps, Ended,
      intake, IntakeTypeOK
<1>5. UNCHANGED grader
  BY DEF Submit, Lookup, FindProgress, CreateProgress, CreateRow, CreateRowLost, Recheck,
      EnqueueJob, EnqueueFails, Undo, SubmitFails
<1> QED
  BY <1>2, <1>3, <1>4, <1>5 DEF IntakeTypeOK, grader

LEMMA GradeType ==
  ASSUME Stored, NEW w \in Workers, GradeJob(w) \/ MarkLost(w)
  PROVE  GradingTypeOK'
<1> USE DEF Stored, GradingTypeOK
<1>1. ASSUME At(w, "results"), StoreResults(w)
      PROVE  saved' \in [Jobs -> SUBSET Scores] /\ batches' \in [Jobs -> Nat]
  BY <1>1, AtStage DEF At, StoreResults
<1>2. ASSUME At(w, "best"), StoreBest(w) PROVE best' \in [Users -> Scores \cup {Absent}]
  BY <1>2, AtStage DEF At, StoreBest
<1>3. ASSUME At(w, "save"), StoreVerdict(w) PROVE row' \in [Jobs -> Row \cup {Absent}]
  BY <1>3, AtStage DEF At, StoreVerdict, SaveRow, Row, Status
<1>4. ASSUME StoreError(w) PROVE row' \in [Jobs -> Row \cup {Absent}]
  BY <1>4, GradingAssumption DEF StoreError, SaveRow, Row, Status
<1>5. StoreTypeOK'
  BY <1>1, <1>2, <1>3, <1>4
  DEF GradeJob, RunGrader, RunFails, SaveResults, RaiseBest, SaveVerdict, SaveError,
      StoreFails, MarkJobExhausted, MarkLost, store, StoreTypeOK
<1>6. GraderTypeOK'
  BY DEF GradeJob, RunGrader, RunFails, SaveResults, RaiseBest, SaveVerdict, SaveError,
      StoreFails, MarkJobExhausted, MarkLost, Leave, grader, GraderTypeOK
<1>7. UNCHANGED intake
  BY DEF GradeJob, RunGrader, RunFails, SaveResults, RaiseBest, SaveVerdict, SaveError,
      StoreFails, MarkJobExhausted, MarkLost
<1> QED
  BY <1>5, <1>6, <1>7 DEF StoreTypeOK, GraderTypeOK, intake

LEMMA GradingTypeStep ==
  ASSUME Stored, [GradingNext]_allVars
  PROVE  GradingTypeOK'
<1>1. ASSUME NEW P \in Processes, CrashAll(P) PROVE GradingTypeOK'
  BY <1>1 DEF CrashAll, store, Stored, GradingTypeOK, Ended, Steps
<1>2. CASE UNCHANGED <<store, intake, grader>>
  BY <1>2 DEF store, intake, grader, Stored, GradingTypeOK, Row, Status
<1> QED
  BY <1>1, <1>2, SubmitType, GradeType DEF GradingNext, QueueAlone, allVars

-----------------------------------------------------------------------------
(* Scores.                                                                 *)

LEMMA BestGrows ==
  ASSUME Stored, BestMoves, NEW u \in Users, best[u] # Absent
  PROVE  best'[u] # Absent /\ best'[u] >= best[u]
<1>1. best[u] \in Nat
  BY GradingAssumption DEF Stored, GradingTypeOK
<1>2. ASSUME NEW w \in Workers, At(w, "best") PROVE outcome[w] # Absent /\ outcome[w] \in Nat
  BY <1>2, AtStage, GradingAssumption DEF At
<1> QED
  BY <1>1, <1>2 DEF BestMoves

LEMMA ProgressStep ==
  ASSUME Stored, [GradingNext]_allVars
  PROVE  ProgressInv'
<1>1. \A u \in Users : best[u] # Absent => best'[u] # Absent
  BY TableStep, BestGrows DEF TableMoves
<1>2. \A r \in Jobs : UserOf[r] \in Users
  BY GradingAssumption
<1>3. enqueued \subseteq Jobs /\ ProgressInv
  BY DEF Stored, Core, TypeOK, ScoresInv
<1>4. ASSUME UNCHANGED <<enqueued, req>> PROVE ProgressInv'
  BY <1>1, <1>2, <1>3, <1>4 DEF ProgressInv
<1>5. ASSUME NEW r \in Jobs, EnqueueJob(r) PROVE ProgressInv'
  BY <1>1, <1>2, <1>3, <1>5
  DEF EnqueueJob, Enqueue, Goto, ProgressInv, Stored, GradingTypeOK
<1>6. ASSUME NEW r \in Jobs, CreateProgress(r) PROVE ProgressInv'
  BY <1>1, <1>2, <1>3, <1>6, GradingAssumption
  DEF CreateProgress, Goto, ProgressInv, Stored, GradingTypeOK, vars, history
<1>7. ASSUME NEW r \in Jobs, Submit(r), ~EnqueueJob(r), ~CreateProgress(r) PROVE ProgressInv'
  BY <1>1, <1>2, <1>3, <1>7
  DEF Submit, Lookup, FindProgress, CreateRow, CreateRowLost, Recheck, EnqueueFails, Undo,
      SubmitFails, AnswerPrior, Goto, ProgressInv, Stored, GradingTypeOK, vars, history
<1>8. ASSUME NEW w \in Workers, GradeJob(w) \/ MarkLost(w) PROVE ProgressInv'
  BY <1>4, <1>8
  DEF GradeJob, RunGrader, RunFails, SaveResults, RaiseBest, SaveVerdict, SaveError,
      StoreFails, MarkJobExhausted, MarkLost, HandlerOk, HandlerErr, Exhausted, CallFails,
      vars, history, intake
<1>9. ASSUME NEW P \in Processes, CrashAll(P) PROVE ProgressInv'
  BY <1>1, <1>2, <1>3, <1>9
  DEF CrashAll, Crash, history, Ended, ProgressInv, Stored, GradingTypeOK
<1>10. CASE QueueAlone
  <2>1. ASSUME NEW r \in Jobs, r \in enqueued, Enqueue(r) PROVE UNCHANGED enqueued
    BY <2>1 DEF Enqueue
  <2>2. UNCHANGED enqueued
    BY <1>10, <2>1
    DEF QueueAlone, QueueStep, Polls, EnsureGroup, RecoverOwn, Recovered, Promote, AutoClaim,
        NothingToClaim, ReadNew, NothingNew, Reconnect, Ack, Reschedule, Bury, CallFails,
        Restart, Time, IdleExpires, RetryDue, history
  <2> QED
    BY <1>4, <1>10, <2>2 DEF QueueAlone, intake
<1>11. CASE UNCHANGED allVars
  BY <1>4, <1>11 DEF allVars, vars, history, intake
<1> QED
  BY <1>5, <1>6, <1>7, <1>8, <1>9, <1>10, <1>11 DEF GradingNext

(* A job in hand stays the same job while the message stays the same.      *)
LEMMA SameJob ==
  ASSUME Stored, [Next]_vars, NEW v \in Workers, at[v] = "handle", msg'[v] = msg[v]
  PROVE  Job(v)' = Job(v)
<1>1. msg[v] \in Ids /\ msg[v] <= lastId
  BY InHand, QueueAssumption DEF Stored, Core, TypeOK, Handling, Ids
<1>2. log'[msg[v]] = log[msg[v]]
  BY <1>1, Growth DEF Stored, Grows
<1> QED
  BY <1>2 DEF Job, JobOf

(* The steps of the queue leave a worker in its handler alone.             *)
LEMMA HandleKept ==
  ASSUME Stored, QueueAlone, NEW v \in Workers, at[v] = "handle"
  PROVE  at'[v] = "handle" /\ msg'[v] = msg[v]
<1>1. TypeOK
  BY DEF Stored, Core
<1>2. ASSUME NEW w \in Workers, Polls(w) PROVE at'[v] = at[v] /\ msg'[v] = msg[v]
  BY <1>1, <1>2
  DEF Polls, EnsureGroup, RecoverOwn, Recovered, Promote, AutoClaim, NothingToClaim, ReadNew,
      NothingNew, Reconnect, Return, Deliver, ReplyLost, Disconnect, worker, TypeOK
<1>3. ASSUME NEW w \in Workers, Ack(w) \/ Reschedule(w) \/ Bury(w) \/ CallFails(w)
      PROVE  at'[v] = at[v] /\ msg'[v] = msg[v]
  BY <1>1, <1>3
  DEF Ack, Reschedule, Bury, CallFails, Return, ReplyLost, Disconnect, worker, TypeOK
<1>4. ASSUME NEW P \in Processes, Restart(P) PROVE at'[v] = at[v] /\ msg'[v] = msg[v]
  BY <1>1, <1>4 DEF Restart, TypeOK
<1>5. CASE Time \/ \E r \in Jobs : Enqueue(r)
  BY <1>5 DEF Time, IdleExpires, RetryDue, Enqueue, worker
<1> QED
  BY <1>2, <1>3, <1>4, <1>5 DEF QueueAlone, QueueStep

(* What GradeJob has stored stays stored while the worker goes on with it. *)
LEMMA GoesOn ==
  ASSUME Stored, [GradingNext]_allVars, NEW v \in Workers,
         at[v] = "handle" => at'[v] = "handle" /\ msg'[v] = msg[v],
         stage'[v] = stage[v], outcome'[v] = outcome[v]
  PROVE  InGrading(v)'
<1>1. InGrading(v) /\ TableMoves
  BY TableStep DEF Stored, ScoresInv
<1>2. CASE at[v] # "handle"
  BY <1>1, <1>2 DEF InGrading
<1>3. CASE at[v] = "handle"
  <2>1. /\ Job(v)' = Job(v) /\ Job(v) \in Jobs /\ UserOf[Job(v)] \in Users
        /\ best[UserOf[Job(v)]] \in Nat /\ best[UserOf[Job(v)]] # Absent
    BY <1>3, SameJob, QueueStepOrNot, AtStage, GradingAssumption
  <2>2. saved[Job(v)] \subseteq saved'[Job(v)]
    BY <1>1, <2>1 DEF TableMoves, SavedGrows
  <2>3. /\ best'[UserOf[Job(v)]] # Absent
        /\ best'[UserOf[Job(v)]] >= best[UserOf[Job(v)]]
    BY <1>1, <2>1, BestGrows DEF TableMoves
  <2>4. /\ best'[UserOf[Job(v)]] \in Nat
        /\ stage[v] = "save" => outcome[v] \in Nat
    BY <1>3, <2>1, <2>3, GradingTypeStep, AtStage, GradingAssumption DEF GradingTypeOK
  <2> QED
    BY <1>1, <1>3, <2>1, <2>2, <2>3, <2>4 DEF InGrading
<1> QED
  BY <1>2, <1>3

LEMMA InGradingStep ==
  ASSUME Stored, [GradingNext]_allVars, NEW v \in Workers
  PROVE  InGrading(v)'
<1> USE DEF Stored, GradingTypeOK
<1>0. InGrading(v) /\ TypeOK
  BY DEF ScoresInv, Core
<1>1. CASE UNCHANGED <<at, msg, stage, outcome>>
  BY <1>1, GoesOn
<1>2. ASSUME NEW r \in Jobs, Submit(r) PROVE InGrading(v)'
  BY <1>1, <1>2
  DEF Submit, Lookup, FindProgress, CreateProgress, CreateRow, CreateRowLost, Recheck,
      EnqueueJob, EnqueueFails, Undo, SubmitFails, Enqueue, vars, worker, grader
<1>3. ASSUME NEW w \in Workers, w # v, GradeJob(w) \/ MarkLost(w) PROVE InGrading(v)'
  <2>1. at'[v] = at[v] /\ msg'[v] = msg[v]
    BY <1>0, <1>3
    DEF GradeJob, RunGrader, RunFails, SaveResults, RaiseBest, SaveVerdict, SaveError,
        StoreFails, MarkJobExhausted, MarkLost, HandlerOk, HandlerErr, Exhausted, CallFails,
        Disconnect, vars, worker, TypeOK
  <2>2. stage'[v] = stage[v] /\ outcome'[v] = outcome[v]
    BY <1>3
    DEF GradeJob, RunGrader, RunFails, SaveResults, RaiseBest, SaveVerdict, SaveError,
        StoreFails, MarkJobExhausted, MarkLost, Leave, grader
  <2> QED
    BY <2>1, <2>2, GoesOn
<1>4. CASE RunGrader(v)
  BY <1>0, <1>4, GradingAssumption DEF RunGrader, At, InGrading, vars, worker
<1>5. CASE RunFails(v)
  BY <1>0, <1>5 DEF RunFails, At, InGrading, vars, worker
<1>6. CASE SaveResults(v)
  <2>1. Job(v) \in Jobs /\ Job(v)' = Job(v) /\ outcome[v] # Absent
    BY <1>6, AtStage, GradingAssumption
    DEF SaveResults, At, Job, JobOf, vars, redis, worker
  <2> QED
    BY <1>0, <1>6, <2>1 DEF SaveResults, StoreResults, At, InGrading, vars, worker
<1>7. CASE RaiseBest(v)
  <2>1. /\ Job(v) \in Jobs /\ Job(v)' = Job(v)
        /\ outcome[v] \in saved[Job(v)] /\ outcome[v] \in Nat /\ outcome[v] # Absent
        /\ UserOf[Job(v)] \in Users /\ best[UserOf[Job(v)]] \in Nat
    BY <1>0, <1>7, AtStage, GradingAssumption
    DEF RaiseBest, At, Job, JobOf, vars, redis, worker, InGrading
  <2>2. best'[UserOf[Job(v)]] >= outcome[v]
    BY <1>7, <2>1 DEF RaiseBest, StoreBest
  <2> QED
    BY <1>0, <1>7, <2>1, <2>2 DEF RaiseBest, At, InGrading, vars, worker
<1>8. CASE SaveVerdict(v) \/ SaveError(v) \/ StoreFails(v)
  BY <1>0, <1>8 DEF SaveVerdict, SaveError, StoreFails, Leave, InGrading
<1>9. CASE MarkJobExhausted(v) \/ MarkLost(v)
  BY <1>0, <1>9, GoesOn DEF MarkJobExhausted, MarkLost, Exhausted, CallFails, grader
<1>10. ASSUME NEW P \in Processes, CrashAll(P) PROVE InGrading(v)'
  <2>1. CASE v \in P
    BY <1>10, <2>1 DEF CrashAll, Crash, InGrading
  <2>2. CASE v \notin P
    BY <1>0, <1>10, <2>2, GoesOn DEF CrashAll, Crash
  <2> QED
    BY <2>1, <2>2
<1>11. CASE QueueAlone
  BY <1>11, HandleKept, GoesOn DEF QueueAlone, grader
<1>12. CASE UNCHANGED allVars
  BY <1>1, <1>12 DEF allVars, vars, worker, grader
<1> QED
  BY <1>2, <1>3, <1>4, <1>5, <1>6, <1>7, <1>8, <1>9, <1>10, <1>11, <1>12
  DEF GradingNext, GradeJob

LEMMA VerdictStep ==
  ASSUME Stored, [GradingNext]_allVars
  PROVE  VerdictBacked'
<1> SUFFICES ASSUME NEW j \in Jobs, row'[j] # Absent, row'[j].status = "graded"
             PROVE  /\ row'[j].score \in saved'[j]
                    /\ best'[UserOf[j]] # Absent
                    /\ best'[UserOf[j]] >= row'[j].score
  BY DEF VerdictBacked, HasRow
<1>1. TableMoves /\ UserOf[j] \in Users /\ GradingTypeOK'
  BY TableStep, GradingTypeStep, GradingAssumption
<1>2. saved[j] \subseteq saved'[j]
  BY <1>1 DEF TableMoves, SavedGrows
<1>3. best[UserOf[j]] # Absent
        => /\ best'[UserOf[j]] # Absent /\ best'[UserOf[j]] >= best[UserOf[j]]
           /\ best[UserOf[j]] \in Nat /\ best'[UserOf[j]] \in Nat
  BY <1>1, BestGrows, GradingAssumption DEF TableMoves, Stored, GradingTypeOK
<1>4. CASE row'[j] = row[j]
  <2>1. row[j].score \in Nat
    BY <1>4, GradingAssumption DEF Stored, GradingTypeOK, Row
  <2> QED
    BY <1>2, <1>3, <1>4, <2>1 DEF Stored, ScoresInv, VerdictBacked, HasRow
<1>5. CASE row'[j] # row[j]
  <2>0. PICK w \in Workers :
          /\ At(w, "save") /\ j = Job(w)
          /\ row'[j] = [status |-> "graded", score |-> outcome[w], keyed |-> FALSE]
    BY <1>1, <1>5, Zenon DEF TableMoves, RowMoves
  <2>1. At(w, "save") /\ j = Job(w) /\ row'[j].score = outcome[w]
    BY <2>0
  <2>2. outcome[w] \in saved[j] /\ best[UserOf[j]] >= outcome[w] /\ outcome[w] \in Nat
        /\ best[UserOf[j]] # Absent
    BY <2>1, AtStage, GradingAssumption DEF At, Stored, ScoresInv, InGrading
  <2> QED
    BY <1>2, <1>3, <2>1, <2>2
<1> QED
  BY <1>4, <1>5

LEMMA EarnedStep ==
  ASSUME Stored, [GradingNext]_allVars
  PROVE  BestEarned'
<1> SUFFICES ASSUME NEW u \in Users, best'[u] \notin {Absent, 0}
             PROVE  \E j \in Jobs : UserOf[j] = u /\ best'[u] \in saved'[j]
  BY DEF BestEarned
<1>1. TableMoves
  BY TableStep
<1>2. CASE best'[u] = best[u]
  BY <1>1, <1>2 DEF TableMoves, SavedGrows, Stored, ScoresInv, BestEarned
<1>3. CASE best'[u] # best[u]
  <2>1. PICK w \in Workers : At(w, "best") /\ u = UserOf[Job(w)] /\ best'[u] = outcome[w]
    BY <1>1, <1>3 DEF TableMoves, BestMoves
  <2>2. Job(w) \in Jobs /\ outcome[w] \in saved[Job(w)]
    BY <2>1, AtStage DEF At, Stored, ScoresInv, InGrading
  <2> QED
    BY <1>1, <2>1, <2>2 DEF TableMoves, SavedGrows
<1> QED
  BY <1>2, <1>3

LEMMA StoredInit == GradingInit => Stored
<1> SUFFICES ASSUME GradingInit PROVE Stored
  OBVIOUS
<1>1. Core
  BY CoreInit DEF GradingInit
<1>2. GradingTypeOK
  BY DEF GradingInit, GradingTypeOK, Steps
<1>3. Known
  BY QueueAssumption DEF GradingInit, Init, Known, IsJob
<1>4. ScoresInv
  BY <1>3 DEF GradingInit, Init, ScoresInv, ProgressInv, InGrading, VerdictBacked, BestEarned,
              HasRow
<1> QED
  BY <1>1, <1>2, <1>4 DEF Stored

LEMMA StoredStep == Stored /\ [GradingNext]_allVars => Stored'
<1> SUFFICES ASSUME Stored, [GradingNext]_allVars PROVE Stored'
  OBVIOUS
<1>1. Core' /\ Known'
  BY QueueStepOrNot, CoreStep, KnownStep DEF Stored, ScoresInv
<1>2. ScoresInv'
  BY <1>1, ProgressStep, InGradingStep, VerdictStep, EarnedStep DEF ScoresInv
<1> QED
  BY <1>1, <1>2, GradingTypeStep DEF Stored

LEMMA StoredInvariant == GradingSpec => []Stored
BY StoredInit, StoredStep, PTL DEF GradingSpec

(* Every reachable state of requests, workers and tables is well typed.    *)
THEOREM GradingTypeCorrect == GradingSpec => []GradingTypeOK
<1>1. Stored => GradingTypeOK
  BY DEF Stored
<1> QED
  BY <1>1, StoredInvariant, PTL

(* A submission shown as graded has its results stored and counts in its   *)
(* user's best score, although GradeJob writes three tables in three calls *)
(* and any of them may fail, be repeated, or be made by two workers.       *)
THEOREM VerdictIsBacked == GradingSpec => []VerdictBacked
<1>1. Stored => VerdictBacked
  BY DEF Stored, ScoresInv
<1> QED
  BY <1>1, StoredInvariant, PTL

(* A best score is never above what stored results of that user show.      *)
THEOREM BestIsEarned == GradingSpec => []BestEarned
<1>1. Stored => BestEarned
  BY DEF Stored, ScoresInv
<1> QED
  BY <1>1, StoredInvariant, PTL

(* No interleaving of any number of gradings lowers a best score.          *)
THEOREM BestScoreNeverDrops == GradingSpec => BestNeverDrops
<1>1. ASSUME Stored, [GradingNext]_allVars
      PROVE  [\A u \in Users : best[u] # Absent
                => best'[u] # Absent /\ best'[u] >= best[u]]_allVars
  BY <1>1, TableStep, BestGrows DEF TableMoves
<1> QED
  BY <1>1, StoredInvariant, PTL DEF GradingSpec, BestNeverDrops

(* No accepted submission vanishes from the queue of the whole system.     *)
THEOREM NoSubmissionIsLost == GradingSpec => []NoJobLost
BY QueueIsRespected, NoJobIsLost, PTL

-----------------------------------------------------------------------------
(* Keys.                                                                   *)

Indexed == Stored /\ KeysInv

(* A step writes one row at most: Submit with the key of the call, when no *)
(* other row has it, or a worker without a key.                            *)
KeyMoves ==
  \/ UNCHANGED row
  \/ \E j \in Jobs :
       /\ \A k \in Jobs \ {j} : row'[k] = row[k]
       /\ row'[j] \in Row
       /\ \/ row'[j].keyed = Keyed(j) /\ (Keyed(j) => Holders(j) \subseteq {j})
          \/ ~row'[j].keyed /\ \E w \in Workers : Calling(w) /\ j = Job(w)

LEMMA KeyStep ==
  ASSUME Stored, [GradingNext]_allVars
  PROVE  KeyMoves
<1>0. row \in [Jobs -> Row \cup {Absent}]
  BY DEF Stored, GradingTypeOK
<1>1. ASSUME NEW r \in Jobs, Submit(r) PROVE KeyMoves
  <2>1. ASSUME NEW s \in {"queued", "system_error"}, SaveRow(r, s, 0, Keyed(r)),
               Keyed(r) => Holders(r) \subseteq {r}
        PROVE  KeyMoves
    BY <1>0, <2>1, GradingAssumption DEF SaveRow, KeyMoves, Row, Status, Keyed
  <2>2. CASE UNCHANGED row
    BY <2>2 DEF KeyMoves
  <2> QED
    BY <1>1, <2>1, <2>2
    DEF Submit, Lookup, FindProgress, CreateProgress, CreateRow, CreateRowLost, Recheck,
        EnqueueJob, EnqueueFails, Undo, SubmitFails, store
<1>2. ASSUME NEW w \in Workers, GradeJob(w) \/ MarkLost(w) PROVE KeyMoves
  <2>1. Calling(w)
    BY <1>2
    DEF GradeJob, RunGrader, RunFails, SaveResults, RaiseBest, SaveVerdict, SaveError,
        StoreFails, MarkJobExhausted, MarkLost, Exhausted, At, Calling
  <2>2. Job(w) \in Jobs
    BY <2>1, InHand DEF Stored, Calling, Handling, Job
  <2>3. ASSUME StoreError(w) PROVE KeyMoves
    BY <1>0, <2>1, <2>2, <2>3, GradingAssumption
    DEF StoreError, SaveRow, KeyMoves, Row, Status
  <2>4. ASSUME At(w, "save"), StoreVerdict(w) PROVE KeyMoves
    <3>1. outcome[w] \in Scores
      BY <2>4, AtStage DEF At
    <3> QED
      BY <1>0, <2>1, <2>2, <2>4, <3>1 DEF StoreVerdict, SaveRow, KeyMoves, Row, Status
  <2>5. CASE UNCHANGED row
    BY <2>5 DEF KeyMoves
  <2> QED
    BY <1>2, <2>3, <2>4, <2>5
    DEF GradeJob, RunGrader, RunFails, SaveResults, RaiseBest, SaveVerdict, SaveError,
        StoreFails, MarkJobExhausted, MarkLost, store
<1>3. CASE UNCHANGED row
  BY <1>3 DEF KeyMoves
<1> QED
  BY <1>1, <1>2, <1>3 DEF GradingNext, QueueAlone, CrashAll, store, allVars

LEMMA RowsStay ==
  ASSUME KeyMoves, NEW j \in Jobs, HasRow(j)
  PROVE  HasRow(j)'
BY GradingAssumption DEF KeyMoves, HasRow, Row

LEMMA RowKeysStep ==
  ASSUME Indexed, [GradingNext]_allVars
  PROVE  /\ \A j \in Jobs : HasRow(j)' /\ row'[j].keyed => Keyed(j)
         /\ \A j \in Jobs : HasRow(j)' /\ runs'[j] = 0 => row'[j].keyed = Keyed(j)
         /\ \A r \in Jobs : \A j, k \in Holders(r)' : j = k
<1>1. KeyMoves /\ Started /\ TypeOK
  BY KeyStep DEF Indexed, KeysInv, Stored, Core
<1>2. \A j \in Jobs : runs'[j] = 0 => runs[j] = 0
  BY <1>1, RunsGrow, QueueStepOrNot DEF Indexed, Stored, TypeOK
<1>3. ASSUME NEW w \in Workers, Calling(w) PROVE runs[Job(w)] > 0
  BY <1>1, <1>3 DEF Started, Calling, Job
<1>4. CASE UNCHANGED row
  BY <1>2, <1>4 DEF Indexed, KeysInv, HasRow, Holders
<1>5. ASSUME NEW j \in Jobs,
             \A k \in Jobs \ {j} : row'[k] = row[k],
             row'[j] \in Row,
             row'[j].keyed = Keyed(j) /\ (Keyed(j) => Holders(j) \subseteq {j})
      PROVE  /\ \A k \in Jobs : HasRow(k)' /\ row'[k].keyed => Keyed(k)
             /\ \A k \in Jobs : HasRow(k)' /\ runs'[k] = 0 => row'[k].keyed = Keyed(k)
             /\ \A r \in Jobs : \A i, k \in Holders(r)' : i = k
  <2>1. \A k \in Jobs : HasRow(k)' /\ row'[k].keyed => Keyed(k)
    BY <1>5 DEF Indexed, KeysInv, HasRow
  <2>2. \A k \in Jobs : HasRow(k)' /\ runs'[k] = 0 => row'[k].keyed = Keyed(k)
    BY <1>2, <1>5 DEF Indexed, KeysInv, HasRow
  <2>3. ASSUME NEW r \in Jobs, NEW i \in Holders(r)', NEW k \in Holders(r)' PROVE i = k
    <3>1. i \in Jobs /\ k \in Jobs /\ KeyOf[i] = KeyOf[r] /\ KeyOf[k] = KeyOf[r]
      BY DEF Holders
    <3>2. ASSUME NEW n \in Holders(r)', n # j PROVE n \in Holders(r)
      BY <1>5, <3>2 DEF Holders, HasRow
    <3>3. ASSUME NEW n \in Holders(r)', j \in Holders(r)' PROVE n = j
      <4>1. Keyed(j) /\ KeyOf[j] = KeyOf[r]
        BY <1>5, <3>3 DEF Holders
      <4>2. n # j => n \in Holders(j)
        BY <3>2, <4>1 DEF Holders
      <4> QED
        BY <1>5, <4>1, <4>2
    <3> QED
      BY <3>1, <3>2, <3>3 DEF Indexed, KeysInv
  <2> QED
    BY <2>1, <2>2, <2>3
<1>6. ASSUME NEW j \in Jobs, NEW w \in Workers, Calling(w), j = Job(w),
             \A k \in Jobs \ {j} : row'[k] = row[k],
             row'[j] \in Row, ~row'[j].keyed
      PROVE  /\ \A k \in Jobs : HasRow(k)' /\ row'[k].keyed => Keyed(k)
             /\ \A k \in Jobs : HasRow(k)' /\ runs'[k] = 0 => row'[k].keyed = Keyed(k)
             /\ \A r \in Jobs : \A i, k \in Holders(r)' : i = k
  <2>1. runs[j] # 0
    BY <1>1, <1>3, <1>6 DEF TypeOK
  <2>2. \A k \in Jobs : HasRow(k)' /\ row'[k].keyed => Keyed(k)
    BY <1>6 DEF Indexed, KeysInv, HasRow
  <2>3. \A k \in Jobs : HasRow(k)' /\ runs'[k] = 0 => row'[k].keyed = Keyed(k)
    BY <1>2, <1>6, <2>1 DEF Indexed, KeysInv, HasRow
  <2>4. \A r \in Jobs : Holders(r)' \subseteq Holders(r)
    BY <1>6 DEF Holders, HasRow
  <2> QED
    BY <2>2, <2>3, <2>4 DEF Indexed, KeysInv
<1> QED
  BY <1>1, <1>4, <1>5, <1>6 DEF KeyMoves

LEMMA RequestStep ==
  ASSUME Indexed, [GradingNext]_allVars
  PROVE  /\ \A r \in Jobs : req'[r] \in {"enqueue", "undo"} => HasRow(r)'
         /\ \A r \in Jobs : req'[r] = "recheck" => Keyed(r)
<1> DEFINE Rows == \A r \in Jobs : req'[r] \in {"enqueue", "undo"} => HasRow(r)'
           Rechecks == \A r \in Jobs : req'[r] = "recheck" => Keyed(r)
<1>0. \A j \in Jobs : HasRow(j) => HasRow(j)'
  BY KeyStep, RowsStay DEF Indexed
<1>1. KeysInv /\ req \in [Jobs -> Steps \cup Ended] /\ row \in [Jobs -> Row \cup {Absent}]
  BY DEF Indexed, Stored, GradingTypeOK
<1>2. ASSUME \A r \in Jobs : req'[r] \in {"enqueue", "undo", "recheck"} => req'[r] = req[r]
      PROVE  Rows /\ Rechecks
  BY <1>0, <1>1, <1>2 DEF KeysInv
<1>3. ASSUME NEW r \in Jobs, Submit(r) PROVE Rows /\ Rechecks
  <2>1. CASE CreateRow(r) \/ CreateRowLost(r)
    <3>1. \A q \in Jobs \ {r} : req'[q] = req[q]
      BY <1>1, <2>1 DEF CreateRow, CreateRowLost, Goto
    <3>2. req'[r] = "recheck" => Keyed(r)
      BY <1>1, <2>1 DEF CreateRow, CreateRowLost, Goto
    <3>3. req'[r] \in {"enqueue", "undo"}
            => row'[r] = [status |-> "queued", score |-> 0, keyed |-> Keyed(r)]
      BY <1>1, <2>1 DEF CreateRow, CreateRowLost, Goto, SaveRow
    <3>4. [status |-> "queued", score |-> 0, keyed |-> Keyed(r)] # Absent
      <4>1. "queued" \in Status /\ 0 \in Scores /\ Keyed(r) \in BOOLEAN
        BY GradingAssumption DEF Status, Keyed
      <4>2. [status |-> "queued", score |-> 0, keyed |-> Keyed(r)] \in Row
        BY <4>1 DEF Row
      <4> QED
        BY <4>2, GradingAssumption DEF Row
    <3> QED
      BY <1>0, <1>1, <3>1, <3>2, <3>3, <3>4 DEF KeysInv, HasRow
  <2>2. CASE ~CreateRow(r) /\ ~CreateRowLost(r)
    BY <1>0, <1>1, <1>3, <2>2
    DEF Submit, Lookup, FindProgress, CreateProgress, Recheck, EnqueueJob, EnqueueFails, Undo,
        SubmitFails, AnswerPrior, Goto, KeysInv
  <2> QED
    BY <2>1, <2>2
<1>4. ASSUME NEW P \in Processes, CrashAll(P) PROVE Rows /\ Rechecks
  BY <1>1, <1>2, <1>4 DEF CrashAll, Ended
<1>5. CASE UNCHANGED req
  BY <1>2, <1>5
<1>6. ASSUME NEW w \in Workers, GradeJob(w) \/ MarkLost(w) PROVE UNCHANGED req
  BY <1>6
  DEF GradeJob, RunGrader, RunFails, SaveResults, RaiseBest, SaveVerdict, SaveError,
      StoreFails, MarkJobExhausted, MarkLost, intake
<1> QED
  BY <1>3, <1>4, <1>5, <1>6 DEF GradingNext, QueueAlone, intake, allVars

LEMMA AnswerStep ==
  ASSUME Indexed, [GradingNext]_allVars
  PROVE  AnswerIsCallers'
<1>0. \A j \in Jobs : HasRow(j) => HasRow(j)'
  BY KeyStep, RowsStay DEF Indexed
<1>1. KeysInv /\ answer \in [Jobs -> Jobs \cup {Absent}]
  BY DEF Indexed, Stored, GradingTypeOK
<1>2. ASSUME UNCHANGED answer PROVE AnswerIsCallers'
  BY <1>0, <1>1, <1>2 DEF KeysInv, AnswerIsCallers, Keyed
<1>3. ASSUME NEW r \in Jobs, AnswerPrior(r), Keyed(r) PROVE AnswerIsCallers'
  <2>1. CASE UNCHANGED answer
    BY <1>2, <2>1
  <2>2. CASE ~UNCHANGED answer
    <3>1. PICK j \in Holders(r) :
            UserOf[j] = UserOf[r] /\ answer' = [answer EXCEPT ![r] = j]
      BY <1>3, <2>2 DEF AnswerPrior
    <3>2. j \in Jobs /\ HasRow(j)' /\ KeyOf[j] = KeyOf[r]
      BY <1>0 DEF Holders
    <3> QED
      BY <1>0, <1>1, <1>3, <3>1, <3>2 DEF KeysInv, AnswerIsCallers, Keyed
  <2> QED
    BY <2>1, <2>2
<1>4. ASSUME NEW r \in Jobs, EnqueueJob(r) PROVE AnswerIsCallers'
  <2>1. CASE UNCHANGED answer
    BY <1>2, <2>1
  <2>2. CASE answer' = [answer EXCEPT ![r] = r]
    <3>1. HasRow(r)'
      BY <1>0, <1>1, <1>4 DEF EnqueueJob, KeysInv
    <3> QED
      BY <1>0, <1>1, <2>2, <3>1 DEF KeysInv, AnswerIsCallers, Keyed
  <2> QED
    BY <1>4, <2>1, <2>2 DEF EnqueueJob
<1>5. ASSUME NEW r \in Jobs, Submit(r) PROVE AnswerIsCallers'
  BY <1>1, <1>2, <1>3, <1>4, <1>5
  DEF Submit, Lookup, FindProgress, CreateProgress, CreateRow, CreateRowLost, Recheck,
      EnqueueFails, Undo, SubmitFails, KeysInv
<1>6. ASSUME NEW w \in Workers, GradeJob(w) \/ MarkLost(w) PROVE UNCHANGED answer
  BY <1>6
  DEF GradeJob, RunGrader, RunFails, SaveResults, RaiseBest, SaveVerdict, SaveError,
      StoreFails, MarkJobExhausted, MarkLost, intake
<1> QED
  BY <1>2, <1>5, <1>6 DEF GradingNext, CrashAll, QueueAlone, intake, allVars

LEMMA IndexedInit == GradingInit => Indexed
<1> SUFFICES ASSUME GradingInit PROVE Indexed
  OBVIOUS
<1>1. Stored
  BY StoredInit
<1>2. KeysInv
  BY DEF GradingInit, Init, KeysInv, HasRow, Holders, Started, AnswerIsCallers,
         OneRowUntilGrading
<1> QED
  BY <1>1, <1>2 DEF Indexed

LEMMA IndexedStep == Indexed /\ [GradingNext]_allVars => Indexed'
<1> SUFFICES ASSUME Indexed, [GradingNext]_allVars PROVE Indexed'
  OBVIOUS
<1>1. Stored' /\ Started'
  BY StoredStep, StartedStep, QueueStepOrNot DEF Indexed, KeysInv, Stored
<1>2. runs' \in [Jobs -> Nat]
  BY <1>1 DEF Stored, Core, TypeOK
<1>3. OneRowUntilGrading'
  <2> SUFFICES ASSUME NEW r \in Jobs, NEW q \in Jobs, Keyed(r), KeyOf[r] = KeyOf[q],
                      HasRow(r)', HasRow(q)', ~(runs'[r] + runs'[q] > 0)
               PROVE  r = q
    BY DEF OneRowUntilGrading, Keyed
  <2>1. runs'[r] = 0 /\ runs'[q] = 0
    BY <1>2
  <2>2. row'[r].keyed /\ row'[q].keyed
    BY <2>1, RowKeysStep DEF Keyed
  <2>3. r \in Holders(r)' /\ q \in Holders(r)'
    BY <2>2 DEF Holders
  <2> QED
    BY <2>3, RowKeysStep
<1>4. KeysInv'
  BY <1>1, <1>3, RowKeysStep, RequestStep, AnswerStep DEF KeysInv, Keyed
<1> QED
  BY <1>1, <1>4 DEF Indexed

LEMMA IndexedInvariant == GradingSpec => []Indexed
BY IndexedInit, IndexedStep, PTL DEF GradingSpec

(* Submit gives nobody a submission of another user, nor one made under    *)
(* another key, for any number of concurrent calls and users.              *)
THEOREM AnswersAreCallers == GradingSpec => []AnswerIsCallers
<1>1. Indexed => AnswerIsCallers
  BY DEF Indexed, KeysInv
<1> QED
  BY <1>1, IndexedInvariant, PTL

(* Until a worker starts on it, a key has one submission, for any number   *)
(* of concurrent calls, retries and failures of Submit.                    *)
THEOREM OneRowPerKey == GradingSpec => []OneRowUntilGrading
<1>1. Indexed => OneRowUntilGrading
  BY DEF Indexed, KeysInv
<1> QED
  BY <1>1, IndexedInvariant, PTL
-----------------------------------------------------------------------------
(* The tables as ScoreTables promises them to their readers, slow jobs and *)
(* calls sent twice included.                                              *)

Kept == Indexed /\ RowsInv

LEMMA NewRow ==
  ASSUME NEW s \in Status, NEW score \in Scores, NEW k \in BOOLEAN
  PROVE  [status |-> s, score |-> score, keyed |-> k] # Absent
<1>1. [status |-> s, score |-> score, keyed |-> k] \in Row
  BY DEF Row
<1> QED
  BY <1>1, GradingAssumption DEF Row

(* A worker writes the row of an enqueued submission.                      *)
LEMMA WorkersWrite ==
  ASSUME Stored, NEW w \in Workers, GradeJob(w) \/ MarkLost(w)
  PROVE  /\ UNCHANGED <<req, enqueued>>
         /\ Job(w) \in enqueued /\ Job(w) \in Jobs
         /\ \A k \in Jobs \ {Job(w)} : row'[k] = row[k]
<1>1. Calling(w)
  BY DEF GradeJob, RunGrader, RunFails, SaveResults, RaiseBest, SaveVerdict, SaveError, StoreFails,
         MarkJobExhausted, MarkLost, Exhausted, At, Calling
<1>2. Job(w) \in Jobs /\ IsJob(msg[w]) /\ msg[w] \in Ids
  BY <1>1, InHand DEF Stored, Calling, Handling, Job, IsJob
<1>3. Job(w) \in enqueued
  BY <1>2 DEF Stored, ScoresInv, Known, Job
<1>4. UNCHANGED <<req, enqueued>>
  BY DEF GradeJob, RunGrader, RunFails, SaveResults, RaiseBest, SaveVerdict, SaveError, StoreFails,
         MarkJobExhausted, MarkLost, HandlerOk, HandlerErr, Exhausted, CallFails, vars, history,
         intake
<1>5. row \in [Jobs -> Row \cup {Absent}]
  BY DEF Stored, GradingTypeOK
<1>6. \A k \in Jobs \ {Job(w)} : row'[k] = row[k]
  BY <1>5
  DEF GradeJob, RunGrader, RunFails, SaveResults, RaiseBest, SaveVerdict, SaveError, StoreFails,
      MarkJobExhausted, MarkLost, StoreVerdict, StoreError, SaveRow, store
<1> QED
  BY <1>2, <1>3, <1>4, <1>6

(* The queue by itself enqueues no submission.                             *)
LEMMA QueueEnqueues ==
  ASSUME QueueAlone
  PROVE  UNCHANGED <<row, best, saved, req, enqueued>>
<1>1. ASSUME NEW r \in Jobs, r \in enqueued, Enqueue(r) PROVE UNCHANGED enqueued
  BY <1>1 DEF Enqueue
<1>2. UNCHANGED enqueued
  BY <1>1
  DEF QueueAlone, QueueStep, Polls, EnsureGroup, RecoverOwn, Recovered, Promote, AutoClaim,
      NothingToClaim, ReadNew, NothingNew, Reconnect, Ack, Reschedule, Bury, CallFails,
      Restart, Time, IdleExpires, RetryDue, history
<1> QED
  BY <1>2 DEF QueueAlone, store, intake

LEMMA RowsStep ==
  ASSUME Kept, [GradingNext]_allVars
  PROVE  RowsInv'
<1> DEFINE Early == {"lookup", "progress", "create", "save"}
<1>0. /\ req \in [Jobs -> Steps \cup Ended] /\ row \in [Jobs -> Row \cup {Absent}]
      /\ KeysInv /\ RowsInv /\ Stored
      /\ \A j \in Jobs : HasRow(j) => HasRow(j)'
  BY KeyStep, RowsStay DEF Kept, Indexed, Stored, GradingTypeOK
<1>1. ASSUME UNCHANGED <<row, enqueued>>, \A r \in Jobs : req'[r] \in Early => req[r] \in Early
      PROVE  RowsInv'
  BY <1>0, <1>1 DEF RowsInv, HasRow
<1>2. ASSUME NEW r \in Jobs, Submit(r) PROVE RowsInv'
  <2>1. CASE CreateRow(r) \/ CreateRowLost(r)
    <3>1. /\ \A q \in Jobs \ {r} : req'[q] = req[q] /\ row'[q] = row[q]
          /\ req[r] = "save" /\ req'[r] \notin Early /\ UNCHANGED enqueued
      BY <1>0, <2>1 DEF CreateRow, CreateRowLost, Goto, SaveRow, vars, history
    <3> QED
      BY <1>0, <3>1 DEF RowsInv, HasRow
  <2>2. CASE EnqueueJob(r)
    <3>1. /\ \A q \in Jobs \ {r} : req'[q] = req[q]
          /\ req[r] = "enqueue" /\ req'[r] \notin Early /\ UNCHANGED row
          /\ enqueued' = enqueued \cup {r}
      BY <1>0, <2>2 DEF EnqueueJob, Enqueue, Goto, store
    <3>2. HasRow(r)
      BY <1>0, <3>1 DEF KeysInv
    <3> QED
      BY <1>0, <3>1, <3>2 DEF RowsInv, HasRow
  <2>3. CASE Undo(r)
    <3>1. /\ \A q \in Jobs \ {r} : req'[q] = req[q] /\ row'[q] = row[q]
          /\ req'[r] \notin Early /\ UNCHANGED enqueued
      BY <1>0, <2>3 DEF Undo, Goto, SaveRow, vars, history
    <3> QED
      BY <1>0, <3>1 DEF RowsInv, HasRow
  <2>4. CASE ~CreateRow(r) /\ ~CreateRowLost(r) /\ ~EnqueueJob(r) /\ ~Undo(r)
    <3>1. UNCHANGED <<row, enqueued>>
      BY <1>2, <2>4
      DEF Submit, Lookup, FindProgress, CreateProgress, Recheck, EnqueueFails, SubmitFails, store,
          vars, history
    <3>2. \A q \in Jobs : req'[q] \in Early => req[q] \in Early
      BY <1>0, <1>2, <2>4
      DEF Submit, Lookup, FindProgress, CreateProgress, Recheck, EnqueueFails, SubmitFails,
          AnswerPrior, Goto
    <3> QED
      BY <1>1, <3>1, <3>2
  <2> QED
    BY <2>1, <2>2, <2>3, <2>4
<1>3. ASSUME NEW w \in Workers, GradeJob(w) \/ MarkLost(w) PROVE RowsInv'
  <2>1. /\ UNCHANGED <<req, enqueued>> /\ Job(w) \in enqueued
        /\ \A k \in Jobs \ {Job(w)} : row'[k] = row[k]
    BY <1>0, <1>3, WorkersWrite
  <2> QED
    BY <1>0, <2>1 DEF RowsInv, HasRow
<1>4. ASSUME NEW P \in Processes, CrashAll(P) PROVE RowsInv'
  <2>1. UNCHANGED <<row, enqueued>>
    BY <1>4 DEF CrashAll, Crash, history, store
  <2>2. \A r \in Jobs : req'[r] \in Early => req[r] \in Early
    BY <1>4 DEF CrashAll, Ended
  <2> QED
    BY <1>1, <2>1, <2>2
<1>5. CASE QueueAlone \/ UNCHANGED allVars
  <2>1. UNCHANGED <<row, enqueued, req>>
    BY <1>5, QueueEnqueues DEF allVars, vars, history, store, intake
  <2> QED
    BY <1>1, <2>1
<1> QED
  BY <1>2, <1>3, <1>4, <1>5 DEF GradingNext

LEMMA KeptInvariant == GradingSpec => []Kept
<1>1. GradingInit => RowsInv
  BY DEF GradingInit, Init, RowsInv, HasRow
<1>2. Indexed /\ RowsInv /\ [GradingNext]_allVars => RowsInv'
  BY RowsStep DEF Kept
<1> QED
  BY <1>1, <1>2, IndexedInvariant, PTL DEF GradingSpec, Kept

(* What the readers see of a step.  All rows are for one problem.          *)
LEMMA ShownRow ==
  ASSUME NEW r \in Jobs
  PROVE  /\ Tables!Best(r) = best[UserOf[r]]
         /\ Tables!HasSubmission(r) <=> HasRow(r)
         /\ UserOf[r] \in Users /\ TheProblem[r] = "problem"
<1>1. UserOf[r] \in Users /\ TheProblem[r] = "problem"
  BY GradingAssumption DEF TheProblem
<1>2. Tables!Best(r) = best[UserOf[r]]
  BY <1>1 DEF Tables!Best, ShownBest, TheProblem
<1>3. ShownTable[r] = ShownStatus(r)
  BY DEF ShownTable
<1>4. HasRow(r) => ShownStatus(r) # Absent
  BY GradingAssumption DEF ShownStatus
<1>5. ~HasRow(r) => ShownStatus(r) = Absent
  BY DEF ShownStatus
<1> QED
  BY <1>1, <1>2, <1>3, <1>4, <1>5 DEF Tables!HasSubmission

LEMMA ShownBestSet ==
  ASSUME Stored, NEW r \in Jobs, NEW v, best' = [best EXCEPT ![UserOf[r]] = v]
  PROVE  Tables!SetBest(r, v)
<1>1. UserOf[r] \in Users /\ TheProblem[r] = "problem" /\ best \in [Users -> Scores \cup {Absent}]
  BY GradingAssumption DEF TheProblem, Stored, GradingTypeOK
<1>2. {TheProblem[j] : j \in Jobs} = {"problem"}
  BY DEF TheProblem
<1>3. ShownBest = [u \in Users |-> [p \in {"problem"} |-> best[u]]]
  BY <1>2 DEF ShownBest
<1>4. ShownBest' = [u \in Users |-> [p \in {"problem"} |-> best'[u]]]
  BY <1>2 DEF ShownBest
<1>5. \A u \in Users : best'[u] = IF u = UserOf[r] THEN v ELSE best[u]
  BY <1>1
<1>6. ShownBest' = [ShownBest EXCEPT ![UserOf[r]]["problem"] = v]
  BY <1>1, <1>3, <1>4, <1>5
<1> QED
  BY <1>1, <1>6 DEF Tables!SetBest

LEMMA ShownSame ==
  /\ UNCHANGED best => UNCHANGED ShownBest
  /\ UNCHANGED row => UNCHANGED ShownTable
BY DEF ShownBest, ShownTable, ShownStatus, HasRow

LEMMA ShownRowSet ==
  ASSUME NEW r \in Jobs, \A k \in Jobs \ {r} : row'[k] = row[k]
  PROVE  ShownTable' = [ShownTable EXCEPT ![r] = ShownStatus(r)']
<1>1. \A k \in Jobs \ {r} : ShownStatus(k)' = ShownStatus(k)
  BY DEF ShownStatus, HasRow
<1> QED
  BY <1>1 DEF ShownTable

(* Submit makes the progress row, then the submission, and undoes it.      *)
LEMMA SubmitShown ==
  ASSUME Kept, NEW r \in Jobs, Submit(r)
  PROVE  Tables!TablesNext \/ UNCHANGED Tables!tables
<1>0. /\ Stored /\ KeysInv /\ RowsInv /\ ProgressInv
      /\ row \in [Jobs -> Row \cup {Absent}] /\ Keyed(r) \in BOOLEAN
  BY DEF Kept, Indexed, Stored, ScoresInv, GradingTypeOK, Keyed
<1>1. CASE CreateProgress(r)
  <2>1. CASE best' = [best EXCEPT ![UserOf[r]] = 0] /\ best[UserOf[r]] = Absent
    <3>1. Tables!SetBest(r, 0) /\ UNCHANGED ShownTable /\ Tables!Best(r) = Absent
      BY <1>0, <1>1, <2>1, ShownBestSet, ShownSame, ShownRow DEF CreateProgress
    <3> QED
      BY <3>1 DEF Tables!StartProgress, Tables!TablesNext
  <2>2. CASE UNCHANGED best
    BY <1>1, <2>2, ShownSame DEF CreateProgress, Tables!tables
  <2> QED
    BY <1>1, <2>1, <2>2 DEF CreateProgress
<1>2. ASSUME req[r] = "save", SaveRow(r, "queued", 0, Keyed(r)), UNCHANGED best
      PROVE  Tables!TablesNext
  <2>1. /\ row'[r] = [status |-> "queued", score |-> 0, keyed |-> Keyed(r)]
        /\ \A k \in Jobs \ {r} : row'[k] = row[k]
    BY <1>0, <1>2 DEF SaveRow
  <2>2. ShownStatus(r)' = "queued"
    BY <1>0, <2>1, NewRow, GradingAssumption DEF ShownStatus, HasRow, Status
  <2>3. ~HasRow(r) /\ best[UserOf[r]] # Absent
    BY <1>0, <1>2 DEF RowsInv, ProgressInv
  <2>4. /\ Tables!Best(r) # Absent /\ ~Tables!HasSubmission(r)
        /\ ShownTable' = [ShownTable EXCEPT ![r] = "queued"] /\ UNCHANGED ShownBest
    BY <1>2, <2>1, <2>2, <2>3, ShownRow, ShownRowSet, ShownSame
  <2> QED
    BY <2>4 DEF Tables!EnterRow, Tables!TablesNext
<1>3. ASSUME req[r] = "undo", SaveRow(r, "system_error", 0, Keyed(r)), UNCHANGED best
      PROVE  Tables!TablesNext
  <2>1. /\ row'[r] = [status |-> "system_error", score |-> 0, keyed |-> Keyed(r)]
        /\ \A k \in Jobs \ {r} : row'[k] = row[k]
    BY <1>0, <1>3 DEF SaveRow
  <2>2. ShownStatus(r)' = "rejected"
    BY <1>0, <2>1, NewRow, GradingAssumption DEF ShownStatus, HasRow, Status
  <2>3. HasRow(r)
    BY <1>0, <1>3 DEF KeysInv
  <2>4. /\ Tables!HasSubmission(r) /\ UNCHANGED ShownBest
        /\ ShownTable' = [ShownTable EXCEPT ![r] = "rejected"]
    BY <1>3, <2>1, <2>2, <2>3, ShownRow, ShownRowSet, ShownSame
  <2> QED
    BY <2>4 DEF Tables!GiveUp, Tables!GradeRow, Tables!TablesNext
<1>4. CASE UNCHANGED <<row, best>>
  BY <1>4, ShownSame DEF Tables!tables
<1> QED
  BY <1>1, <1>2, <1>3, <1>4
  DEF Submit, Lookup, FindProgress, CreateRow, CreateRowLost, Recheck, EnqueueJob, EnqueueFails,
      Undo, SubmitFails, store

(* A worker raises the best score, publishes a verdict that is backed by   *)
(* it, or gives up, whatever other workers do to the same submission.      *)
LEMMA WorkShown ==
  ASSUME Kept, NEW w \in Workers, GradeJob(w) \/ MarkLost(w)
  PROVE  Tables!TablesNext \/ UNCHANGED Tables!tables
<1> PICK r \in Jobs : r = Job(w)
  BY WorkersWrite DEF Kept, Indexed
<1>0. /\ Stored /\ r \in Jobs /\ HasRow(r)
      /\ row \in [Jobs -> Row \cup {Absent}] /\ Tables!HasSubmission(r)
  BY WorkersWrite, ShownRow DEF Kept, Indexed, RowsInv, Stored, GradingTypeOK
<1>1. ASSUME At(w, "best"), StoreBest(w), UNCHANGED row PROVE Tables!TablesNext
  <2>1. outcome[w] \in Scores
    BY <1>0, <1>1, AtStage DEF At
  <2>2. best' = [best EXCEPT ![UserOf[r]] =
                   IF best[UserOf[r]] < outcome[w] THEN outcome[w] ELSE best[UserOf[r]]]
    BY <1>1 DEF StoreBest
  <2>3. /\ Tables!Best(r) = best[UserOf[r]] /\ UNCHANGED ShownTable
        /\ Tables!SetBest(r, IF best[UserOf[r]] < outcome[w] THEN outcome[w] ELSE best[UserOf[r]])
    BY <1>0, <1>1, <2>2, ShownRow, ShownBestSet, ShownSame
  <2>4. Tables!Raise(r, outcome[w])
    BY <1>0, <2>3 DEF Tables!Raise
  <2> QED
    BY <1>0, <2>1, <2>4 DEF Tables!GradeRow, Tables!TablesNext
<1>2. ASSUME At(w, "save"), StoreVerdict(w), UNCHANGED best PROVE Tables!TablesNext
  <2>1. outcome[w] \in Scores /\ best[UserOf[r]] >= outcome[w]
    BY <1>0, <1>2, AtStage DEF At, Stored, ScoresInv, InGrading
  <2>2. /\ row'[r] = [status |-> "graded", score |-> outcome[w], keyed |-> FALSE]
        /\ \A k \in Jobs \ {r} : row'[k] = row[k]
    BY <1>0, <1>2 DEF StoreVerdict, SaveRow
  <2>3. [status |-> "graded", score |-> outcome[w], keyed |-> FALSE] # Absent
    BY <2>1, NewRow DEF Status
  <2>4. ShownStatus(r)' = Tables!Verdict(outcome[w])
    BY <2>2, <2>3 DEF ShownStatus, HasRow, Tables!Verdict
  <2>5. /\ Tables!Best(r) >= outcome[w] /\ UNCHANGED ShownBest
        /\ ShownTable' = [ShownTable EXCEPT ![r] = Tables!Verdict(outcome[w])]
    BY <1>0, <1>2, <2>1, <2>2, <2>4, ShownRow, ShownRowSet, ShownSame
  <2>6. Tables!Publish(r, outcome[w])
    BY <1>0, <2>5 DEF Tables!Publish
  <2> QED
    BY <1>0, <2>1, <2>6 DEF Tables!GradeRow, Tables!TablesNext
<1>3. ASSUME StoreError(w), UNCHANGED best PROVE Tables!TablesNext
  <2>1. /\ row'[r] = [status |-> "system_error", score |-> 0, keyed |-> FALSE]
        /\ \A k \in Jobs \ {r} : row'[k] = row[k]
    BY <1>0, <1>3 DEF StoreError, SaveRow
  <2>2. [status |-> "system_error", score |-> 0, keyed |-> FALSE] # Absent
    BY NewRow, GradingAssumption DEF Status
  <2>3. ShownStatus(r)' = "rejected"
    BY <2>1, <2>2 DEF ShownStatus, HasRow
  <2>4. UNCHANGED ShownBest /\ ShownTable' = [ShownTable EXCEPT ![r] = "rejected"]
    BY <1>0, <1>3, <2>1, <2>3, ShownRowSet, ShownSame
  <2> QED
    BY <1>0, <2>4 DEF Tables!GiveUp, Tables!GradeRow, Tables!TablesNext
<1>4. ASSUME UNCHANGED <<row, best>> PROVE UNCHANGED Tables!tables
  BY <1>4, ShownSame DEF Tables!tables
<1>5. CASE RunGrader(w) \/ RunFails(w) \/ SaveResults(w)
  BY <1>4, <1>5 DEF RunGrader, RunFails, SaveResults, store
<1>6. CASE RaiseBest(w)
  BY <1>1, <1>6 DEF RaiseBest
<1>7. CASE SaveVerdict(w)
  BY <1>2, <1>7 DEF SaveVerdict
<1>8. CASE SaveError(w) \/ MarkJobExhausted(w) \/ MarkLost(w)
  BY <1>3, <1>4, <1>8 DEF SaveError, MarkJobExhausted, MarkLost
<1>9. CASE StoreFails(w)
  BY <1>1, <1>2, <1>4, <1>9 DEF StoreFails
<1> QED
  BY <1>5, <1>6, <1>7, <1>8, <1>9 DEF GradeJob

(* Submit, GradeJob and MarkJobExhausted over the queue implement          *)
(* ScoreTables, for any number of calls, workers and faults, with gradings *)
(* that overlap or repeat: what Gateway assumes of the tables is so.       *)
THEOREM TablesAreKept == GradingSpec => TablesKept
<1>1. GradingInit => Tables!TablesInit
  <2> SUFFICES ASSUME GradingInit PROVE Tables!TablesInit
    OBVIOUS
  <2>1. ShownTable = [j \in Jobs |-> Absent]
    BY DEF GradingInit, ShownTable, ShownStatus, HasRow
  <2>2. ShownBest = [u \in Users |-> [p \in {TheProblem[j] : j \in Jobs} |-> Absent]]
    BY DEF GradingInit, ShownBest
  <2> QED
    BY <2>1, <2>2 DEF Tables!TablesInit, Tables!Problems
<1>2. Kept /\ [GradingNext]_allVars => [Tables!TablesNext]_(Tables!tables)
  <2> SUFFICES ASSUME Kept, [GradingNext]_allVars
               PROVE  Tables!TablesNext \/ UNCHANGED Tables!tables
    OBVIOUS
  <2>1. ASSUME UNCHANGED <<row, best>> PROVE UNCHANGED Tables!tables
    BY <2>1, ShownSame DEF Tables!tables
  <2>2. CASE QueueAlone \/ UNCHANGED allVars \/ \E P \in Processes : CrashAll(P)
    BY <2>1, <2>2, QueueEnqueues DEF CrashAll, allVars, store
  <2> QED
    BY <2>2, SubmitShown, WorkShown DEF GradingNext
<1> QED
  BY <1>1, <1>2, KeptInvariant, PTL DEF GradingSpec, TablesKept, Tables!TablesSpec

-----------------------------------------------------------------------------
(* The tables and the queue, for an installation in which handling fits in *)
(* ClaimIdle and no call is sent twice: then one worker at most writes the *)
(* rows of a submission.                                                   *)

Alone == RefinementInv /\ Stored

LEMMA SoleHolder ==
  ASSUME Alone, NEW w \in Workers, NEW v \in Workers,
         at[w] \in Handling, at[v] \in Handling, IsJob(msg[w]), IsJob(msg[v]),
         Job(w) = Job(v)
  PROVE  w = v
<1>1. /\ Core /\ CopyInv /\ Job(w) \in Jobs
      /\ msg[w] \in stream /\ msg[v] \in stream /\ Busy(w)
  BY HeldEntry, InHand DEF Alone, RefinementInv, Job, JobOf, IsJob, Load, Core, HandsInv, InHands
<1>2. msg[w] = msg[v]
  BY <1>1, SingleByJob DEF CopyInv, Holding, Job
<1> QED
  BY <1>1, <1>2 DEF Alone, RefinementInv, OwnershipInv, ExclusiveHandling

(* A job in hand is held.                                                  *)
LEMMA InHandHeld ==
  ASSUME Alone, NEW w \in Workers, at[w] \in Handling, IsJob(msg[w])
  PROVE  Job(w) \in HeldJobs /\ Job(w) \in enqueued
<1>1. msg[w] \in Ids /\ msg[w] \in stream /\ Job(w) \in Jobs
  BY HeldEntry DEF Alone, RefinementInv, Job, JobOf, IsJob, Load
<1> QED
  BY <1>1 DEF Alone, Stored, ScoresInv, Known, HeldJobs, InStream, Job

LEMMA GoneIsLetGo == ASSUME NEW j \in Jobs PROVE Gone(j) <=> j \notin HeldJobs
BY DEF Gone, HeldJobs

(* What a step of the queue does to the copies of an enqueued job: the last*)
(* one goes with an acknowledgement or a burial.                           *)
LetGo(w) == /\ Ack(w) \/ Bury(w)
            /\ IsJob(msg[w])
            /\ HeldJobs' = HeldJobs \ {Job(w)}

Holdings ==
  \/ HeldJobs' = HeldJobs /\ UNCHANGED <<dead, enqueued>>
  \/ \E k \in Jobs : /\ k \notin enqueued /\ enqueued' = enqueued \cup {k}
                     /\ HeldJobs' = HeldJobs \cup {k} /\ UNCHANGED dead
  \/ \E w \in Workers : /\ LetGo(w) /\ UNCHANGED enqueued
                        /\ dead' = IF Ack(w) THEN dead ELSE [dead EXCEPT ![Job(w)] = @ + 1]

LEMMA HoldingsStep ==
  ASSUME Alone, Timely, ~Resend, [Next]_vars
  PROVE  Holdings
<1> USE DEF Alone
<1>1. ASSUME UNCHANGED HeldJobs, UNCHANGED <<dead, enqueued>> PROVE Holdings
  BY <1>1 DEF Holdings
<1>2. ASSUME UNCHANGED Copies, UNCHANGED <<dead, enqueued>> PROVE Holdings
  BY <1>1, <1>2, SameHeld
<1>3. ASSUME NEW k \in Jobs, Enqueue(k) PROVE Holdings
  BY <1>3, EnqueueHeld DEF Enqueue, Holdings
<1>4. ASSUME ForeignAdd PROVE Holdings
  BY <1>1, <1>4, ForeignHeld DEF ForeignAdd, history
<1>5. ASSUME NEW w \in Workers, Promote(w) PROVE Holdings
  BY <1>1, <1>5, PromoteHeld DEF Promote, history
<1>6. ASSUME NEW w \in Workers, Reschedule(w) PROVE Holdings
  BY <1>1, <1>6, RescheduleHeld DEF Reschedule, history
<1>7. ASSUME NEW w \in Workers, Ack(w) PROVE Holdings
  <2>1. Removing(w) /\ UNCHANGED <<retry, dead, enqueued>>
    BY <1>7 DEF Ack, Removing, history
  <2>2. CASE log[msg[w]] \notin Load
    BY <1>1, <2>1, <2>2, PoisonHeld
  <2>3. CASE log[msg[w]] \in Load
    <3>1. LetGo(w)
      BY <1>7, <2>1, <2>3, RemoveHeld DEF LetGo, IsJob, Job
    <3> QED
      BY <1>7, <2>1, <3>1 DEF Holdings
  <2> QED
    BY <2>2, <2>3
<1>8. ASSUME NEW w \in Workers, Bury(w) PROVE Holdings
  <2>1. /\ Removing(w) /\ UNCHANGED <<retry, enqueued>> /\ at[w] = "bury"
        /\ dead' = [dead EXCEPT ![Job(w)] = @ + 1] /\ ~Ack(w)
    BY <1>8 DEF Bury, Ack, Removing, history, Job
  <2>2. LetGo(w)
    BY <1>8, <2>1, InHand, RemoveHeld DEF LetGo, IsJob, Job, Handling, Stored
  <2> QED
    BY <2>1, <2>2 DEF Holdings
<1>9. ASSUME NEW w \in Workers, Polls(w), ~Promote(w) PROVE Holdings
  BY <1>2, <1>9
  DEF Polls, EnsureGroup, RecoverOwn, Recovered, AutoClaim, NothingToClaim, ReadNew,
      NothingNew, Reconnect, redis, history, Copies
<1>10. ASSUME NEW w \in Workers, HandlerOk(w) \/ HandlerErr(w) \/ Exhausted(w) \/ CallFails(w)
       PROVE  Holdings
  BY <1>2, <1>10 DEF HandlerOk, HandlerErr, Exhausted, CallFails, redis, history, Copies
<1>11. ASSUME NEW P \in Processes, Crash(P) \/ Restart(P) PROVE Holdings
  BY <1>2, <1>11 DEF Crash, Restart, redis, history, Copies
<1>12. ASSUME Time \/ UNCHANGED vars PROVE Holdings
  BY <1>2, <1>12 DEF Time, IdleExpires, RetryDue, vars, redis, history, Copies
<1> QED
  BY <1>3, <1>4, <1>5, <1>6, <1>7, <1>8, <1>9, <1>10, <1>11, <1>12 DEF Next, Handles

(* What a step does to the hands of worker v.                              *)
HandsMove(v) ==
  \/ SameOrEmpty(v)
  \/ HandlerOk(v) \/ HandlerErr(v) \/ Exhausted(v)
  \/ /\ msg[v] = 0
     /\ at'[v] = IF IsJob(msg[v])' THEN "handle" ELSE "ack"

LEMMA HandsMoveStep ==
  ASSUME Core, Timely, [Next]_vars, NEW v \in Workers
  PROVE  HandsMove(v)
<1>0. TypeOK
  BY DEF Core
<1>1. ASSUME NEW w \in Workers, NEW i \in Ids, Deliver(w, i), UNCHANGED log, at[w] \in Polling
      PROVE  HandsMove(v)
  <2>1. CASE ReplyLost(w)
    BY <1>0, <2>1, LostHands DEF HandsMove
  <2>2. CASE ~ReplyLost(w) /\ v # w
    BY <1>0, <1>1, <2>2 DEF Deliver, TypeOK, SameOrEmpty, HandsMove
  <2>3. CASE ~ReplyLost(w) /\ v = w
    <3>1. /\ msg'[v] = i /\ at'[v] = (IF IsJob(i) THEN "handle" ELSE "ack")
          /\ IsJob(msg[v])' <=> IsJob(i)
      BY <1>0, <1>1, <2>3 DEF Deliver, TypeOK, IsJob
    <3>2. msg[v] = 0
      BY <1>1, <2>3 DEF Core, HandsInv, InHands, Busy, Handling, Polling
    <3> QED
      BY <3>1, <3>2 DEF HandsMove
  <2> QED
    BY <2>1, <2>2, <2>3
<1>2. ASSUME NEW w \in Workers, Polls(w) PROVE HandsMove(v)
  <2>1. CASE EnsureGroup(w) \/ Promote(w) \/ NothingToClaim(w) \/ NothingNew(w)
    BY <1>0, <2>1, ReturnHands
    DEF EnsureGroup, Promote, NothingToClaim, NothingNew, Polling, HandsMove
  <2>2. CASE RecoverOwn(w)
    <3>1. Least(Own(w)) \in Ids
      BY <2>2, LeastIn DEF RecoverOwn, Own
    <3> QED
      BY <1>1, <2>2, <3>1 DEF RecoverOwn, Polling
  <2>3. CASE AutoClaim(w)
    <3>1. Least(Scanned \cap idle) \in Ids
      BY <1>0, <2>3, LeastIn DEF AutoClaim, TypeOK, Pending
    <3> QED
      BY <1>1, <2>3, <3>1 DEF AutoClaim, Polling
  <2>4. CASE ReadNew(w)
    <3>1. delivered + 1 \in Ids
      BY <1>0, <2>4, QueueAssumption DEF ReadNew, TypeOK, Ids
    <3> QED
      BY <1>1, <2>4, <3>1 DEF ReadNew, Polling
  <2>5. CASE Recovered(w) \/ Reconnect(w)
    <3>1. CASE ReplyLost(w)
      BY <1>0, <3>1, LostHands DEF HandsMove
    <3>2. CASE ~ReplyLost(w)
      BY <1>0, <2>5, <3>2
      DEF Recovered, Reconnect, HandsMove, SameOrEmpty, Core, HandsInv, InHands, Busy, Handling,
          TypeOK
    <3> QED
      BY <3>1, <3>2
  <2> QED
    BY <1>2, <2>1, <2>2, <2>3, <2>4, <2>5 DEF Polls
<1>3. ASSUME NEW w \in Workers, HandlerOk(w) \/ HandlerErr(w) \/ Exhausted(w)
      PROVE  HandsMove(v)
  BY <1>0, <1>3 DEF HandlerOk, HandlerErr, Exhausted, TypeOK, HandsMove, SameOrEmpty
<1>4. ASSUME NEW w \in Workers, Ack(w) \/ Reschedule(w) \/ Bury(w) PROVE HandsMove(v)
  <2>1. loop[w] \in Polling
    BY <1>0 DEF TypeOK, Polling
  <2> QED
    BY <1>0, <1>4, <2>1, ReturnHands DEF Ack, Reschedule, Bury, HandsMove
<1>5. ASSUME NEW w \in Workers, CallFails(w) PROVE HandsMove(v)
  BY <1>0, <1>5 DEF CallFails, Disconnect, TypeOK, HandsMove, SameOrEmpty, Handling
<1>6. ASSUME NEW P \in Processes, Crash(P) PROVE HandsMove(v)
  BY <1>0, <1>6 DEF Crash, TypeOK, HandsMove, SameOrEmpty, Handling
<1>7. ASSUME NEW P \in Processes, Restart(P) PROVE HandsMove(v)
  <2>1. CASE v \in P
    <3>1. at[v] = "down" /\ at'[v] = "start" /\ msg'[v] = msg[v]
      BY <1>0, <1>7, <2>1 DEF Restart, TypeOK
    <3> QED
      BY <3>1 DEF Core, HandsInv, InHands, Busy, Handling, HandsMove, SameOrEmpty
  <2> QED
    BY <1>0, <1>7, <2>1 DEF Restart, TypeOK, HandsMove, SameOrEmpty
<1>8. CASE (\E j \in Jobs : Enqueue(j)) \/ ForeignAdd \/ Time \/ UNCHANGED vars
  BY <1>8 DEF Enqueue, ForeignAdd, Time, IdleExpires, RetryDue, vars, worker, HandsMove, SameOrEmpty
<1> QED
  BY <1>2, <1>3, <1>4, <1>5, <1>6, <1>7, <1>8 DEF Next, Handles

-----------------------------------------------------------------------------
(* Results: every batch of a job but one is paid for.  The one that is not *)
(* belongs to the worker that has stored it and has not acknowledged yet,  *)
(* or to a job that has left the queue.                                    *)

PastResults(w) == at[w] = "ack" \/ (at[w] = "handle" /\ stage[w] \in {"best", "save"})

Spent(j) ==
  \/ j \in enqueued /\ Gone(j)
  \/ \E w \in Workers : PastResults(w) /\ IsJob(msg[w]) /\ Job(w) = j

ResultsInv ==
  /\ \A j \in Jobs \ enqueued : batches[j] = 0
  /\ \A j \in Jobs : /\ batches[j] <= failures[j] + faults + 1
                     /\ ~Spent(j) => batches[j] <= failures[j] + faults

Storing(w) == At(w, "results") /\ (SaveResults(w) \/ StoreFails(w))

LEMMA BatchMoves ==
  ASSUME Alone, [GradingNext]_allVars, NEW j \in Jobs
  PROVE  \/ batches'[j] = batches[j] /\ saved'[j] = saved[j]
         \/ /\ batches'[j] = batches[j] + 1
            /\ \E w \in Workers : Storing(w) /\ Job(w) = j
<1>0. batches \in [Jobs -> Nat] /\ saved \in [Jobs -> SUBSET Scores]
  BY DEF Alone, Stored, GradingTypeOK
<1>1. ASSUME NEW w \in Workers, StoreResults(w), At(w, "results"), SaveResults(w) \/ StoreFails(w)
      PROVE  \/ batches'[j] = batches[j] /\ saved'[j] = saved[j]
             \/ batches'[j] = batches[j] + 1 /\ Storing(w) /\ Job(w) = j
  BY <1>0, <1>1 DEF StoreResults, Storing
<1>2. ASSUME NEW w \in Workers, GradeJob(w), ~UNCHANGED <<batches, saved>>
      PROVE  StoreResults(w) /\ At(w, "results") /\ (SaveResults(w) \/ StoreFails(w))
  BY <1>2
  DEF GradeJob, RunGrader, RunFails, SaveResults, RaiseBest, SaveVerdict, SaveError, StoreFails,
      MarkJobExhausted, store
<1>3. ASSUME NEW r \in Jobs, Submit(r) PROVE UNCHANGED <<batches, saved>>
  BY <1>3
  DEF Submit, Lookup, FindProgress, CreateProgress, CreateRow, CreateRowLost, Recheck,
      EnqueueJob, EnqueueFails, Undo, SubmitFails, store
<1> QED
  BY <1>1, <1>2, <1>3 DEF GradingNext, QueueAlone, CrashAll, MarkLost, store, allVars

(* Who is about to store the results of a job is the only one with it.     *)
LEMMA NotSpent ==
  ASSUME Alone, NEW w \in Workers, At(w, "results")
  PROVE  Job(w) \in enqueued /\ ~Spent(Job(w))
<1>1. at[w] \in Handling /\ IsJob(msg[w]) /\ Job(w) \in Jobs
  BY InHand DEF Alone, Stored, At, Handling, IsJob, Job
<1>2. Job(w) \in enqueued /\ ~Gone(Job(w))
  BY <1>1, InHandHeld, GoneIsLetGo
<1>3. ASSUME NEW v \in Workers, PastResults(v), IsJob(msg[v]), Job(v) = Job(w) PROVE FALSE
  <2>1. v = w
    BY <1>1, <1>3, SoleHolder DEF PastResults, Handling
  <2> QED
    BY <1>3, <2>1 DEF PastResults, At
<1> QED
  BY <1>2, <1>3 DEF Spent

(* GradeJob goes forward from the results until the handler returns.       *)
LEMMA StageMoves ==
  ASSUME Alone, [GradingNext]_allVars, NEW w \in Workers,
         at[w] = "handle", at'[w] = "handle", stage[w] \in {"best", "save"}
  PROVE  stage'[w] \in {"best", "save"}
<1>0. /\ stage \in [Workers -> {"run", "results", "best", "save", "error"}]
      /\ at \in [Workers -> Handling \cup Polling \cup {"down", "backoff"}]
  BY DEF Alone, Stored, GradingTypeOK, Core, TypeOK
<1>1. ASSUME NEW v \in Workers, GradeJob(v) \/ MarkLost(v) PROVE stage'[w] \in {"best", "save"}
  <2>1. CASE RunGrader(v) \/ RunFails(v) \/ SaveResults(v) \/ RaiseBest(v)
    BY <1>0, <2>1 DEF RunGrader, RunFails, SaveResults, RaiseBest, At
  <2>2. CASE SaveVerdict(v) \/ SaveError(v) \/ StoreFails(v)
    BY <1>0, <2>2 DEF SaveVerdict, SaveError, StoreFails, HandlerOk, HandlerErr, Leave
  <2>3. CASE MarkJobExhausted(v) \/ MarkLost(v)
    BY <2>3 DEF MarkJobExhausted, MarkLost, grader
  <2> QED
    BY <1>1, <2>1, <2>2, <2>3 DEF GradeJob
<1>2. ASSUME NEW r \in Jobs, Submit(r) PROVE UNCHANGED stage
  BY <1>2
  DEF Submit, Lookup, FindProgress, CreateProgress, CreateRow, CreateRowLost, Recheck,
      EnqueueJob, EnqueueFails, Undo, SubmitFails, grader
<1>3. ASSUME NEW P \in Processes, CrashAll(P) PROVE stage'[w] = stage[w]
  BY <1>3 DEF CrashAll, Crash
<1> QED
  BY <1>1, <1>2, <1>3 DEF GradingNext, QueueAlone, grader, allVars

(* The one batch more becomes a paid one when the entry stays but not the  *)
(* worker that has stored it.                                              *)
LEMMA SpentStays ==
  ASSUME Alone, Timely, ~Resend, [GradingNext]_allVars, NEW j \in Jobs, Spent(j)
  PROVE  \/ Spent(j)'
         \/ faults' = faults + 1
         \/ failures'[j] = failures[j] + 1
<1>0. /\ Core /\ TypeOK /\ [Next]_vars /\ Holdings /\ Grows /\ RefinementInv
      /\ enqueued \subseteq enqueued'
  BY QueueStepOrNot, HoldingsStep, Growth DEF Alone, RefinementInv, Core, Grows
<1>1. CASE j \in enqueued /\ Gone(j)
  <2>1. j \notin HeldJobs /\ j \in enqueued'
    BY <1>0, <1>1, GoneIsLetGo
  <2>2. j \notin HeldJobs'
    BY <1>0, <1>1, <2>1 DEF Holdings, LetGo
  <2> QED
    BY <2>1, <2>2 DEF Spent, Gone, HeldJobs
<1>2. ASSUME NEW w \in Workers, PastResults(w), IsJob(msg[w]), Job(w) = j
      PROVE  \/ Spent(j)'
             \/ faults' = faults + 1
             \/ failures'[j] = failures[j] + 1
  <2>1. /\ at[w] \in Handling /\ msg[w] \in Ids /\ msg[w] \in stream /\ msg[w] # 0
        /\ j \in enqueued
    BY <1>0, <1>2, HeldEntry, InHandHeld, QueueAssumption
    DEF PastResults, Handling, Alone, RefinementInv, Ids
  <2>2. log'[msg[w]] = log[msg[w]]
    BY <1>0, <2>1, EntryStays
  <2>3. ASSUME msg'[w] = msg[w], PastResults(w)' PROVE Spent(j)'
    BY <1>2, <2>2, <2>3 DEF Spent, Job, IsJob, JobOf
  <2>4. CASE at'[w] = at[w] /\ msg'[w] = msg[w]
    BY <1>2, <2>3, <2>4, StageMoves DEF PastResults
  <2>5. CASE at'[w] \notin Handling /\ msg'[w] = 0
    <3>1. ASSUME NEW v \in Workers, NEW i \in Ids, Delivering(v, i) PROVE FALSE
      BY <1>0, <2>1, <2>5, <3>1, DeliverMsg, QueueAssumption DEF Delivering, TypeOK, Ids
    <3>2. ASSUME NEW v \in Workers, Removing(v) PROVE Spent(j)'
      <4>1. v = w /\ at[w] = "ack" /\ log[msg[w]] \in Load
        BY <1>0, <1>2, <2>1, <2>5, <3>2, RemoveMsg DEF Removing, PastResults, IsJob
      <4>2. HeldJobs' = HeldJobs \ {j}
        BY <1>0, <1>2, <3>2, <4>1, RemoveHeld DEF Removing, Job
      <4> QED
        BY <1>0, <2>1, <4>2 DEF Spent, Gone, HeldJobs
    <3>3. CASE Resting
      BY <2>1, <2>5, <3>3 DEF Resting
    <3> QED
      BY <1>0, <3>1, <3>2, <3>3, StepKinds
  <2>6. CASE HandlerOk(w)
    BY <1>0, <2>3, <2>6 DEF HandlerOk, PastResults, TypeOK
  <2>7. CASE HandlerErr(w)
    BY <1>0, <1>2, <2>7 DEF HandlerErr, TypeOK, Job
  <2> QED
    BY <1>0, <1>2, <2>1, <2>4, <2>5, <2>6, <2>7, HandsMoveStep
    DEF HandsMove, SameOrEmpty, Exhausted, PastResults
<1> QED
  BY <1>1, <1>2 DEF Spent

LEMMA ResultsStep ==
  ASSUME Alone, Timely, ~Resend, ResultsInv, [GradingNext]_allVars
  PROVE  ResultsInv'
<1> SUFFICES ASSUME NEW j \in Jobs
             PROVE  /\ j \notin enqueued' => batches'[j] = 0
                    /\ batches'[j] <= failures'[j] + faults' + 1
                    /\ ~Spent(j)' => batches'[j] <= failures'[j] + faults'
  BY DEF ResultsInv
<1>0. /\ [Next]_vars /\ Grows /\ TypeOK /\ TypeOK'
      /\ enqueued \subseteq enqueued'
      /\ faults <= faults' /\ failures[j] <= failures'[j]
  BY QueueStepOrNot, Growth, CoreStep DEF Alone, Stored, Core, Grows
<1>1. /\ faults \in Nat /\ faults' \in Nat /\ failures[j] \in Nat /\ failures'[j] \in Nat
      /\ batches[j] \in Nat
  BY <1>0 DEF TypeOK, Alone, Stored, GradingTypeOK
<1>2. /\ j \notin enqueued => batches[j] = 0
      /\ batches[j] <= failures[j] + faults + 1
      /\ ~Spent(j) => batches[j] <= failures[j] + faults
  BY DEF ResultsInv
<1>3. CASE batches'[j] = batches[j]
  <2>1. CASE Spent(j)
    BY <1>0, <1>1, <1>2, <1>3, <2>1, SpentStays
  <2>2. CASE ~Spent(j)
    BY <1>0, <1>1, <1>2, <1>3, <2>2
  <2> QED
    BY <2>1, <2>2
<1>4. ASSUME NEW w \in Workers, Storing(w), Job(w) = j, batches'[j] = batches[j] + 1
      PROVE  /\ j \notin enqueued' => batches'[j] = 0
             /\ batches'[j] <= failures'[j] + faults' + 1
             /\ ~Spent(j)' => batches'[j] <= failures'[j] + faults'
  <2>1. j \in enqueued /\ batches[j] <= failures[j] + faults
    BY <1>2, <1>4, NotSpent DEF Storing
  <2>2. CASE SaveResults(w)
    <3>1. /\ at'[w] = "handle" /\ stage'[w] = "best" /\ UNCHANGED <<msg, log>>
          /\ IsJob(msg[w])
      BY <1>4, <2>2, InHand
      DEF Storing, SaveResults, At, vars, worker, redis, Alone, Stored, GradingTypeOK, Handling,
          IsJob
    <3>2. Spent(j)'
      BY <1>4, <3>1 DEF Spent, PastResults, Job, IsJob, JobOf
    <3> QED
      BY <1>0, <1>1, <1>4, <2>1, <3>2
  <2>3. CASE StoreFails(w)
    <3>1. failures'[j] = failures[j] + 1
      BY <1>0, <1>4, <2>3 DEF StoreFails, HandlerErr, TypeOK, Job
    <3> QED
      BY <1>0, <1>1, <1>4, <2>1, <3>1
  <2> QED
    BY <1>4, <2>2, <2>3 DEF Storing
<1> QED
  BY <1>3, <1>4, BatchMoves

LEMMA AloneInvariant == ASSUME Timely, ~Resend PROVE GradingSpec => []Alone
<1>1. RefinementInv /\ Stored => Alone
  BY DEF Alone
<1> QED
  BY <1>1, StoredInvariant, QueueIsRespected, RefinementInvariant, PTL

LEMMA ResultsInvariant == ASSUME Timely, ~Resend PROVE GradingSpec => []ResultsInv
<1>1. GradingInit => ResultsInv
  BY DEF GradingInit, Init, ResultsInv
<1>2. Alone /\ ResultsInv /\ [GradingNext]_allVars => ResultsInv'
  BY ResultsStep
<1> QED
  BY <1>1, <1>2, AloneInvariant, PTL DEF GradingSpec

(* Given enough time and no call sent twice, results of a submission are   *)
(* stored again only after a failed attempt or a fault, whatever workers   *)
(* crash between the three calls of GradeJob and the acknowledgement.      *)
THEOREM ResultsArePaidFor == ASSUME Timely, ~Resend PROVE GradingSpec => []ResultsPaidFor
<1>1. Alone /\ ResultsInv => ResultsPaidFor
  <2> SUFFICES ASSUME Alone, ResultsInv, NEW j \in Jobs
               PROVE  batches[j] <= 1 + failures[j] + faults
    BY DEF ResultsPaidFor
  <2>1. failures[j] \in Nat /\ faults \in Nat /\ batches[j] \in Nat
    BY DEF Alone, Stored, Core, TypeOK, GradingTypeOK
  <2> QED
    BY <2>1 DEF ResultsInv
<1> QED
  BY <1>1, AloneInvariant, ResultsInvariant, PTL

-----------------------------------------------------------------------------
(* Status: a row says how its job left the queue.  It says so already when *)
(* the worker is about to acknowledge or to bury the entry.                *)

Closing(w) ==
  at[w] \in {"ack", "bury"} /\ IsJob(msg[w]) /\ req[Job(w)] = "done"
    => row[Job(w)].status = IF at[w] = "bury" THEN "system_error" ELSE "graded"

Submitted == {"done", "undo", "failed"}

StatusInv ==
  /\ \A r \in enqueued : req[r] \in Submitted
  /\ \A w \in Workers : Closing(w)
  /\ StatusMatchesQueue

LEMMA RequestsFollow ==
  ASSUME Alone, ~Resend, [GradingNext]_allVars, NEW r \in Jobs
  PROVE  /\ r \in enqueued /\ req[r] \in Submitted
              => req'[r] \in Submitted /\ (req'[r] = "done" => req[r] = "done")
         /\ r \in enqueued' \ enqueued => req'[r] \in Submitted
<1>0. req \in [Jobs -> Steps \cup Ended]
  BY DEF Alone, Stored, GradingTypeOK
<1>1. ASSUME NEW q \in Jobs, Submit(q), req[r] \in Submitted
      PROVE  req'[r] \in Submitted /\ (req'[r] = "done" => req[r] = "done")
  <2>1. CASE q = r
    BY <1>0, <1>1, <2>1
    DEF Submit, Lookup, FindProgress, CreateProgress, CreateRow, CreateRowLost, Recheck,
        EnqueueJob, EnqueueFails, Undo, SubmitFails, Submitted, Goto
  <2>2. CASE q # r
    BY <1>0, <1>1, <2>2
    DEF Submit, Lookup, FindProgress, CreateProgress, CreateRow, CreateRowLost, Recheck,
        EnqueueJob, EnqueueFails, Undo, SubmitFails, AnswerPrior, Goto
  <2> QED
    BY <2>1, <2>2
<1>2. ASSUME NEW P \in Processes, CrashAll(P), req[r] \in Submitted
      PROVE  req'[r] \in Submitted /\ (req'[r] = "done" => req[r] = "done")
  BY <1>2 DEF CrashAll, Submitted
<1>3. ASSUME NEW w \in Workers, GradeJob(w) \/ MarkLost(w) PROVE UNCHANGED req
  BY <1>3
  DEF GradeJob, RunGrader, RunFails, SaveResults, RaiseBest, SaveVerdict, SaveError, StoreFails,
      MarkJobExhausted, MarkLost, intake
<1>4. ASSUME r \in enqueued' \ enqueued PROVE EnqueueJob(r)
  <2>1. ASSUME NEW q \in Jobs, Submit(q) PROVE EnqueueJob(r)
    BY <1>4, <2>1
    DEF Submit, Lookup, FindProgress, CreateProgress, CreateRow, CreateRowLost, Recheck,
        EnqueueJob, EnqueueFails, Undo, SubmitFails, Enqueue, vars, history
  <2>2. ASSUME NEW w \in Workers, GradeJob(w) \/ MarkLost(w) PROVE UNCHANGED enqueued
    BY <2>2
    DEF GradeJob, RunGrader, RunFails, SaveResults, RaiseBest, SaveVerdict, SaveError,
        StoreFails, MarkJobExhausted, MarkLost, HandlerOk, HandlerErr, Exhausted, CallFails,
        vars, history
  <2>3. CASE QueueAlone
    BY <1>4, <2>3
    DEF QueueAlone, QueueStep, Polls, EnsureGroup, RecoverOwn, Recovered, Promote, AutoClaim,
        NothingToClaim, ReadNew, NothingNew, Reconnect, Ack, Reschedule, Bury, CallFails,
        Enqueue, Restart, Time, IdleExpires, RetryDue, history
  <2> QED
    BY <1>4, <2>1, <2>2, <2>3 DEF GradingNext, CrashAll, Crash, allVars, vars, history
<1>5. r \in enqueued' \ enqueued => req'[r] \in Submitted
  BY <1>0, <1>4 DEF EnqueueJob, Goto, Submitted
<1> QED
  BY <1>1, <1>2, <1>3, <1>5 DEF GradingNext, QueueAlone, intake, allVars

(* Who writes the row of a submission whose call has ended.                *)
LEMMA RowKept ==
  ASSUME Alone, [GradingNext]_allVars, NEW j \in Jobs, req[j] \in Ended,
         \A w \in Workers : Calling(w) => Job(w) # j
  PROVE  row'[j] = row[j]
<1>0. row \in [Jobs -> Row \cup {Absent}]
  BY DEF Alone, Stored, GradingTypeOK
<1>1. ASSUME NEW r \in Jobs, Submit(r) PROVE row'[j] = row[j]
  BY <1>0, <1>1
  DEF Submit, Lookup, FindProgress, CreateProgress, CreateRow, CreateRowLost, Recheck,
      EnqueueJob, EnqueueFails, Undo, SubmitFails, SaveRow, Ended, store
<1>2. ASSUME NEW w \in Workers, GradeJob(w) \/ MarkLost(w) PROVE row'[j] = row[j]
  <2>1. Job(w) # j
    BY <1>2
    DEF GradeJob, RunGrader, RunFails, SaveResults, RaiseBest, SaveVerdict, SaveError,
        StoreFails, MarkJobExhausted, MarkLost, Exhausted, At, Calling
  <2> QED
    BY <1>0, <1>2, <2>1
    DEF GradeJob, RunGrader, RunFails, SaveResults, RaiseBest, SaveVerdict, SaveError,
        StoreFails, MarkJobExhausted, MarkLost, StoreVerdict, StoreError, SaveRow, store
<1> QED
  BY <1>1, <1>2 DEF GradingNext, QueueAlone, CrashAll, store, allVars

(* The queue alone starts no handler's next step.                          *)
LEMMA HandsLeft ==
  ASSUME QueueAlone, NEW v \in Workers,
         at \in [Workers -> Handling \cup Polling \cup {"down", "backoff"}]
  PROVE  /\ ~(at[v] = "handle" /\ at'[v] = "ack")
         /\ ~(at[v] = "exhausted" /\ at'[v] = "bury")
<1> USE DEF Polling, Handling
<1>1. ASSUME NEW w \in Workers, Polls(w) \/ Ack(w) \/ Reschedule(w) \/ Bury(w) \/ CallFails(w)
      PROVE  at'[v] = at[v] \/ (v = w /\ (at[w] \in Polling \cup {"ack", "retry", "bury", "backoff"}
                                           \/ at'[w] = "backoff"))
  BY <1>1
  DEF Polls, EnsureGroup, RecoverOwn, Recovered, Promote, AutoClaim, NothingToClaim, ReadNew,
      NothingNew, Reconnect, Ack, Reschedule, Bury, CallFails, Return, Deliver, ReplyLost,
      Disconnect, worker
<1>2. ASSUME NEW P \in Processes, Restart(P) PROVE at'[v] \in {at[v], "start"}
  BY <1>2 DEF Restart
<1>3. CASE Time \/ \E r \in Jobs : Enqueue(r)
  BY <1>3 DEF Time, IdleExpires, RetryDue, Enqueue, worker
<1> QED
  BY <1>1, <1>2, <1>3 DEF QueueAlone, QueueStep

(* A handler that returns nil has saved the verdict, and an exhausted      *)
(* callback that returns nil the system error.                             *)
LEMMA HandlersWrite ==
  ASSUME Alone, [GradingNext]_allVars, NEW w \in Workers, HandlerOk(w) \/ Exhausted(w)
  PROVE  row'[Job(w)].status = IF at'[w] = "bury" THEN "system_error" ELSE "graded"
<1>0. /\ at \in [Workers -> Handling \cup Polling \cup {"down", "backoff"}]
      /\ row \in [Jobs -> Row \cup {Absent}] /\ Job(w) \in Jobs
  BY InHand DEF Alone, Stored, Core, TypeOK, GradingTypeOK, HandlerOk, Exhausted, Handling, Job
<1>1. \/ at[w] = "handle" /\ at'[w] = "ack"
      \/ at[w] = "exhausted" /\ at'[w] = "bury"
  BY <1>0 DEF HandlerOk, Exhausted
<1>2. ASSUME NEW v \in Workers, GradeJob(v) \/ MarkLost(v)
      PROVE  SaveVerdict(w) \/ MarkJobExhausted(w)
  <2>1. v = w
    BY <1>0, <1>1, <1>2
    DEF GradeJob, RunGrader, RunFails, SaveResults, RaiseBest, SaveVerdict, SaveError,
        StoreFails, MarkJobExhausted, MarkLost, HandlerOk, HandlerErr, Exhausted, CallFails,
        Disconnect, vars, worker
  <2> QED
    BY <1>0, <1>1, <1>2, <2>1
    DEF GradeJob, RunGrader, RunFails, SaveResults, RaiseBest, SaveVerdict, SaveError,
        StoreFails, MarkJobExhausted, MarkLost, HandlerErr, CallFails, Disconnect, At, vars,
        worker
<1>3. CASE SaveVerdict(w)
  BY <1>0, <1>3 DEF SaveVerdict, StoreVerdict, SaveRow, HandlerOk
<1>4. CASE MarkJobExhausted(w)
  BY <1>0, <1>4 DEF MarkJobExhausted, StoreError, SaveRow, Exhausted
<1>5. ASSUME NEW r \in Jobs, Submit(r) PROVE FALSE
  BY <1>1, <1>5
  DEF Submit, Lookup, FindProgress, CreateProgress, CreateRow, CreateRowLost, Recheck,
      EnqueueJob, EnqueueFails, Undo, SubmitFails, Enqueue, vars, worker
<1>6. ASSUME NEW P \in Processes, CrashAll(P) PROVE FALSE
  BY <1>1, <1>6 DEF CrashAll, Crash
<1>7. CASE QueueAlone
  BY <1>0, <1>1, <1>7, HandsLeft
<1> QED
  BY <1>1, <1>2, <1>3, <1>4, <1>5, <1>6, <1>7 DEF GradingNext, allVars, vars, worker

LEMMA ClosingStep ==
  ASSUME Alone, Timely, ~Resend, StatusInv, [GradingNext]_allVars, NEW w \in Workers
  PROVE  Closing(w)'
<1> SUFFICES ASSUME at'[w] \in {"ack", "bury"}, IsJob(msg[w])', req'[Job(w)'] = "done"
             PROVE  row'[Job(w)'].status = IF at'[w] = "bury" THEN "system_error" ELSE "graded"
  BY DEF Closing
<1>0. Core /\ Grows /\ TypeOK /\ [Next]_vars
  BY QueueStepOrNot, Growth DEF Alone, RefinementInv, Core
<1>1. ASSUME at[w] \in Handling, msg'[w] = msg[w] PROVE Job(w)' = Job(w) /\ IsJob(msg[w])
  <2>1. msg[w] \in stream
    BY <1>1, HeldEntry DEF Alone, RefinementInv
  <2> QED
    BY <1>0, <1>1, <2>1, EntryStays DEF Job, IsJob, JobOf
<1>2. CASE at'[w] = at[w] /\ msg'[w] = msg[w]
  <2> DEFINE j == Job(w)
  <2>1. Job(w)' = j /\ IsJob(msg[w]) /\ at[w] \in Handling
    BY <1>1, <1>2 DEF Handling
  <2>2. j \in enqueued /\ j \in Jobs
    BY <1>0, <2>1, InHandHeld DEF TypeOK
  <2>3. req[j] = "done"
    BY <2>1, <2>2, RequestsFollow DEF StatusInv
  <2>4. row[j].status = IF at[w] = "bury" THEN "system_error" ELSE "graded"
    BY <1>2, <2>1, <2>3 DEF StatusInv, Closing
  <2>5. ASSUME NEW v \in Workers, Calling(v) PROVE Job(v) # j
    <3>1. at[v] \in Handling /\ IsJob(msg[v])
      BY <1>0, <2>5, InHand DEF Calling, Handling, IsJob
    <3> QED
      BY <1>2, <2>1, <2>5, <3>1, SoleHolder DEF Calling
  <2> HIDE DEF j
  <2>6. row'[j] = row[j]
    BY <2>2, <2>3, <2>5, RowKept DEF Ended
  <2> QED
    BY <1>2, <2>1, <2>4, <2>6
<1>3. CASE HandlerOk(w) \/ Exhausted(w)
  <2>1. Job(w)' = Job(w)
    BY <1>1, <1>3 DEF HandlerOk, Exhausted, Handling
  <2> QED
    BY <1>3, <2>1, HandlersWrite
<1>4. CASE HandlerErr(w)
  BY <1>0, <1>4 DEF HandlerErr, TypeOK
<1>5. CASE at'[w] = IF IsJob(msg[w])' THEN "handle" ELSE "ack"
  BY <1>5
<1> QED
  BY <1>0, <1>2, <1>3, <1>4, <1>5, HandsMoveStep DEF HandsMove, SameOrEmpty, Handling

LEMMA MatchStep ==
  ASSUME Alone, Timely, ~Resend, StatusInv, [GradingNext]_allVars, NEW j \in enqueued',
         j \notin HeldJobs', req'[j] = "done"
  PROVE  row'[j].status = IF dead'[j] > 0 THEN "system_error" ELSE "graded"
<1>0. /\ Core /\ TypeOK /\ TypeOK' /\ [Next]_vars /\ Holdings /\ j \in Jobs
      /\ dead[j] \in Nat
  BY QueueStepOrNot, HoldingsStep, CoreStep DEF Alone, Stored, Core, TypeOK
<1>1. j \in enqueued
  BY <1>0 DEF Holdings
<1>2. req[j] = "done"
  BY <1>0, <1>1, RequestsFollow DEF StatusInv
<1>3. ASSUME NEW v \in Workers, Calling(v) PROVE at[v] \in Handling /\ IsJob(msg[v])
  BY <1>0, <1>3, InHand DEF Calling, Handling, IsJob
<1>4. CASE j \notin HeldJobs
  <2>1. \A v \in Workers : Calling(v) => Job(v) # j
    BY <1>3, <1>4, InHandHeld
  <2>2. row'[j] = row[j]
    BY <1>0, <1>2, <2>1, RowKept DEF Ended
  <2>3. dead'[j] = dead[j]
    <3>1. ASSUME NEW w \in Workers, LetGo(w) PROVE Job(w) # j
      BY <1>4, <3>1, InHandHeld DEF LetGo, Ack, Bury, Handling
    <3> QED
      BY <1>0, <3>1 DEF Holdings, TypeOK
  <2> QED
    BY <1>0, <1>1, <1>2, <1>4, <2>2, <2>3, GoneIsLetGo DEF StatusInv, StatusMatchesQueue
<1>5. CASE j \in HeldJobs
  <2>1. PICK w \in Workers : /\ LetGo(w)
                             /\ dead' = IF Ack(w) THEN dead ELSE [dead EXCEPT ![Job(w)] = @ + 1]
    BY <1>0, <1>5 DEF Holdings
  <2>2. /\ j = Job(w) /\ IsJob(msg[w]) /\ at[w] \in {"ack", "bury"}
        /\ at[w] = "ack" <=> Ack(w)
    BY <1>5, <2>1 DEF LetGo, Ack, Bury
  <2>3. row[j].status = IF at[w] = "bury" THEN "system_error" ELSE "graded"
    BY <1>2, <2>2 DEF StatusInv, Closing
  <2>4. ASSUME NEW v \in Workers, Calling(v) PROVE Job(v) # j
    BY <1>3, <2>2, <2>4, SoleHolder DEF Calling, Handling
  <2>5. row'[j] = row[j]
    BY <1>0, <1>2, <2>4, RowKept DEF Ended
  <2>6. dead[j] = 0
    BY <1>0, <1>5 DEF Alone, RefinementInv, BuriedInv, Buried
  <2>7. dead'[j] > 0 <=> at[w] = "bury"
    BY <1>0, <2>1, <2>2, <2>6 DEF TypeOK
  <2> QED
    BY <2>3, <2>5, <2>7
<1> QED
  BY <1>4, <1>5

LEMMA StatusStep ==
  ASSUME Alone, Timely, ~Resend, StatusInv, [GradingNext]_allVars
  PROVE  StatusInv'
<1>1. enqueued' \subseteq Jobs
  BY QueueStepOrNot, CoreStep DEF Alone, Stored, Core, TypeOK
<1>2. ASSUME NEW r \in enqueued' PROVE req'[r] \in Submitted
  BY <1>1, <1>2, RequestsFollow DEF StatusInv
<1>3. \A w \in Workers : Closing(w)'
  BY ClosingStep
<1>4. StatusMatchesQueue'
  <2> SUFFICES ASSUME NEW j \in enqueued', Gone(j)', req'[j] = "done"
               PROVE  row'[j].status = IF dead'[j] > 0 THEN "system_error" ELSE "graded"
    BY DEF StatusMatchesQueue
  <2>1. j \notin HeldJobs'
    BY DEF Gone, HeldJobs
  <2> QED
    BY <2>1, MatchStep
<1> QED
  BY <1>2, <1>3, <1>4 DEF StatusInv

(* Given enough time and no call sent twice, a submission that has left    *)
(* the queue shows how it left: graded if it was acknowledged, a system    *)
(* error if it was dead-lettered, although the row, the acknowledgement    *)
(* and the burial are calls of their own, any of which may fail.           *)
THEOREM StatusIsTold == ASSUME Timely, ~Resend PROVE GradingSpec => []StatusMatchesQueue
<1>1. GradingInit => StatusInv
  BY DEF GradingInit, Init, StatusInv, Closing, StatusMatchesQueue
<1>2. Alone /\ StatusInv /\ [GradingNext]_allVars => StatusInv'
  BY StatusStep
<1>3. StatusInv => StatusMatchesQueue
  BY DEF StatusInv
<1> QED
  BY <1>1, <1>2, <1>3, AloneInvariant, PTL DEF GradingSpec

-----------------------------------------------------------------------------
(* What has left the queue stays as it is.                                 *)

LEMMA FinishedStep ==
  ASSUME Alone, Timely, ~Resend, [GradingNext]_allVars, NEW j \in enqueued,
         Gone(j), req[j] \in Ended
  PROVE  Gone(j)' /\ UNCHANGED <<row[j], saved[j], batches[j]>>
<1>0. TypeOK /\ [Next]_vars /\ Holdings /\ j \in Jobs /\ j \notin HeldJobs
  BY QueueStepOrNot, HoldingsStep, GoneIsLetGo DEF Alone, RefinementInv, Core, TypeOK
<1>1. Gone(j)'
  <2>1. j \notin HeldJobs'
    BY <1>0 DEF Holdings, LetGo
  <2> QED
    BY <1>0, <2>1 DEF Gone, HeldJobs
<1>2. ASSUME NEW w \in Workers, Calling(w) PROVE Job(w) # j
  <2>1. at[w] \in Handling /\ IsJob(msg[w])
    BY <1>2, InHand DEF Alone, Stored, Calling, Handling, IsJob
  <2> QED
    BY <1>0, <2>1, InHandHeld
<1>3. row'[j] = row[j]
  BY <1>0, <1>2, RowKept
<1>4. saved'[j] = saved[j] /\ batches'[j] = batches[j]
  BY <1>0, <1>2, BatchMoves DEF Storing, At, Calling
<1> QED
  BY <1>1, <1>3, <1>4

(* Given enough time and no call sent twice, leaving the queue is final:   *)
(* the verdict, the results and the absence of the job stay for ever,      *)
(* whatever retries, crashes and repeated calls of Submit follow.          *)
THEOREM FinishedIsFinal == ASSUME Timely, ~Resend PROVE GradingSpec => FinishedStays
<1>1. Alone /\ [GradingNext]_allVars =>
        [\A j \in enqueued : Gone(j) /\ req[j] \in Ended =>
           Gone(j)' /\ UNCHANGED <<row[j], saved[j], batches[j]>>]_allVars
  BY FinishedStep
<1> QED
  BY <1>1, AloneInvariant, PTL DEF GradingSpec, FinishedStays

(* Grading over the queue is a delivery of submissions as JobDelivery      *)
(* promises it: the requests and workers around the queue use it in no way *)
(* it does not allow.                                                      *)
THEOREM SubmissionsAreDelivered ==
  ASSUME Timely, ~Resend PROVE GradingSpec => Delivery!Safety
BY QueueIsRespected, DeliveryIsSafe, PTL
=============================================================================
