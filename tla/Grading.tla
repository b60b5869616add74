------------------------------ MODULE Grading ------------------------------
(***************************************************************************)
(* app/usecase/grading/grading.go over the tables of app/models: Submit,   *)
(* called by HTTP requests, and GradeJob and MarkJobExhausted, called by   *)
(* the workers of JobQueue as its handler and its exhausted callback.      *)
(* Every call of the database or of Redis is a step of its own.            *)
(*                                                                         *)
(* A submission is named by the call of Submit that may create it, so Jobs *)
(* is both the set of calls and the set of submission ids.  All calls are  *)
(* for one problem, so a user has one progress row.                        *)
(***************************************************************************)
EXTENDS JobQueue

CONSTANTS Users,    \* authenticated users
          UserOf,   \* UserOf[r]: the caller of Submit
          KeyOf,    \* KeyOf[r]: its idempotency key, or NoKey
          NoKey,
          ServedBy, \* ServedBy[r]: the process that serves the call
          Scores,   \* scores a run of the grader can give
          Absent    \* no such row, no answer, no outcome yet

Status == {"queued", "graded", "system_error"}

ASSUME GradingAssumption ==
  /\ UserOf \in [Jobs -> Users]
  /\ Jobs \subseteq DOMAIN KeyOf
  /\ ServedBy \in [Jobs -> Processes]
  /\ Scores \subseteq Nat
  /\ 0 \in Scores
  /\ Absent \notin Scores /\ Absent \notin Jobs
  /\ Absent \notin {"queued", "accepted", "rejected"}
  /\ Absent \notin [status : Status, score : Scores, keyed : BOOLEAN]

VARIABLES
  row,      \* row[j]: the submission row
  saved,    \* saved[j]: scores of the result batches stored for j
  batches,  \* batches[j]: how many batches are stored
  best,     \* best[u]: best_score of the user's progress row
  req,      \* req[r]: the call of Submit r makes next, or how it ended
  answer,   \* answer[r]: the submission Submit returned
  stage,    \* stage[w]: the call of GradeJob worker w makes next
  outcome   \* outcome[w]: the score of the run GradeJob is storing

store   == <<row, saved, batches, best>>
intake  == <<req, answer>>
grader  == <<stage, outcome>>
allVars == <<vars, store, intake, grader>>

Row == [status : Status, score : Scores, keyed : BOOLEAN]

Steps == {"lookup", "progress", "create", "save", "recheck", "enqueue", "undo"}
Ended == {"done", "failed"}

Keyed(r) == KeyOf[r] # NoKey
HasRow(j) == row[j] # Absent

GradingTypeOK ==
  /\ row \in [Jobs -> Row \cup {Absent}]
  /\ saved \in [Jobs -> SUBSET Scores]
  /\ batches \in [Jobs -> Nat]
  /\ best \in [Users -> Scores \cup {Absent}]
  /\ req \in [Jobs -> Steps \cup Ended]
  /\ answer \in [Jobs -> Jobs \cup {Absent}]
  /\ stage \in [Workers -> {"run", "results", "best", "save", "error"}]
  /\ outcome \in [Workers -> Scores \cup {Absent}]

GradingInit ==
  /\ Init
  /\ row = [j \in Jobs |-> Absent]
  /\ saved = [j \in Jobs |-> {}]
  /\ batches = [j \in Jobs |-> 0]
  /\ best = [u \in Users |-> Absent]
  /\ req = [r \in Jobs |-> "lookup"]
  /\ answer = [r \in Jobs |-> Absent]
  /\ stage = [w \in Workers |-> "run"]
  /\ outcome = [w \in Workers |-> Absent]

-----------------------------------------------------------------------------
(* Submit.                                                                 *)

(* Rows with the key of r: the unique index lets there be at most one.     *)
Holders(r) == {j \in Jobs : HasRow(j) /\ row[j].keyed /\ KeyOf[j] = KeyOf[r]}

Goto(r, step) == req' = [req EXCEPT ![r] = step]

(* db.Save writes the whole row: a submission that comes out of the queue  *)
(* has no key (json:"-"), so saving it clears the column.                  *)
SaveRow(j, status, score, keyed) ==
  row' = [row EXCEPT ![j] = [status |-> status, score |-> score, keyed |-> keyed]]

(* Mutant: the user of the prior submission is not compared.               *)
AnswerPriorAny(r) ==
  \E j \in Holders(r) : Goto(r, "done") /\ answer' = [answer EXCEPT ![r] = j]

(* A prior submission with the key is returned to its user; to any other   *)
(* user the key is a conflict.                                             *)
AnswerPrior(r) ==
  \E j \in Holders(r) :
    IF UserOf[j] = UserOf[r]
      THEN Goto(r, "done") /\ answer' = [answer EXCEPT ![r] = j]
      ELSE Goto(r, "failed") /\ UNCHANGED answer

(* The call arrives, at a process that runs: GetSubmissionByIdempotencyKey.*)
Lookup(r) ==
  /\ req[r] = "lookup"
  /\ \A w \in ServedBy[r] : at[w] # "down"
  /\ IF Keyed(r) /\ Holders(r) # {}
       THEN AnswerPrior(r)
       ELSE Goto(r, "progress") /\ UNCHANGED answer
  /\ UNCHANGED <<vars, store, grader>>

(* GetProgressByProblemAndUser.                                            *)
FindProgress(r) ==
  /\ req[r] = "progress"
  /\ Goto(r, IF best[UserOf[r]] = Absent THEN "create" ELSE "save")
  /\ UNCHANGED <<vars, store, answer, grader>>

(* SaveProgress of a new row; the unique index on problem and user rejects *)
(* it when a concurrent call was first, and that error is returned.  An    *)
(* error may be reported of a row that was stored, too.                    *)
CreateProgress(r) ==
  /\ req[r] = "create"
  /\ IF best[UserOf[r]] = Absent
       THEN best' = [best EXCEPT ![UserOf[r]] = 0] /\ (Goto(r, "save") \/ Goto(r, "failed"))
       ELSE UNCHANGED best /\ Goto(r, "failed")
  /\ UNCHANGED <<vars, row, saved, batches, answer, grader>>

(* Mutant: the key has no unique index.                                    *)
CreateRowUnindexed(r) ==
  /\ req[r] = "save"
  /\ Goto(r, "enqueue")
  /\ SaveRow(r, "queued", 0, Keyed(r))
  /\ UNCHANGED <<vars, saved, batches, best, answer, grader>>

(* SaveSubmission of the new row.                                          *)
CreateRow(r) ==
  /\ req[r] = "save"
  /\ IF Keyed(r) /\ Holders(r) # {}
       THEN Goto(r, "recheck") /\ UNCHANGED row
       ELSE Goto(r, "enqueue") /\ SaveRow(r, "queued", 0, Keyed(r))
  /\ UNCHANGED <<vars, saved, batches, best, answer, grader>>

(* SaveSubmission took effect, but Submit sees an error.                   *)
CreateRowLost(r) ==
  /\ req[r] = "save"
  /\ ~(Keyed(r) /\ Holders(r) # {})
  /\ Goto(r, IF Keyed(r) THEN "recheck" ELSE "failed")
  /\ SaveRow(r, "queued", 0, Keyed(r))
  /\ UNCHANGED <<vars, saved, batches, best, answer, grader>>

(* The lookup after a failed insertion.                                    *)
Recheck(r) ==
  /\ req[r] = "recheck"
  /\ IF Holders(r) # {} THEN AnswerPrior(r) ELSE Goto(r, "failed") /\ UNCHANGED answer
  /\ UNCHANGED <<vars, store, grader>>

(* Enqueue succeeds, or its XADD took effect and its reply was lost.       *)
EnqueueJob(r) ==
  /\ req[r] = "enqueue"
  /\ r \notin enqueued
  /\ Enqueue(r)
  /\ \/ Goto(r, "done") /\ answer' = [answer EXCEPT ![r] = r]
     \/ Goto(r, "undo") /\ UNCHANGED answer
  /\ UNCHANGED <<store, grader>>

(* Mutant: the error of Enqueue is dropped.                                *)
EnqueueFailsQuietly(r) ==
  /\ req[r] = "enqueue"
  /\ Goto(r, "done")
  /\ answer' = [answer EXCEPT ![r] = r]
  /\ UNCHANGED <<vars, store, grader>>

EnqueueFails(r) ==
  /\ req[r] = "enqueue"
  /\ Goto(r, "undo")
  /\ UNCHANGED <<vars, store, answer, grader>>

(* After a failed Enqueue the submission in hand, key included, is saved   *)
(* as a system error and the error returned; another row may hold the key  *)
(* by now, or the database may fail.                                       *)
Undo(r) ==
  /\ req[r] = "undo"
  /\ Goto(r, "failed")
  /\ \/ /\ Keyed(r) => Holders(r) \subseteq {r}
        /\ SaveRow(r, "system_error", 0, Keyed(r))
     \/ UNCHANGED row
  /\ UNCHANGED <<vars, saved, batches, best, answer, grader>>

(* A database error, a missing problem, too many testcases, an unknown     *)
(* user: Submit returns the error and has changed nothing more.            *)
SubmitFails(r) ==
  /\ req[r] \in {"lookup", "progress", "create", "save", "recheck"}
  /\ Goto(r, IF req[r] = "save" /\ Keyed(r) THEN "recheck" ELSE "failed")
  /\ UNCHANGED <<vars, store, answer, grader>>

Submit(r) ==
  Lookup(r) \/ FindProgress(r) \/ CreateProgress(r) \/ CreateRow(r) \/ CreateRowLost(r)
    \/ Recheck(r) \/ EnqueueJob(r) \/ EnqueueFails(r) \/ Undo(r) \/ SubmitFails(r)

-----------------------------------------------------------------------------
(* GradeJob and MarkJobExhausted.                                          *)

Job(w) == JobOf(msg[w])

At(w, s) == at[w] = "handle" /\ stage[w] = s

(* The grader ran every testcase, and gave a score.                        *)
RunGrader(w) ==
  /\ At(w, "run")
  /\ \E s \in Scores : outcome' = [outcome EXCEPT ![w] = s]
  /\ stage' = [stage EXCEPT ![w] = "results"]
  /\ UNCHANGED <<vars, store, intake>>

(* Mutant: the error of Run is not looked at.                              *)
RunFailsUnseen(w) ==
  /\ At(w, "run")
  /\ stage' = [stage EXCEPT ![w] = "save"]
  /\ UNCHANGED <<vars, store, intake, outcome>>

(* The grader failed on every testcase.                                    *)
RunFails(w) ==
  /\ At(w, "run")
  /\ stage' = [stage EXCEPT ![w] = "error"]
  /\ UNCHANGED <<vars, store, intake, outcome>>

StoreResults(w) ==
  /\ saved' = [saved EXCEPT ![Job(w)] = @ \cup {outcome[w]}]
  /\ batches' = [batches EXCEPT ![Job(w)] = @ + 1]

(* Mutant: its error is not looked at.                                     *)
SaveResultsUnseen(w) ==
  /\ At(w, "results")
  /\ StoreResults(w) \/ UNCHANGED <<saved, batches>>
  /\ stage' = [stage EXCEPT ![w] = "best"]
  /\ UNCHANGED <<vars, row, best, intake, outcome>>

(* BatchSaveTestCaseResults: new rows on every run.                        *)
SaveResults(w) ==
  /\ At(w, "results")
  /\ StoreResults(w)
  /\ stage' = [stage EXCEPT ![w] = "best"]
  /\ UNCHANGED <<vars, row, best, intake, outcome>>

(* Mutant: the condition of the UPDATE is dropped.                         *)
StoreBestAlways(w) == best' = [best EXCEPT ![UserOf[Job(w)]] = outcome[w]]

(* UPDATE ... SET best_score WHERE best_score < score.                     *)
StoreBest(w) ==
  best' = [best EXCEPT ![UserOf[Job(w)]] = IF @ < outcome[w] THEN outcome[w] ELSE @]

RaiseBest(w) ==
  /\ At(w, "best")
  /\ StoreBest(w)
  /\ stage' = [stage EXCEPT ![w] = "save"]
  /\ UNCHANGED <<vars, row, saved, batches, intake, outcome>>

Leave(w) ==
  /\ stage' = [stage EXCEPT ![w] = "run"]
  /\ outcome' = [outcome EXCEPT ![w] = Absent]

StoreVerdict(w) == SaveRow(Job(w), "graded", outcome[w], FALSE)
(* Mutant: the snapshot is saved as it came from the queue.                *)
StoreErrorUnset(w) == SaveRow(Job(w), "queued", 0, FALSE)
StoreError(w)   == SaveRow(Job(w), "system_error", 0, FALSE)

(* The last SaveSubmission of GradeJob: the handler returns nil.           *)
SaveVerdict(w) ==
  /\ At(w, "save")
  /\ StoreVerdict(w)
  /\ HandlerOk(w)
  /\ Leave(w)
  /\ UNCHANGED <<saved, batches, best, intake>>

(* The run failed: SaveSubmission of the system error, succeed or not, and *)
(* the handler returns the error.                                          *)
SaveError(w) ==
  /\ At(w, "error")
  /\ StoreError(w) \/ UNCHANGED row
  /\ HandlerErr(w)
  /\ Leave(w)
  /\ UNCHANGED <<saved, batches, best, intake>>

(* A database call of GradeJob returns an error, its effect made or not.   *)
StoreFails(w) ==
  /\ \/ /\ At(w, "results")
        /\ StoreResults(w) \/ UNCHANGED <<saved, batches>>
        /\ UNCHANGED <<best, row>>
     \/ /\ At(w, "best")
        /\ StoreBest(w) \/ UNCHANGED best
        /\ UNCHANGED <<saved, batches, row>>
     \/ /\ At(w, "save")
        /\ StoreVerdict(w) \/ UNCHANGED row
        /\ UNCHANGED <<saved, batches, best>>
  /\ HandlerErr(w)
  /\ Leave(w)
  /\ UNCHANGED intake

(* MarkJobExhausted.                                                       *)
MarkJobExhausted(w) ==
  /\ Exhausted(w)
  /\ StoreError(w)
  /\ UNCHANGED <<saved, batches, best, intake, grader>>

(* Its SaveSubmission took effect, but returns an error.                   *)
MarkLost(w) ==
  /\ at[w] = "exhausted"
  /\ CallFails(w)
  /\ StoreError(w)
  /\ UNCHANGED <<saved, batches, best, intake, grader>>

GradeJob(w) ==
  RunGrader(w) \/ RunFails(w) \/ SaveResults(w) \/ RaiseBest(w) \/ SaveVerdict(w)
    \/ SaveError(w) \/ StoreFails(w) \/ MarkJobExhausted(w)

-----------------------------------------------------------------------------
(* The queue around them.                                                  *)

(* Steps of the queue that run no code of this module.                     *)
QueueStep(w) == Polls(w) \/ Ack(w) \/ Reschedule(w) \/ Bury(w)

QueueAlone ==
  /\ \/ \E w \in Workers : QueueStep(w) \/ CallFails(w)
     \/ \E r \in Jobs : r \in enqueued /\ Enqueue(r)
     \/ \E P \in Processes : Restart(P)
     \/ Time
  /\ UNCHANGED <<store, intake, grader>>

(* The process serves requests as well: those it has under way are lost,   *)
(* while the ones of the other processes go on.                            *)
Underway(P) == {r \in Jobs : ServedBy[r] = P /\ req[r] \notin Ended \cup {"lookup"}}

CrashAll(P) ==
  /\ Crash(P)
  /\ req' = [r \in Jobs |-> IF r \in Underway(P) THEN "failed" ELSE req[r]]
  /\ stage' = [w \in Workers |-> IF w \in P THEN "run" ELSE stage[w]]
  /\ outcome' = [w \in Workers |-> IF w \in P THEN Absent ELSE outcome[w]]
  /\ UNCHANGED <<store, answer>>

GradingNext ==
  \/ \E r \in Jobs : Submit(r)
  \/ \E w \in Workers : GradeJob(w) \/ MarkLost(w)
  \/ \E P \in Processes : CrashAll(P)
  \/ QueueAlone

GradingSpec == GradingInit /\ [][GradingNext]_allVars

WorkerStep(w) ==
  GradeJob(w) \/ (QueueStep(w) /\ UNCHANGED <<store, intake, grader>>)

(* As in JobQueue: workers run, the process comes back, time passes.  The  *)
(* runner bounds every run of the grader by timeouts.                      *)
GradingFairness ==
  /\ \A w \in Workers : WF_allVars(WorkerStep(w))
  /\ \A P \in Processes : WF_allVars(Restart(P) /\ UNCHANGED <<store, intake, grader>>)
  /\ \A i \in Ids : WF_allVars(IdleExpires(i) /\ UNCHANGED <<store, intake, grader>>)
  /\ \A p \in Load : WF_allVars(RetryDue(p) /\ UNCHANGED <<store, intake, grader>>)

FairGradingSpec == GradingSpec /\ GradingFairness

-----------------------------------------------------------------------------
(* Properties.                                                             *)

(* A submission is shown as graded only with its results stored and with   *)
(* the best score of its user at least its own.                            *)
VerdictBacked ==
  \A j \in Jobs : HasRow(j) /\ row[j].status = "graded" =>
    /\ row[j].score \in saved[j]
    /\ best[UserOf[j]] # Absent /\ best[UserOf[j]] >= row[j].score

(* A best score was earned: it is the score of stored results of a         *)
(* submission of that user.                                                *)
BestEarned ==
  \A u \in Users : best[u] \notin {Absent, 0} =>
    \E j \in Jobs : UserOf[j] = u /\ best[u] \in saved[j]

(* A best score never drops, whichever of several gradings ends last.      *)
BestNeverDrops ==
  [][\A u \in Users : best[u] # Absent => best'[u] # Absent /\ best'[u] >= best[u]]_allVars

(* Given enough time and no call sent twice, a second batch of results of  *)
(* a submission is paid for by a failed attempt or a fault.                *)
ResultsPaidFor == \A j \in Jobs : batches[j] <= 1 + failures[j] + faults

(* No copy of the job is left in Redis.                                    *)
Gone(j) == ~InStream(j) /\ ~InRetry(j)

(* Given enough time and no call sent twice, a job that left the queue has *)
(* the status of how it left, unless its Submit failed on Enqueue.         *)
StatusMatchesQueue ==
  \A j \in enqueued : Gone(j) /\ req[j] = "done" =>
    row[j].status = IF dead[j] > 0 THEN "system_error" ELSE "graded"

(* Given enough time and no call sent twice, a submission that left the    *)
(* queue is final: no copy of its job comes back, and nobody writes its    *)
(* row or stores results of it again.                                      *)
FinishedStays ==
  [][\A j \in enqueued : Gone(j) /\ req[j] \in Ended =>
       Gone(j)' /\ UNCHANGED <<row[j], saved[j], batches[j]>>]_allVars

(* Submit returns a submission of the caller, and one made by this call or *)
(* under the same key.                                                     *)
AnswerIsCallers ==
  \A r \in Jobs : answer[r] # Absent =>
    /\ HasRow(answer[r])
    /\ UserOf[answer[r]] = UserOf[r]
    /\ answer[r] = r \/ (Keyed(r) /\ KeyOf[answer[r]] = KeyOf[r])

(* While no worker has started on them, calls with one key make one row:   *)
(* retries and concurrent calls included.                                  *)
OneRowUntilGrading ==
  \A r, q \in Jobs : r # q /\ Keyed(r) /\ KeyOf[r] = KeyOf[q] /\ HasRow(r) /\ HasRow(q)
    => runs[r] + runs[q] > 0

Settled(j) == HasRow(j) /\ row[j].status # "queued"

(* A submission that its own call returned is graded or a system error in  *)
(* the end; with a key, if the call put its job into the stream.  (When    *)
(* SaveSubmission reports an error of a row that it stored, the lookup     *)
(* that follows returns that row as if another call had made it, and       *)
(* nobody enqueues it: see RetryRecovers.)                                 *)
AcceptedSettles ==
  \A r \in Jobs : (answer[r] = r /\ (Keyed(r) => r \in enqueued)) ~> Settled(r)

(* "Return a prior quiz submission before doing any further work": calls   *)
(* with one key return one submission.                                     *)
Idempotent ==
  \A r, q \in Jobs : /\ Keyed(r) /\ KeyOf[r] = KeyOf[q]
                     /\ answer[r] # Absent /\ answer[q] # Absent
                     => answer[r] = answer[q]

(* "This is the critical recovery path": a retry with a key gets a         *)
(* submission that is graded or a system error in the end.                 *)
RetryRecovers ==
  \A r, j \in Jobs : (answer[r] = j) ~> Settled(j)

-----------------------------------------------------------------------------
(* What the tables promise to those who read them.                         *)

ShownStatus(j) ==
  CASE ~HasRow(j) -> Absent
    [] HasRow(j) /\ row[j].status = "queued" -> "queued"
    [] HasRow(j) /\ row[j].status = "graded" /\ row[j].score = 100 -> "accepted"
    [] OTHER -> "rejected"

TheProblem == [j \in Jobs |-> "problem"]

ShownBest  == [u \in Users |-> [p \in {TheProblem[j] : j \in Jobs} |-> best[u]]]
ShownTable == [j \in Jobs |-> ShownStatus(j)]

Tables == INSTANCE ScoreTables
  WITH Accts <- Users, Requests <- Jobs, ByUser <- UserOf, ForProblem <- TheProblem,
       NoRow <- Absent, best <- ShownBest, status <- ShownTable

(* Whatever fails and whoever grades a submission at the same time or      *)
(* again: a progress row comes before the submissions that refer to it, a  *)
(* best score only grows, and a score is published only when the best      *)
(* score has reached it.  This is all the leaderboards rest on.            *)
TablesKept == Tables!TablesSpec

-----------------------------------------------------------------------------
(* Inductive invariants.                                                   *)

(* Who enqueues, or is about to, has a progress row.                       *)
ProgressInv ==
  /\ \A j \in enqueued : best[UserOf[j]] # Absent
  /\ \A r \in Jobs : req[r] \in {"save", "recheck", "enqueue", "undo"} => best[UserOf[r]] # Absent

(* What GradeJob goes on with is stored already.                           *)
InGrading(w) ==
  /\ at[w] # "handle" => stage[w] = "run"
  /\ stage[w] \in {"results", "best", "save"} => outcome[w] # Absent
  /\ stage[w] \in {"best", "save"} => outcome[w] \in saved[Job(w)]
  /\ stage[w] = "save" => best[UserOf[Job(w)]] >= outcome[w]

ScoresInv ==
  /\ Known
  /\ ProgressInv
  /\ \A w \in Workers : InGrading(w)
  /\ VerdictBacked
  /\ BestEarned

(* A row has its key until a worker has started on it, and no two rows     *)
(* have the same key.                                                      *)
KeysInv ==
  /\ \A j \in Jobs : HasRow(j) /\ row[j].keyed => Keyed(j)
  /\ \A j \in Jobs : HasRow(j) /\ runs[j] = 0 => row[j].keyed = Keyed(j)
  /\ \A r \in Jobs : \A j, k \in Holders(r) : j = k
  /\ \A r \in Jobs : req[r] \in {"enqueue", "undo"} => HasRow(r)
  /\ \A r \in Jobs : req[r] = "recheck" => Keyed(r)
  /\ Started
  /\ AnswerIsCallers
  /\ OneRowUntilGrading

(* A call makes its row once, before it enqueues the job.                  *)
RowsInv ==
  \A r \in Jobs :
    /\ req[r] \in {"lookup", "progress", "create", "save"} => ~HasRow(r) /\ r \notin enqueued
    /\ r \in enqueued => HasRow(r)
=============================================================================
