------------------------------ MODULE JobQueue ------------------------------
(***************************************************************************)
(* The grading queue of pkg/queue/queue.go: a Redis stream read by one     *)
(* consumer group, a sorted set of delayed retries and a dead-letter       *)
(* stream, driven by the worker goroutines that WorkNWithExhaustedHandler  *)
(* starts.  Each Redis command (or MULTI/EXEC pipeline, or Lua script) is  *)
(* one atomic step; between two commands of a worker anything may happen:  *)
(* steps of other workers, a lost reply, a failed call, a process crash.   *)
(*                                                                         *)
(* A stream entry is named by the position of its XADD, so that the order  *)
(* of ids is the order of the stream.                                      *)
(***************************************************************************)
EXTENDS Integers, FiniteSets, Functions

CONSTANTS Jobs,          \* the submissions that may be enqueued
          Workers,       \* worker goroutines, of all processes
          Processes,     \* the grader processes, each a set of workers
          MaxAttempts,   \* Config.MaxAttempts
          PromoteBatch,  \* LIMIT of the promotion script (100)
          ClaimScan,     \* pending entries XAUTOCLAIM COUNT 1 looks at (10)
          SlowJobs,      \* jobs whose handling may outlast Config.ClaimIdle
          Resend,        \* TRUE: the client sends a call again when no reply came
          Poison,        \* an entry that holds no decodable job
          None,          \* no XADD has used this position yet
          Nobody,        \* owner of an entry that is not pending
          Orphan,        \* owner of an entry whose consumer no longer exists
          MaxId,         \* bound: XADDs to the stream
          MaxPoison,     \* bound: entries another producer adds
          MaxFaults      \* bound: crashes, failed calls and lost replies

Ids == 1..MaxId

Load == [job : Jobs, attempt : 0..(MaxAttempts - 1)]

ASSUME QueueAssumption ==
  /\ MaxAttempts \in Nat \ {0}
  /\ PromoteBatch \in Nat \ {0}
  /\ ClaimScan \in Nat \ {0}
  /\ MaxId \in Nat
  /\ MaxPoison \in Nat
  /\ MaxFaults \in Nat
  /\ Resend \in BOOLEAN
  /\ SlowJobs \subseteq Jobs
  /\ UNION Processes = Workers
  /\ \A P, Q \in Processes : P # Q => P \cap Q = {}
  /\ Poison \notin Load /\ None \notin Load /\ Poison # None
  /\ Nobody \notin Workers /\ Orphan \notin Workers /\ Nobody # Orphan

VARIABLES
  log,        \* log[i]: what the i-th XADD wrote
  stream,     \* ids that XDEL has not removed
  lastId,     \* the newest id
  delivered,  \* the group's last-delivered id
  owner,      \* owner[i]: the consumer in whose PEL i is, or Nobody
  idle,       \* pending ids that have been idle for at least ClaimIdle
  retry,      \* members of the retry sorted set
  due,        \* those whose score is in the past
  dead,       \* dead[j]: entries XADDed to the dead-letter stream for j
  at,         \* at[w]: the call worker w makes next
  msg,        \* msg[w]: the entry w is handling, 0 when it handles none
  loop,       \* loop[w]: the call that follows when handleMessage returns nil
  faults,     \* faults that have happened
  enqueued,   \* jobs whose first XADD took effect
  runs,       \* runs[j]: times the handler was started on j
  failures,   \* failures[j]: times the handler returned an error on j
  succeeded,  \* jobs on which the handler returned nil at least once
  marked      \* jobs on which the exhausted callback returned nil

redis   == <<log, stream, lastId, delivered, owner, idle, retry, due, dead>>
worker  == <<at, msg, loop>>
history == <<enqueued, runs, failures, succeeded, marked>>
vars    == <<redis, worker, faults, history>>

(* Calls of the handler's side, then calls of the loops of work.           *)
Handling == {"handle", "exhausted", "retry", "bury", "ack"}
Polling  == {"start", "recover", "promote", "claim", "read"}

Pending == {i \in Ids : owner[i] # Nobody}
Own(w)  == {i \in Ids : owner[i] = w}
Busy(w) == msg[w] # 0
Holds(w, i) == msg[w] = i

Least(S) == CHOOSE i \in S : \A k \in S : i <= k

IsJob(i)  == log[i] \in Load
JobOf(i)  == log[i].job
(* Mutants: the payload is encoded before Attempt is incremented; the last *)
(* attempt is recognised one attempt late, or one early.                   *)
AgainUncounted(i) == log[i]
LastLate(i)       == log[i].attempt + 1 > MaxAttempts
LastEarly(i)      == log[i].attempt + 2 >= MaxAttempts

Again(i)  == [log[i] EXCEPT !.attempt = @ + 1]
Last(i)   == log[i].attempt + 1 >= MaxAttempts

TypeOK ==
  /\ log \in [Ids -> Load \cup {Poison, None}]
  /\ stream \subseteq Ids
  /\ lastId \in 0..MaxId
  /\ delivered \in 0..lastId
  /\ owner \in [Ids -> Workers \cup {Orphan, Nobody}]
  /\ idle \subseteq Pending
  /\ retry \subseteq Load
  /\ due \subseteq retry
  /\ dead \in [Jobs -> Nat]
  /\ at \in [Workers -> Handling \cup Polling \cup {"down", "backoff"}]
  /\ msg \in [Workers -> 0..MaxId]
  /\ loop \in [Workers -> {"recover", "promote"}]
  /\ faults \in 0..MaxFaults
  /\ enqueued \subseteq Jobs
  /\ runs \in [Jobs -> Nat]
  /\ failures \in [Jobs -> Nat]
  /\ succeeded \subseteq Jobs
  /\ marked \subseteq Jobs

Init ==
  /\ log = [i \in Ids |-> None]
  /\ stream = {} /\ lastId = 0 /\ delivered = 0
  /\ owner = [i \in Ids |-> Nobody]
  /\ idle = {} /\ retry = {} /\ due = {}
  /\ dead = [j \in Jobs |-> 0]
  /\ at = [w \in Workers |-> "start"]
  /\ msg = [w \in Workers |-> 0]
  /\ loop = [w \in Workers |-> "recover"]
  /\ faults = 0
  /\ enqueued = {} /\ succeeded = {} /\ marked = {}
  /\ runs = [j \in Jobs |-> 0]
  /\ failures = [j \in Jobs |-> 0]

-----------------------------------------------------------------------------
(* Outcomes of a call.                                                     *)

Fault == faults < MaxFaults /\ faults' = faults + 1

(* The error makes work return; workWithReconnect will back off and call   *)
(* it again, and the message in hand is forgotten, not acknowledged.       *)
Disconnect(w) ==
  /\ Fault
  /\ at' = [at EXCEPT ![w] = "backoff"]
  /\ msg' = [msg EXCEPT ![w] = 0]
  /\ loop' = [loop EXCEPT ![w] = "recover"]

(* The call took effect but its reply did not arrive: it is an error, or   *)
(* the client sends the same call again.                                   *)
ReplyLost(w) ==
  \/ Disconnect(w)
  \/ Resend /\ Fault /\ UNCHANGED worker

(* The call took effect; next is what the worker calls after the reply.    *)
Return(w, next) ==
  \/ /\ at' = [at EXCEPT ![w] = next]
     /\ msg' = [msg EXCEPT ![w] = 0]
     /\ UNCHANGED <<loop, faults>>
  \/ ReplyLost(w)

(* XREADGROUP or XAUTOCLAIM put entry i in the PEL of w with a fresh idle  *)
(* time; the reply starts handleMessage, which only acknowledges an entry  *)
(* it cannot decode.                                                       *)
Deliver(w, i) ==
  /\ owner' = [owner EXCEPT ![i] = w]
  /\ idle' = idle \ {i}
  /\ \/ /\ msg' = [msg EXCEPT ![w] = i]
        /\ at' = [at EXCEPT ![w] = IF IsJob(i) THEN "handle" ELSE "ack"]
        /\ runs' = IF IsJob(i) THEN [runs EXCEPT ![JobOf(i)] = @ + 1] ELSE runs
        /\ UNCHANGED <<loop, faults>>
     \/ ReplyLost(w) /\ UNCHANGED runs

(* Mutant: XACK without XDEL.                                              *)
RemoveAckOnly(i) ==
  /\ owner' = [owner EXCEPT ![i] = Nobody]
  /\ idle' = idle \ {i}
  /\ UNCHANGED stream

(* XACK and XDEL of one MULTI/EXEC.                                        *)
Remove(i) ==
  /\ owner' = [owner EXCEPT ![i] = Nobody]
  /\ idle' = idle \ {i}
  /\ stream' = stream \ {i}

XAdd(entry) ==
  /\ lastId < MaxId
  /\ lastId' = lastId + 1
  /\ log' = [log EXCEPT ![lastId + 1] = entry]
  /\ stream' = stream \cup {lastId + 1}

-----------------------------------------------------------------------------
(* Producers.                                                              *)

(* Enqueue: the XADD of a new job, or the client's second XADD of it.      *)
Enqueue(j) ==
  /\ \/ j \notin enqueued /\ UNCHANGED faults
     \/ j \in enqueued /\ Resend /\ Fault
  /\ XAdd([job |-> j, attempt |-> 0])
  /\ enqueued' = enqueued \cup {j}
  /\ UNCHANGED <<delivered, owner, idle, retry, due, dead, worker>>
  /\ UNCHANGED <<runs, failures, succeeded, marked>>

(* Another producer wrote an entry that holds no job.                      *)
ForeignAdd ==
  /\ Cardinality({i \in Ids : log[i] = Poison}) < MaxPoison
  /\ XAdd(Poison)
  /\ UNCHANGED <<delivered, owner, idle, retry, due, dead, worker, faults, history>>

-----------------------------------------------------------------------------
(* The loops of work.                                                      *)

(* XGROUP CREATE: BUSYGROUP counts as success.                             *)
EnsureGroup(w) ==
  /\ at[w] = "start"
  /\ Return(w, "recover")
  /\ UNCHANGED <<redis, history>>

(* XREADGROUP from id 0: the oldest entry of this consumer's own PEL.      *)
RecoverOwn(w) ==
  /\ at[w] = "recover"
  /\ Own(w) # {}
  /\ Deliver(w, Least(Own(w)))
  /\ UNCHANGED <<log, stream, lastId, delivered, retry, due, dead>>
  /\ UNCHANGED <<enqueued, failures, succeeded, marked>>

(* The own PEL is empty: break out of the first loop.                      *)
Recovered(w) ==
  /\ at[w] = "recover"
  /\ Own(w) = {}
  /\ \/ /\ at' = [at EXCEPT ![w] = "promote"]
        /\ loop' = [loop EXCEPT ![w] = "promote"]
        /\ UNCHANGED <<msg, faults>>
     \/ ReplyLost(w)
  /\ UNCHANGED <<redis, history>>

(* promoteRetriesScript: up to PromoteBatch due members move to the stream.*)
Promote(w) ==
  /\ at[w] = "promote"
  /\ \E S \in SUBSET due, n \in 0..PromoteBatch :
       /\ S = due \/ n = PromoteBatch
       /\ lastId + n <= MaxId
       /\ \E f \in Bijection((lastId + 1)..(lastId + n), S) :
            /\ log' = [i \in Ids |-> IF i \in DOMAIN f THEN f[i] ELSE log[i]]
            /\ stream' = stream \cup DOMAIN f
       /\ lastId' = lastId + n
       /\ retry' = retry \ S
       /\ due' = due \ S
  /\ Return(w, "claim")
  /\ UNCHANGED <<delivered, owner, idle, dead, history>>

(* Mutant: the scan starts after the last entry.                           *)
ScannedNothing == {}

(* Pending entries XAUTOCLAIM examines: always from the head of the PEL,   *)
(* for the cursor of its reply is discarded.                               *)
Scanned == {i \in Pending : Cardinality({k \in Pending : k < i}) < ClaimScan}

(* Mutant: MinIdle is 0, any pending entry of the scan is claimed.         *)
AutoClaimBusy(w) ==
  /\ at[w] = "claim"
  /\ Scanned # {}
  /\ Deliver(w, Least(Scanned))
  /\ UNCHANGED <<log, stream, lastId, delivered, retry, due, dead>>
  /\ UNCHANGED <<enqueued, failures, succeeded, marked>>

(* XAUTOCLAIM found an idle entry: it changes owner, whoever had it.       *)
AutoClaim(w) ==
  /\ at[w] = "claim"
  /\ Scanned \cap idle # {}
  /\ Deliver(w, Least(Scanned \cap idle))
  /\ UNCHANGED <<log, stream, lastId, delivered, retry, due, dead>>
  /\ UNCHANGED <<enqueued, failures, succeeded, marked>>

NothingToClaim(w) ==
  /\ at[w] = "claim"
  /\ Scanned \cap idle = {}
  /\ Return(w, "read")
  /\ UNCHANGED <<redis, history>>

(* XREADGROUP > returns the next undelivered entry.                        *)
ReadNew(w) ==
  /\ at[w] = "read"
  /\ delivered < lastId
  /\ delivered' = delivered + 1
  /\ Deliver(w, delivered + 1)
  /\ UNCHANGED <<log, stream, lastId, retry, due, dead>>
  /\ UNCHANGED <<enqueued, failures, succeeded, marked>>

(* The second passed without a new entry: the loop starts over.            *)
NothingNew(w) ==
  /\ at[w] = "read"
  /\ delivered = lastId
  /\ Return(w, "promote")
  /\ UNCHANGED <<redis, history>>

-----------------------------------------------------------------------------
(* handleMessage and retryOrDeadLetter.                                    *)

HandlerOk(w) ==
  /\ at[w] = "handle"
  /\ at' = [at EXCEPT ![w] = "ack"]
  /\ succeeded' = succeeded \cup {JobOf(msg[w])}
  /\ UNCHANGED <<redis, msg, loop, faults, enqueued, runs, failures, marked>>

(* Mutant: the exhausted callback is skipped.                              *)
HandlerErrUnmarked(w) ==
  /\ at[w] = "handle"
  /\ at' = [at EXCEPT ![w] = IF Last(msg[w]) THEN "bury" ELSE "retry"]
  /\ failures' = [failures EXCEPT ![JobOf(msg[w])] = @ + 1]
  /\ UNCHANGED <<redis, msg, loop, faults, enqueued, runs, succeeded, marked>>

HandlerErr(w) ==
  /\ at[w] = "handle"
  /\ at' = [at EXCEPT ![w] = IF Last(msg[w]) THEN "exhausted" ELSE "retry"]
  /\ failures' = [failures EXCEPT ![JobOf(msg[w])] = @ + 1]
  /\ UNCHANGED <<redis, msg, loop, faults, enqueued, runs, succeeded, marked>>

(* The exhausted callback returned nil.                                    *)
Exhausted(w) ==
  /\ at[w] = "exhausted"
  /\ at' = [at EXCEPT ![w] = "bury"]
  /\ marked' = marked \cup {JobOf(msg[w])}
  /\ UNCHANGED <<redis, msg, loop, faults, enqueued, runs, failures, succeeded>>

(* Mutant: an entry that cannot be decoded is skipped, not acknowledged.   *)
AckJobsOnly(w) ==
  /\ at[w] = "ack"
  /\ IF IsJob(msg[w]) THEN Remove(msg[w]) ELSE UNCHANGED <<owner, idle, stream>>
  /\ Return(w, loop[w])
  /\ UNCHANGED <<log, lastId, delivered, retry, due, dead, history>>

(* ack: XACK, XDEL.                                                        *)
Ack(w) ==
  /\ at[w] = "ack"
  /\ Remove(msg[w])
  /\ Return(w, loop[w])
  /\ UNCHANGED <<log, lastId, delivered, retry, due, dead, history>>

(* Mutant: ZADD alone; the entry stays pending and in the stream.          *)
RescheduleOnly(w) ==
  /\ at[w] = "retry"
  /\ retry' = retry \cup {Again(msg[w])}
  /\ due' = due \ {Again(msg[w])}
  /\ Return(w, loop[w])
  /\ UNCHANGED <<log, stream, owner, idle, lastId, delivered, dead, history>>

(* Mutant: the calls of the pipeline are not one transaction.              *)
RescheduleSplit(w) ==
  /\ at[w] = "retry"
  /\ \/ /\ msg[w] \in stream
        /\ Remove(msg[w])
        /\ UNCHANGED <<retry, due, worker, faults>>
     \/ /\ msg[w] \notin stream
        /\ retry' = retry \cup {Again(msg[w])}
        /\ Return(w, loop[w])
        /\ UNCHANGED <<due, stream, owner, idle>>
  /\ UNCHANGED <<log, lastId, delivered, dead, history>>

(* ZADD with a score in the future, XACK, XDEL.                            *)
Reschedule(w) ==
  /\ at[w] = "retry"
  /\ retry' = retry \cup {Again(msg[w])}
  /\ due' = due \ {Again(msg[w])}
  /\ Remove(msg[w])
  /\ Return(w, loop[w])
  /\ UNCHANGED <<log, lastId, delivered, dead, history>>

(* Mutant: XACK and XDEL without the XADD.                                 *)
BuryUnkept(w) ==
  /\ at[w] = "bury"
  /\ Remove(msg[w])
  /\ Return(w, loop[w])
  /\ UNCHANGED <<log, lastId, delivered, retry, due, dead, history>>

(* XADD to the dead-letter stream, XACK, XDEL.                             *)
Bury(w) ==
  /\ at[w] = "bury"
  /\ dead' = [dead EXCEPT ![JobOf(msg[w])] = @ + 1]
  /\ Remove(msg[w])
  /\ Return(w, loop[w])
  /\ UNCHANGED <<log, lastId, delivered, retry, due, history>>

-----------------------------------------------------------------------------
(* Failures and time.                                                      *)

(* A Redis call that did not take effect, or an exhausted callback that    *)
(* returned an error.                                                      *)
CallFails(w) ==
  /\ at[w] \notin {"handle", "backoff", "down"}
  /\ Disconnect(w)
  /\ UNCHANGED <<redis, history>>

(* workWithReconnect calls work again after the backoff.                   *)
Reconnect(w) ==
  /\ at[w] = "backoff"
  /\ at' = [at EXCEPT ![w] = "start"]
  /\ UNCHANGED <<redis, msg, loop, faults, history>>

(* A process dies with all its workers; the next one has fresh consumer    *)
(* names, so what they had pending belongs to nobody alive.                *)
Crash(P) ==
  /\ Fault
  /\ \A w \in P : at[w] # "down"
  /\ at' = [w \in Workers |-> IF w \in P THEN "down" ELSE at[w]]
  /\ msg' = [w \in Workers |-> IF w \in P THEN 0 ELSE msg[w]]
  /\ loop' = [w \in Workers |-> IF w \in P THEN "recover" ELSE loop[w]]
  /\ owner' = [i \in Ids |-> IF owner[i] \in P THEN Orphan ELSE owner[i]]
  /\ UNCHANGED <<log, stream, lastId, delivered, idle, retry, due, dead, history>>

Restart(P) ==
  /\ \A w \in P : at[w] = "down"
  /\ at' = [w \in Workers |-> IF w \in P THEN "start" ELSE at[w]]
  /\ UNCHANGED <<redis, msg, loop, faults, history>>

(* A pending entry has been idle for ClaimIdle; an entry in a worker's     *)
(* hands only if its job is a slow one.                                    *)
IdleExpires(i) ==
  /\ i \in Pending \ idle
  /\ \A w \in Workers : Holds(w, i) => IsJob(i) /\ JobOf(i) \in SlowJobs
  /\ idle' = idle \cup {i}
  /\ UNCHANGED <<log, stream, lastId, delivered, owner, retry, due, dead>>
  /\ UNCHANGED <<worker, faults, history>>

(* RetryDelay has passed for a member of the retry set.                    *)
RetryDue(p) ==
  /\ p \in retry \ due
  /\ due' = due \cup {p}
  /\ UNCHANGED <<log, stream, lastId, delivered, owner, idle, retry, dead>>
  /\ UNCHANGED <<worker, faults, history>>

-----------------------------------------------------------------------------
Polls(w) ==
  EnsureGroup(w) \/ RecoverOwn(w) \/ Recovered(w) \/ Promote(w) \/ AutoClaim(w)
    \/ NothingToClaim(w) \/ ReadNew(w) \/ NothingNew(w) \/ Reconnect(w)

Handles(w) ==
  HandlerOk(w) \/ HandlerErr(w) \/ Exhausted(w) \/ Ack(w) \/ Reschedule(w) \/ Bury(w)

Time == (\E i \in Ids : IdleExpires(i)) \/ (\E p \in Load : RetryDue(p))

Next ==
  \/ \E j \in Jobs : Enqueue(j)
  \/ ForeignAdd
  \/ \E w \in Workers : Polls(w) \/ Handles(w) \/ CallFails(w)
  \/ \E P \in Processes : Crash(P) \/ Restart(P)
  \/ Time

(* Workers that run take their next step, a dead process is restarted, and *)
(* time passes.  Nothing is assumed of producers, faults or crashes, nor   *)
(* of which way a handler returns.                                         *)
Fairness ==
  /\ \A w \in Workers : WF_vars(Polls(w) \/ Handles(w))
  /\ \A P \in Processes : WF_vars(Restart(P))
  /\ \A i \in Ids : WF_vars(IdleExpires(i))
  /\ \A p \in Load : WF_vars(RetryDue(p))

Spec     == Init /\ [][Next]_vars
FairSpec == Spec /\ Fairness

-----------------------------------------------------------------------------
(* Properties.  "Enough time" is SlowJobs = {}: ClaimIdle exceeds the      *)
(* longest handling, as the comment on it in New requires.                 *)

InStream(j) == \E i \in stream : IsJob(i) /\ JobOf(i) = j
InRetry(j)  == \E p \in retry : p.job = j

(* An accepted job is graded, dead-lettered, or still somewhere in Redis:  *)
(* no crash, lost reply or theft between XACK, XDEL, ZADD, ZREM and XADD   *)
(* makes it vanish.                                                        *)
NoJobLost ==
  \A j \in enqueued : j \in succeeded \/ dead[j] > 0 \/ InStream(j) \/ InRetry(j)

(* What has been delivered and not removed is in exactly the PELs, and     *)
(* what has not been delivered is in the stream: XREADGROUP, the recovery  *)
(* loop and XAUTOCLAIM between them reach every entry.                     *)
NothingStranded == stream = Pending \cup ((delivered + 1)..lastId)

(* Given enough time, two workers never handle the same entry at once,     *)
(* even after reconnects, crashes and calls that were sent twice.          *)
ExclusiveHandling ==
  \A w, v \in Workers : w # v /\ Busy(w) => msg[w] # msg[v]

(* Given enough time and no call sent twice, a job is in one place only:   *)
(* at most one entry or one retry holds it.                                *)
SingleCopy ==
  \A j \in Jobs :
    /\ \A i, k \in {n \in stream : IsJob(n) /\ JobOf(n) = j} : i = k
    /\ \A p, q \in {r \in retry : r.job = j} : p = q
    /\ ~(InStream(j) /\ InRetry(j))

(* A job is dead-lettered only after MaxAttempts handler errors, and after *)
(* its exhausted callback succeeded: attempts lost to crashes do not count *)
(* as failures, and the attempt counter never runs ahead.                  *)
NoEarlyBurial ==
  \A j \in Jobs : dead[j] > 0 => failures[j] >= MaxAttempts /\ j \in marked

(* Given enough time and no call sent twice, every start of the handler    *)
(* beyond the MaxAttempts of retryOrDeadLetter is paid for by a fault.     *)
BoundedRuns == \A j \in Jobs : runs[j] <= MaxAttempts + faults

(* Every accepted job ends graded or dead-lettered.                        *)
EveryJobSettles ==
  \A j \in Jobs : (j \in enqueued) ~> (j \in succeeded \/ dead[j] > 0)

(* "A poison message must not stay in the PEL forever."                    *)
PoisonLeaves ==
  \A i \in Ids : (log[i] = Poison) ~> [](i \notin stream /\ owner[i] = Nobody)

-----------------------------------------------------------------------------
(* Inductive invariants.                                                   *)

(* Which entries exist, and what a worker knows of the one in its hands.   *)
EntriesInv ==
  /\ \A i \in Ids : log[i] = None <=> i > lastId
  /\ \A i \in Pending : i <= delivered
  /\ NothingStranded

InHands(w) ==
  /\ Busy(w) <=> at[w] \in Handling
  /\ msg[w] <= delivered
  /\ at[w] \in Handling \ {"ack"} => IsJob(msg[w])
  /\ at[w] = "ack" => log[msg[w]] = Poison \/ JobOf(msg[w]) \in succeeded
  /\ at[w] = "retry" => ~Last(msg[w])
  /\ at[w] \in {"exhausted", "bury"} => Last(msg[w])
  /\ at[w] = "bury" => JobOf(msg[w]) \in marked

HandsInv == \A w \in Workers : InHands(w)

DeliveryInv == EntriesInv /\ HandsInv /\ NoJobLost

(* Every entry and every retry is of an enqueued job.                      *)
Known ==
  /\ \A i \in Ids : IsJob(i) => JobOf(i) \in enqueued
  /\ \A p \in retry : p.job \in enqueued

(* A job in a handler was started.                                         *)
Started == \A w \in Workers : at[w] \in {"handle", "exhausted"} => runs[JobOf(msg[w])] > 0

(* The attempt counter of every copy has as many failures behind it.       *)
AttemptInv ==
  /\ \A i \in Ids : IsJob(i) => log[i].attempt <= failures[JobOf(i)]
  /\ \A p \in retry : p.attempt <= failures[p.job]
  /\ \A w \in Workers : at[w] \in {"retry", "exhausted", "bury"}
                        => log[msg[w]].attempt < failures[JobOf(msg[w])]
  /\ NoEarlyBurial

(* Given enough time: an entry in a worker's hands is not idle and is that *)
(* worker's, or is already removed.                                        *)
OwnershipInv ==
  /\ \A w \in Workers : Busy(w) => msg[w] \notin idle /\ owner[msg[w]] \in {w, Nobody}
  /\ ExclusiveHandling

(* Given also no call sent twice: what is in hand is still in the stream.  *)
CopyInv ==
  /\ \A w \in Workers : Busy(w) => owner[msg[w]] = w
  /\ Known
  /\ SingleCopy

(* The runs of a job up to now, by where its only copy is.                 *)
RunsInv ==
  /\ \A i \in stream : IsJob(i) =>
       runs[JobOf(i)] <= log[i].attempt + faults
                           + (IF \E w \in Workers : Holds(w, i) THEN 1 ELSE 0)
  /\ \A p \in retry : runs[p.job] <= p.attempt + faults
  /\ \A j \in Jobs \ enqueued : runs[j] = 0
  /\ BoundedRuns

(* All of them, for an instance with enough time and no call sent twice.   *)
QueueInv == DeliveryInv /\ AttemptInv /\ OwnershipInv /\ CopyInv /\ RunsInv
=============================================================================
