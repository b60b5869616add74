------------------------ MODULE JobQueueCopyProofs ------------------------
(***************************************************************************)
(* Proofs about the copies of a job, for an installation in which handling *)
(* fits in ClaimIdle (Timely) and, from SingleCopy on, no call is sent     *)
(* twice (~Resend): who holds an entry, how many copies of a job there     *)
(* are, and how often its handler runs.                                    *)
(***************************************************************************)
EXTENDS JobQueueProofs

Timely == SlowJobs = {}

-----------------------------------------------------------------------------
(* The kinds of steps, as far as entries in hands are concerned.           *)

(* Entry i is delivered to w, which had none.                              *)
Delivering(w, i) ==
  /\ at[w] \in Polling /\ msg[w] = 0
  /\ i \in stream
  /\ owner[i] = w \/ i \in idle \/ i = delivered + 1
  /\ Deliver(w, i)
  /\ UNCHANGED <<log, stream, lastId, retry>>

(* The entry in the hands of w is removed, and perhaps rescheduled.        *)
Removing(w) ==
  /\ at[w] \in {"ack", "retry", "bury"}
  /\ Remove(msg[w])
  /\ Return(w, loop[w])
  /\ \/ UNCHANGED retry
     \/ at[w] = "retry" /\ retry' = retry \cup {Again(msg[w])}
  /\ UNCHANGED <<log, lastId, runs>>

(* A worker loses its entry to a fault only, and a PEL loses its consumer  *)
(* only with the worker; an entry in hands does not become idle.           *)
Resting ==
  /\ \A v \in Workers : msg'[v] = msg[v] \/ (msg'[v] = 0 /\ faults' = faults + 1)
  /\ \A i \in Ids : \/ owner'[i] = owner[i]
                    \/ /\ owner[i] \in Workers /\ owner'[i] = Orphan
                       /\ msg'[owner[i]] = 0
  /\ \A i \in idle' : i \in idle \/ \A v \in Workers : msg[v] # i
  /\ UNCHANGED runs

Copies == <<log, stream, retry>>

(* The steps that change what the stream and the retry set hold.           *)
Copying == \/ \E j \in Jobs : Enqueue(j)
           \/ ForeignAdd
           \/ \E w \in Workers : Promote(w)

LEMMA HandsRest ==
  ASSUME UNCHANGED <<msg, owner, idle, runs>>
  PROVE  Resting
BY DEF Resting

LEMMA ReturnRests ==
  ASSUME Core, NEW w \in Workers, at[w] \in Polling, NEW next, Return(w, next)
  PROVE  \A v \in Workers : msg'[v] = msg[v] \/ (msg'[v] = 0 /\ faults' = faults + 1)
<1>1. msg \in [Workers -> 0..MaxId] /\ msg[w] = 0
  BY DEF Core, TypeOK, HandsInv, InHands, Busy, Handling, Polling
<1> QED
  BY <1>1 DEF Return, ReplyLost, Disconnect, Fault, worker

LEMMA StepKinds ==
  ASSUME Core, Timely, [Next]_vars
  PROVE  \/ \E w \in Workers, i \in Ids : Delivering(w, i)
         \/ \E w \in Workers : Removing(w)
         \/ Resting /\ (Copying \/ UNCHANGED Copies)
<1> DEFINE Quiet == Resting /\ (Copying \/ UNCHANGED Copies)
<1>0. TypeOK /\ EntriesInv /\ NothingStranded /\ delivered \in Nat /\ lastId \in Nat
  BY QueueAssumption DEF Core, EntriesInv, TypeOK
<1>1. ASSUME NEW w \in Workers, at[w] \in Polling PROVE msg[w] = 0
  BY <1>1 DEF Core, HandsInv, InHands, Busy, Handling, Polling
<1>2. \A i \in Pending : i \in stream
  BY <1>0 DEF NothingStranded
<1>3. ASSUME NEW j \in Jobs, Enqueue(j) PROVE Quiet
  BY <1>3, HandsRest DEF Enqueue, worker, Copying
<1>4. ASSUME ForeignAdd PROVE Quiet
  BY <1>4, HandsRest DEF ForeignAdd, worker, history, Copying
<1>5. ASSUME NEW w \in Workers, Polls(w)
      PROVE  Quiet \/ \E i \in Ids : Delivering(w, i)
  <2>1. CASE RecoverOwn(w)
    <3> DEFINE i == Least(Own(w))
    <3>1. i \in Ids /\ owner[i] = w
      BY <2>1, LeastIn DEF RecoverOwn, Own
    <3>2. /\ Deliver(w, i) /\ UNCHANGED <<log, stream, lastId, retry>>
          /\ at[w] \in Polling
      BY <2>1 DEF RecoverOwn, Polling
    <3> HIDE DEF i
    <3>3. i \in stream
      BY <1>2, <3>1, QueueAssumption DEF Pending
    <3> QED
      BY <1>1, <3>1, <3>2, <3>3 DEF Delivering
  <2>2. CASE AutoClaim(w)
    <3> DEFINE i == Least(Scanned \cap idle)
    <3>1. i \in Ids /\ i \in Pending /\ i \in idle
      BY <1>0, <2>2, LeastIn DEF AutoClaim, TypeOK, Pending
    <3>2. /\ Deliver(w, i) /\ UNCHANGED <<log, stream, lastId, retry>>
          /\ at[w] \in Polling
      BY <2>2 DEF AutoClaim, Polling
    <3> HIDE DEF i
    <3> QED
      BY <1>1, <1>2, <3>1, <3>2 DEF Delivering
  <2>3. CASE ReadNew(w)
    <3> DEFINE i == delivered + 1
    <3>1. i \in Ids /\ i \in stream
      BY <1>0, <2>3, QueueAssumption DEF ReadNew, TypeOK, Ids, NothingStranded
    <3>2. /\ Deliver(w, i) /\ UNCHANGED <<log, stream, lastId, retry>>
          /\ at[w] \in Polling
      BY <2>3 DEF ReadNew, Polling
    <3> QED
      BY <1>1, <3>1, <3>2 DEF Delivering
  <2>4. CASE EnsureGroup(w) \/ NothingToClaim(w) \/ NothingNew(w)
    <3>1. /\ \A v \in Workers : msg'[v] = msg[v] \/ (msg'[v] = 0 /\ faults' = faults + 1)
      BY <2>4, ReturnRests DEF EnsureGroup, NothingToClaim, NothingNew, Polling
    <3> QED
      BY <2>4, <3>1
      DEF EnsureGroup, NothingToClaim, NothingNew, redis, history, Resting, Copies
  <2>5. CASE Promote(w)
    <3>1. /\ \A v \in Workers : msg'[v] = msg[v] \/ (msg'[v] = 0 /\ faults' = faults + 1)
      BY <2>5, ReturnRests DEF Promote, Polling
    <3>2. Resting
      BY <2>5, <3>1 DEF Promote, history, Resting
    <3> QED
      BY <2>5, <3>2 DEF Copying
  <2>6. CASE Recovered(w) \/ Reconnect(w)
    <3>1. /\ \A v \in Workers : msg'[v] = msg[v] \/ (msg'[v] = 0 /\ faults' = faults + 1)
      BY <1>0, <2>6
      DEF Recovered, Reconnect, ReplyLost, Disconnect, Fault, worker, TypeOK
    <3> QED
      BY <2>6, <3>1 DEF Recovered, Reconnect, redis, history, Resting, Copies
  <2> QED
    BY <1>5, <2>1, <2>2, <2>3, <2>4, <2>5, <2>6 DEF Polls
<1>6. ASSUME NEW w \in Workers, HandlerOk(w) \/ HandlerErr(w) \/ Exhausted(w) PROVE Quiet
  <2>1. UNCHANGED <<log, stream, retry, owner, idle, msg, runs>>
    BY <1>6 DEF HandlerOk, HandlerErr, Exhausted, redis
  <2> QED
    BY <2>1, HandsRest DEF Copies
<1>7. ASSUME NEW w \in Workers, Ack(w) \/ Reschedule(w) \/ Bury(w) PROVE Removing(w)
  BY <1>7 DEF Ack, Reschedule, Bury, history, Removing
<1>8. ASSUME NEW w \in Workers, CallFails(w) PROVE Quiet
  <2>1. \A v \in Workers : msg'[v] = msg[v] \/ (msg'[v] = 0 /\ faults' = faults + 1)
    BY <1>0, <1>8 DEF CallFails, Disconnect, Fault, TypeOK
  <2> QED
    BY <1>8, <2>1 DEF CallFails, redis, history, Resting, Copies
<1>9. ASSUME NEW P \in Processes, Crash(P) PROVE Quiet
  <2>1. P \subseteq Workers
    BY QueueAssumption
  <2> QED
    BY <1>0, <1>9, <2>1 DEF Crash, Fault, history, Resting, Copies, TypeOK
<1>10. ASSUME NEW P \in Processes, Restart(P) PROVE Quiet
  BY <1>10, HandsRest DEF Restart, redis, history, Copies
<1>11. ASSUME Time PROVE Quiet
  <2>1. ASSUME NEW i \in Ids, IdleExpires(i) PROVE Quiet
    <3>1. \A v \in Workers : msg[v] # i
      BY <2>1 DEF IdleExpires, Timely, Holds
    <3>2. UNCHANGED <<log, stream, retry, owner, msg, runs>> /\ idle' = idle \cup {i}
      BY <2>1 DEF IdleExpires, worker, history
    <3> QED
      BY <3>1, <3>2 DEF Resting, Copies
  <2>2. ASSUME NEW p \in Load, RetryDue(p) PROVE Quiet
    BY <2>2, HandsRest DEF RetryDue, worker, history, Copies
  <2> QED
    BY <1>11, <2>1, <2>2 DEF Time
<1>12. ASSUME UNCHANGED vars PROVE Quiet
  BY <1>12, HandsRest DEF vars, redis, worker, history, Copies
<1> HIDE DEF Quiet
<1>13. Quiet \/ (\E w \in Workers, i \in Ids : Delivering(w, i)) \/ \E w \in Workers : Removing(w)
  BY <1>3, <1>4, <1>5, <1>6, <1>7, <1>8, <1>9, <1>10, <1>11, <1>12 DEF Next, Handles
<1> QED
  BY <1>13 DEF Quiet

-----------------------------------------------------------------------------
(* Given enough time, an entry is in the hands of one worker at most.      *)

(* Nobody holds an entry that is delivered.                                *)
LEMMA DeliveredFree ==
  ASSUME Core, OwnershipInv, NEW w \in Workers, NEW i \in Ids, Delivering(w, i),
         NEW v \in Workers
  PROVE  msg[v] # i
<1>1. CASE owner[i] = w
  BY <1>1, QueueAssumption DEF Delivering, OwnershipInv, Busy, Ids
<1>2. CASE i \in idle
  BY <1>2, QueueAssumption DEF OwnershipInv, Busy, Ids
<1>3. CASE i = delivered + 1
  BY <1>3, QueueAssumption DEF Core, TypeOK, HandsInv, InHands
<1> QED
  BY <1>1, <1>2, <1>3 DEF Delivering

LEMMA DeliverMsg ==
  ASSUME TypeOK, NEW w \in Workers, NEW i \in Ids, Delivering(w, i)
  PROVE  \/ /\ msg' = [msg EXCEPT ![w] = i]
            /\ runs' = IF IsJob(i) THEN [runs EXCEPT ![JobOf(i)] = @ + 1] ELSE runs
            /\ UNCHANGED faults
         \/ /\ msg' = msg
            /\ runs' = runs
            /\ faults' = faults + 1
<1>1. CASE ReplyLost(w) /\ UNCHANGED runs
  BY <1>1 DEF Delivering, ReplyLost, Disconnect, Fault, worker, TypeOK
<1> QED
  BY <1>1 DEF Delivering, Deliver

LEMMA RemoveMsg ==
  ASSUME TypeOK, NEW w \in Workers, Removing(w)
  PROVE  /\ \A v \in Workers : v # w => msg'[v] = msg[v]
         /\ \/ msg'[w] = 0 /\ faults' \in {faults, faults + 1}
            \/ Resend /\ msg'[w] = msg[w]
BY DEF Removing, Return, ReplyLost, Disconnect, Fault, worker, TypeOK

LEMMA OwnershipStep ==
  ASSUME Core, Timely, OwnershipInv, [Next]_vars
  PROVE  OwnershipInv'
<1>0. TypeOK /\ TypeOK'
  BY CoreStep DEF Core
<1>1. ASSUME NEW w \in Workers, NEW i \in Ids, Delivering(w, i) PROVE OwnershipInv'
  <2>1. /\ owner' = [owner EXCEPT ![i] = w] /\ idle' = idle \ {i}
        /\ \A v \in Workers : msg[v] # i
        /\ msg' = msg \/ msg' = [msg EXCEPT ![w] = i]
    BY <1>0, <1>1, DeliveredFree, DeliverMsg DEF Delivering, Deliver
  <2>2. owner'[i] = w /\ \A k \in Ids \ {i} : owner'[k] = owner[k]
    BY <1>0, <2>1 DEF TypeOK
  <2>3. ASSUME NEW v \in Workers, Busy(v)'
        PROVE  msg'[v] \notin idle' /\ owner'[msg'[v]] \in {v, Nobody}
    <3>1. CASE msg'[v] = i /\ v = w
      BY <2>1, <2>2, <3>1
    <3>2. CASE msg'[v] = msg[v]
      <4>1. msg[v] \in Ids \ {i}
        BY <1>0, <2>1, <2>3, <3>2, QueueAssumption DEF Busy, TypeOK, Ids
      <4> QED
        BY <2>1, <2>2, <2>3, <3>2, <4>1 DEF OwnershipInv, Busy
    <3> QED
      BY <1>0, <2>1, <3>1, <3>2 DEF TypeOK
  <2>4. ASSUME NEW v \in Workers, NEW u \in Workers, v # u, Busy(v)' PROVE msg'[v] # msg'[u]
    BY <1>0, <2>1, <2>4 DEF OwnershipInv, ExclusiveHandling, Busy, TypeOK
  <2> QED
    BY <2>3, <2>4 DEF OwnershipInv, ExclusiveHandling, Busy
<1>2. ASSUME NEW w \in Workers, Removing(w) PROVE OwnershipInv'
  <2>1. /\ \A v \in Workers : msg'[v] = msg[v] \/ msg'[v] = 0
        /\ idle' \subseteq idle
        /\ \A i \in Ids : owner'[i] = owner[i] \/ owner'[i] = Nobody
    BY <1>0, <1>2, RemoveMsg DEF Removing, Remove, TypeOK
  <2>2. \A v \in Workers : msg[v] \in 0..MaxId
    BY <1>0 DEF TypeOK
  <2> QED
    BY <2>1, <2>2, QueueAssumption DEF OwnershipInv, ExclusiveHandling, Busy, Ids
<1>3. CASE Resting
  <2>1. ASSUME NEW v \in Workers, Busy(v)'
        PROVE  /\ msg'[v] = msg[v] /\ Busy(v) /\ msg[v] \in Ids
               /\ msg'[v] \notin idle' /\ owner'[msg'[v]] \in {v, Nobody}
    <3>1. msg'[v] = msg[v] /\ Busy(v) /\ msg[v] \in Ids
      BY <1>0, <1>3, <2>1, QueueAssumption DEF Resting, Busy, TypeOK, Ids
    <3>2. msg[v] \notin idle /\ owner[msg[v]] \in {v, Nobody}
      BY <3>1 DEF OwnershipInv
    <3>3. msg[v] \notin idle'
      BY <1>3, <3>2 DEF Resting
    <3>4. owner'[msg[v]] = owner[msg[v]]
      BY <1>3, <2>1, <3>1, <3>2, QueueAssumption DEF Resting, Busy
    <3> QED
      BY <3>1, <3>2, <3>3, <3>4
  <2>2. ASSUME NEW v \in Workers, NEW u \in Workers, v # u, Busy(v)' PROVE msg'[v] # msg'[u]
    <3>1. CASE msg'[u] = 0
      BY <2>2, <3>1 DEF Busy
    <3>2. CASE msg'[u] = msg[u]
      BY <2>1, <2>2, <3>2 DEF OwnershipInv, ExclusiveHandling
    <3> QED
      BY <1>3, <3>1, <3>2 DEF Resting
  <2> QED
    BY <2>1, <2>2 DEF OwnershipInv, ExclusiveHandling, Busy
<1> QED
  BY <1>1, <1>2, <1>3, StepKinds

LEMMA OwnershipInvariant == ASSUME Timely PROVE Spec => []OwnershipInv
<1>1. Init => OwnershipInv
  BY DEF Init, OwnershipInv, ExclusiveHandling, Busy
<1>2. Core /\ OwnershipInv /\ [Next]_vars => OwnershipInv'
  BY OwnershipStep
<1> QED
  BY <1>1, <1>2, CoreInvariant, PTL DEF Spec

(* Given enough time, no two workers handle one entry, even after          *)
(* reconnects, crashes and calls that were sent twice.                     *)
THEOREM HandlingIsExclusive == ASSUME Timely PROVE Spec => []ExclusiveHandling
<1>1. OwnershipInv => ExclusiveHandling
  BY DEF OwnershipInv
<1> QED
  BY <1>1, OwnershipInvariant, PTL

-----------------------------------------------------------------------------
(* Given also that no call is sent twice, one copy of a job exists.        *)

LEMMA EntryStays ==
  ASSUME Core, Grows, NEW i \in stream
  PROVE  /\ i \in Ids /\ i <= lastId /\ log'[i] = log[i]
         /\ IsJob(i)' <=> IsJob(i)
         /\ JobOf(i)' = JobOf(i)
<1>1. i \in Ids /\ i <= lastId
  BY QueueAssumption DEF Core, TypeOK, EntriesInv, NothingStranded, Ids
<1> QED
  BY <1>1 DEF Grows, IsJob, JobOf

(* What is in hand is still in the stream.                                 *)
LEMMA HeldEntry ==
  ASSUME Core, CopyInv, NEW w \in Workers, at[w] \in Handling
  PROVE  msg[w] \in Ids /\ msg[w] \in stream /\ owner[msg[w]] = w
<1>1. msg[w] \in Ids /\ Busy(w)
  BY InHand DEF Core, HandsInv, InHands
<1>2. owner[msg[w]] = w
  BY <1>1 DEF CopyInv
<1> QED
  BY <1>1, <1>2, QueueAssumption DEF Core, EntriesInv, NothingStranded, Pending

LEMMA HandsKept ==
  ASSUME Core, Timely, ~Resend, OwnershipInv, CopyInv, [Next]_vars,
         NEW v \in Workers, Busy(v)'
  PROVE  owner'[msg'[v]] = v
<1>0. TypeOK /\ TypeOK'
  BY CoreStep DEF Core
<1>1. ASSUME NEW w \in Workers, NEW i \in Ids, Delivering(w, i) PROVE owner'[msg'[v]] = v
  <2>1. /\ owner' = [owner EXCEPT ![i] = w]
        /\ \A u \in Workers : msg[u] # i
        /\ msg' = msg \/ msg' = [msg EXCEPT ![w] = i]
    BY <1>0, <1>1, DeliveredFree, DeliverMsg DEF Delivering, Deliver
  <2>2. owner'[i] = w /\ \A k \in Ids \ {i} : owner'[k] = owner[k]
    BY <1>0, <2>1 DEF TypeOK
  <2>3. CASE msg'[v] = i /\ v = w
    BY <2>2, <2>3
  <2>4. CASE msg'[v] = msg[v]
    <3>1. msg[v] \in Ids \ {i}
      BY <1>0, <2>1, <2>4, QueueAssumption DEF Busy, TypeOK, Ids
    <3> QED
      BY <2>2, <2>4, <3>1 DEF CopyInv, Busy
  <2> QED
    BY <1>0, <2>1, <2>3, <2>4 DEF TypeOK
<1>2. ASSUME NEW w \in Workers, Removing(w) PROVE owner'[msg'[v]] = v
  <2>1. v # w /\ msg'[v] = msg[v]
    BY <1>0, <1>2, RemoveMsg DEF Busy
  <2>2. msg[v] # msg[w] /\ msg[v] \in Ids /\ owner[msg[v]] = v
    BY <1>0, <2>1, QueueAssumption DEF OwnershipInv, ExclusiveHandling, CopyInv, Busy, TypeOK, Ids
  <2>3. owner'[msg[v]] = owner[msg[v]]
    BY <1>0, <1>2, <2>2 DEF Removing, Remove, TypeOK
  <2> QED
    BY <2>1, <2>2, <2>3
<1>3. CASE Resting
  <2>1. msg'[v] = msg[v] /\ msg[v] \in Ids /\ owner[msg[v]] = v
    BY <1>0, <1>3, QueueAssumption DEF Resting, Busy, TypeOK, Ids, CopyInv
  <2> QED
    BY <1>3, <2>1 DEF Resting, Busy
<1> QED
  BY <1>1, <1>2, <1>3, StepKinds

Holding(j) == {n \in stream : IsJob(n) /\ JobOf(n) = j}
Retries(j) == {r \in retry : r.job = j}

LEMMA SingleByJob ==
  SingleCopy <=> \A j \in Jobs : /\ \A i, k \in Holding(j) : i = k
                                 /\ \A p, q \in Retries(j) : p = q
                                 /\ Holding(j) = {} \/ Retries(j) = {}
BY DEF SingleCopy, Holding, Retries, InStream, InRetry

(* Fewer copies, and perhaps one more where there was none.                *)
LEMMA FewerCopies ==
  ASSUME SingleCopy, NEW j \in Jobs,
         Holding(j)' \subseteq Holding(j), Retries(j)' \subseteq Retries(j)
  PROVE  /\ \A i, k \in Holding(j)' : i = k
         /\ \A p, q \in Retries(j)' : p = q
         /\ Holding(j)' = {} \/ Retries(j)' = {}
BY SingleByJob

LEMMA SingleStep ==
  ASSUME Core, Timely, ~Resend, OwnershipInv, CopyInv, [Next]_vars
  PROVE  SingleCopy'
<1>0. /\ TypeOK /\ TypeOK' /\ Grows /\ Known /\ SingleCopy
      /\ lastId \in Nat /\ MaxId \in Nat
  BY CoreStep, Growth, QueueAssumption DEF Core, CopyInv, TypeOK
<1> SUFFICES ASSUME NEW j \in Jobs
             PROVE  /\ \A i, k \in Holding(j)' : i = k
                    /\ \A p, q \in Retries(j)' : p = q
                    /\ Holding(j)' = {} \/ Retries(j)' = {}
  BY SingleByJob DEF SingleCopy, Holding, Retries, InStream, InRetry
<1> DEFINE Goal == /\ \A i, k \in Holding(j)' : i = k
                   /\ \A p, q \in Retries(j)' : p = q
                   /\ Holding(j)' = {} \/ Retries(j)' = {}
<1>1. ASSUME NEW i \in stream, i \in Holding(j)' PROVE i \in Holding(j)
  BY <1>0, <1>1, EntryStays DEF Holding
<1>2. ASSUME stream' \subseteq stream, retry' \subseteq retry PROVE Goal
  <2>1. Holding(j)' \subseteq Holding(j)
    BY <1>1, <1>2 DEF Holding
  <2>2. Retries(j)' \subseteq Retries(j)
    BY <1>2 DEF Retries
  <2> QED
    BY <1>0, <2>1, <2>2, FewerCopies
<1>3. ASSUME NEW k \in Jobs, Enqueue(k) PROVE Goal
  <2>1. /\ k \notin enqueued /\ UNCHANGED retry
        /\ stream' = stream \cup {lastId + 1}
        /\ log'[lastId + 1] = [job |-> k, attempt |-> 0]
    BY <1>0, <1>3, QueueAssumption DEF Enqueue, XAdd, TypeOK, Ids
  <2>2. Retries(j)' = Retries(j)
    BY <2>1 DEF Retries
  <2>3. CASE j = k
    <3>1. Holding(j) = {} /\ Retries(j) = {}
      BY <1>0, <2>1, <2>3 DEF Known, Holding, Retries, TypeOK
    <3>2. Holding(j)' \subseteq {lastId + 1}
      BY <1>1, <2>1, <3>1 DEF Holding
    <3> QED
      BY <2>2, <3>1, <3>2
  <2>4. CASE j # k
    <3>1. lastId + 1 \notin Holding(j)'
      BY <2>1, <2>4 DEF Holding, JobOf
    <3>2. Holding(j)' \subseteq Holding(j)
      BY <1>1, <2>1, <3>1 DEF Holding
    <3> QED
      BY <1>0, <2>2, <3>2, FewerCopies
  <2> QED
    BY <2>3, <2>4
<1>4. ASSUME ForeignAdd PROVE Goal
  <2>1. /\ UNCHANGED retry
        /\ stream' = stream \cup {lastId + 1}
        /\ log'[lastId + 1] = Poison
    BY <1>0, <1>4, QueueAssumption DEF ForeignAdd, XAdd, TypeOK, Ids
  <2>2. lastId + 1 \notin Holding(j)'
    BY <2>1, QueueAssumption DEF Holding, IsJob
  <2>3. Holding(j)' \subseteq Holding(j) /\ Retries(j)' \subseteq Retries(j)
    BY <1>1, <2>1, <2>2 DEF Holding, Retries
  <2> QED
    BY <1>0, <2>3, FewerCopies
<1>5. ASSUME NEW w \in Workers, Promote(w) PROVE Goal
  <2>1. PICK S, new : Moves(S, new)
    BY <1>0, <1>5, PromoteMoves
  <2>2. /\ S \subseteq retry /\ retry' = retry \ S /\ stream' = stream \cup new
        /\ new \subseteq Ids
    BY <1>0, <2>1 DEF Moves, TypeOK
  <2>3. ASSUME NEW i \in Holding(j)', i \notin stream
        PROVE  i \in new /\ log'[i] \in S /\ log'[i] \in Retries(j)
    BY <2>1, <2>2, <2>3 DEF Holding, Retries, JobOf, Moves
  <2>4. CASE Holding(j)' \subseteq stream
    <3>1. Holding(j)' \subseteq Holding(j) /\ Retries(j)' \subseteq Retries(j)
      BY <1>1, <2>2, <2>4 DEF Retries
    <3> QED
      BY <1>0, <3>1, FewerCopies
  <2>5. ASSUME NEW i \in Holding(j)', i \notin stream PROVE Goal
    <3>1. i \in new /\ log'[i] \in S /\ log'[i] \in Retries(j)
      BY <2>3, <2>5
    <3>2. Holding(j) = {} /\ Retries(j) = {log'[i]}
      BY <1>0, <3>1, SingleByJob
    <3>3. Retries(j)' = {}
      BY <2>2, <3>1, <3>2 DEF Retries
    <3>4. ASSUME NEW k \in Holding(j)' PROVE k = i
      <4>1. k \notin stream
        BY <1>1, <3>2, <3>4
      <4>2. k \in new /\ log'[k] = log'[i]
        BY <2>3, <3>2, <3>4, <4>1
      <4> QED
        BY <2>1, <3>1, <4>2 DEF Moves
    <3> QED
      BY <3>3, <3>4
  <2> QED
    BY <2>4, <2>5
<1>6. ASSUME NEW w \in Workers, Removing(w) PROVE Goal
  <2>1. /\ msg[w] \in stream /\ stream' = stream \ {msg[w]}
    BY <1>6, HeldEntry DEF Removing, Remove, Handling
  <2>2. CASE UNCHANGED retry
    BY <1>2, <2>1, <2>2
  <2>3. CASE at[w] = "retry" /\ retry' = retry \cup {Again(msg[w])}
    <3>1. log[msg[w]] \in Load /\ Again(msg[w]).job = JobOf(msg[w])
      <4>1. log[msg[w]] \in Load
        BY <2>3, InHand DEF Handling
      <4> QED
        BY <4>1 DEF Again, JobOf, Load
    <3>2. Holding(j)' \subseteq Holding(j)
      BY <1>1, <2>1 DEF Holding
    <3>3. CASE j # JobOf(msg[w])
      <4>1. Retries(j)' \subseteq Retries(j)
        BY <2>3, <3>1, <3>3 DEF Retries
      <4> QED
        BY <1>0, <3>2, <4>1, FewerCopies
    <3>4. CASE j = JobOf(msg[w])
      <4>1. msg[w] \in Holding(j)
        BY <2>1, <3>1, <3>4 DEF Holding, IsJob
      <4>2. Retries(j) = {} /\ \A i \in Holding(j) : i = msg[w]
        BY <1>0, <4>1, SingleByJob
      <4>3. Holding(j)' = {}
        BY <2>1, <3>2, <4>2 DEF Holding
      <4>4. Retries(j)' \subseteq {Again(msg[w])}
        BY <2>3, <4>2 DEF Retries
      <4> QED
        BY <4>3, <4>4
    <3> QED
      BY <3>3, <3>4
  <2> QED
    BY <1>6, <2>2, <2>3 DEF Removing
<1>7. ASSUME NEW w \in Workers, NEW i \in Ids, Delivering(w, i) PROVE Goal
  BY <1>2, <1>7 DEF Delivering
<1>8. ASSUME UNCHANGED Copies PROVE Goal
  BY <1>2, <1>8 DEF Copies
<1> HIDE DEF Goal
<1>9. Goal
  BY <1>3, <1>4, <1>5, <1>6, <1>7, <1>8, StepKinds DEF Copying
<1> QED
  BY <1>9 DEF Goal

LEMMA CopyStep ==
  ASSUME Core, Timely, ~Resend, OwnershipInv, CopyInv, [Next]_vars
  PROVE  CopyInv'
<1>1. \A v \in Workers : Busy(v)' => owner'[msg'[v]] = v
  BY HandsKept
<1>2. Known'
  BY KnownStep DEF CopyInv
<1> QED
  BY <1>1, <1>2, SingleStep DEF CopyInv

LEMMA CopyInvariant == ASSUME Timely, ~Resend PROVE Spec => []CopyInv
<1>1. Init => CopyInv
  BY QueueAssumption DEF Init, CopyInv, Busy, Known, SingleCopy, IsJob, InStream, InRetry
<1>2. Core /\ OwnershipInv /\ CopyInv /\ [Next]_vars => CopyInv'
  BY CopyStep
<1> QED
  BY <1>1, <1>2, CoreInvariant, OwnershipInvariant, PTL DEF Spec

(* Given enough time and no call sent twice, a job is in one place only:   *)
(* at most one entry or one retry holds it.                                *)
THEOREM OneCopy == ASSUME Timely, ~Resend PROVE Spec => []SingleCopy
<1>1. CopyInv => SingleCopy
  BY DEF CopyInv
<1> QED
  BY <1>1, CopyInvariant, PTL

-----------------------------------------------------------------------------
(* Runs: every run of a job is one of its counted attempts, is under way,  *)
(* or was ended by a fault.                                                *)

Idle(i) == \A v \in Workers : msg[v] # i

EntryRuns(i) ==
  IsJob(i) => /\ runs[JobOf(i)] <= log[i].attempt + faults + 1
              /\ Idle(i) => runs[JobOf(i)] <= log[i].attempt + faults

LEMMA RunsByEntry ==
  ASSUME Core
  PROVE  RunsInv <=> /\ \A i \in stream : EntryRuns(i)
                     /\ \A p \in retry : runs[p.job] <= p.attempt + faults
                     /\ \A j \in Jobs \ enqueued : runs[j] = 0
                     /\ BoundedRuns
<1>1. ASSUME NEW i \in stream, IsJob(i)
      PROVE  EntryRuns(i) <=> runs[JobOf(i)] <= log[i].attempt + faults
                                + (IF \E w \in Workers : Holds(w, i) THEN 1 ELSE 0)
  <2>1. /\ runs[JobOf(i)] \in Nat /\ log[i].attempt \in Nat /\ faults \in Nat
    BY <1>1, QueueAssumption DEF Core, TypeOK, IsJob, JobOf, Load
  <2>2. (\E w \in Workers : Holds(w, i)) <=> ~Idle(i)
    BY DEF Holds, Idle
  <2> QED
    BY <1>1, <2>1, <2>2 DEF EntryRuns
<1> QED
  BY <1>1 DEF RunsInv, EntryRuns

(* An entry that stays, of a job that is not started by the step.          *)
LEMMA KeptRuns ==
  ASSUME Core, [Next]_vars, NEW i \in stream, EntryRuns(i), UNCHANGED runs,
         \A v \in Workers : \/ msg'[v] = msg[v]
                            \/ msg[v] # i
                            \/ faults' = faults + 1
  PROVE  EntryRuns(i)'
<1>1. /\ Grows /\ faults \in Nat /\ faults' \in Nat /\ faults <= faults'
  BY CoreStep, Growth DEF Core, TypeOK, Grows
<1>2. /\ log'[i] = log[i] /\ (IsJob(i)' <=> IsJob(i)) /\ JobOf(i)' = JobOf(i)
  BY <1>1, EntryStays
<1>3. SUFFICES ASSUME IsJob(i)
               PROVE  /\ runs[JobOf(i)] <= log[i].attempt + faults' + 1
                      /\ Idle(i)' => runs[JobOf(i)] <= log[i].attempt + faults'
  BY <1>2 DEF EntryRuns
<1>4. runs[JobOf(i)] \in Nat /\ log[i].attempt \in Nat
  BY <1>3, QueueAssumption DEF Core, TypeOK, IsJob, JobOf, Load
<1>5. runs[JobOf(i)] <= log[i].attempt + faults + 1
  BY <1>3 DEF EntryRuns
<1>6. CASE Idle(i)
  <2>1. runs[JobOf(i)] <= log[i].attempt + faults
    BY <1>3, <1>6 DEF EntryRuns
  <2> QED
    BY <1>1, <1>4, <2>1
<1>7. CASE ~Idle(i) /\ Idle(i)'
  <2>1. faults' = faults + 1
    BY <1>7 DEF Idle
  <2> QED
    BY <1>1, <1>4, <1>5, <2>1
<1>8. CASE ~Idle(i)'
  BY <1>1, <1>4, <1>5, <1>8
<1> QED
  BY <1>6, <1>7, <1>8

LEMMA RunsStep ==
  ASSUME Core, Timely, ~Resend, OwnershipInv, CopyInv, RunsInv, [Next]_vars
  PROVE  RunsInv'
<1>0. /\ Core' /\ TypeOK /\ TypeOK' /\ Grows /\ Known /\ SingleCopy
      /\ lastId \in Nat /\ MaxId \in Nat /\ MaxAttempts \in Nat
      /\ faults \in Nat /\ faults' \in Nat /\ faults <= faults'
      /\ enqueued \subseteq enqueued'
      /\ \A j \in Jobs : runs[j] \in Nat
      /\ \A p \in Load : p.job \in Jobs /\ p.attempt \in Nat /\ p.attempt + 1 <= MaxAttempts
  BY CoreStep, Growth, QueueAssumption DEF Core, CopyInv, TypeOK, Grows, Load
<1>1. /\ \A i \in stream : EntryRuns(i)
      /\ \A p \in retry : runs[p.job] <= p.attempt + faults
      /\ \A j \in Jobs \ enqueued : runs[j] = 0
      /\ \A j \in Jobs : runs[j] <= MaxAttempts + faults
  BY RunsByEntry DEF BoundedRuns
<1> DEFINE Goal == /\ \A i \in stream' : EntryRuns(i)'
                   /\ \A p \in retry' : runs'[p.job] <= p.attempt + faults'
                   /\ \A j \in Jobs \ enqueued' : runs'[j] = 0
                   /\ \A j \in Jobs : runs'[j] <= MaxAttempts + faults'
<1>2. ASSUME UNCHANGED runs
      PROVE  /\ \A p \in retry : runs'[p.job] <= p.attempt + faults'
             /\ \A j \in Jobs \ enqueued' : runs'[j] = 0
             /\ \A j \in Jobs : runs'[j] <= MaxAttempts + faults'
  <2>1. \A p \in retry : runs[p.job] <= p.attempt + faults'
    <3>1. retry \subseteq Load
      BY <1>0 DEF TypeOK
    <3> QED
      BY <1>0, <1>1, <3>1
  <2> QED
    BY <1>0, <1>1, <1>2, <2>1
<1>3. ASSUME NEW w \in Workers, NEW i \in Ids, Delivering(w, i) PROVE Goal
  <2>1. /\ stream' = stream /\ retry' = retry /\ log' = log /\ i \in stream
        /\ Idle(i)
    BY <1>3, DeliveredFree DEF Delivering, Idle
  <2>2. CASE msg' = msg /\ runs' = runs
    <3>1. \A k \in stream : EntryRuns(k)'
      BY <1>1, <2>2, KeptRuns
    <3> QED
      BY <1>2, <2>1, <2>2, <3>1
  <2>3. CASE /\ msg' = [msg EXCEPT ![w] = i]
             /\ runs' = runs /\ ~IsJob(i)
    <3>1. ASSUME NEW k \in stream PROVE EntryRuns(k)'
      <4>1. CASE k = i
        <5>1. ~IsJob(k)'
          BY <2>1, <2>3, <4>1 DEF IsJob
        <5> QED
          BY <5>1 DEF EntryRuns
      <4>2. CASE k # i
        <5>1. \A v \in Workers : msg'[v] = msg[v] \/ msg[v] # k
          BY <1>0, <1>3, <2>3, QueueAssumption DEF Delivering, TypeOK, Ids
        <5> QED
          BY <1>1, <2>3, <5>1, KeptRuns
      <4> QED
        BY <4>1, <4>2
    <3> QED
      BY <1>2, <2>1, <2>3, <3>1
  <2>4. CASE /\ msg' = [msg EXCEPT ![w] = i] /\ IsJob(i)
             /\ runs' = [runs EXCEPT ![JobOf(i)] = @ + 1]
             /\ UNCHANGED faults
    <3> DEFINE j == JobOf(i)
    <3>1. /\ j \in Jobs /\ j \in enqueued /\ log[i] \in Load /\ i \in Holding(j)
      BY <1>0, <2>1, <2>4 DEF Known, IsJob, JobOf, Holding, Load, TypeOK
    <3>2. /\ runs'[j] = runs[j] + 1
          /\ \A k \in Jobs \ {j} : runs'[k] = runs[k]
      BY <1>0, <2>4, <3>1 DEF TypeOK
    <3>3. runs[j] <= log[i].attempt + faults
      BY <1>1, <2>1, <2>4 DEF EntryRuns
    <3>4. /\ \A k \in Holding(j) : k = i
          /\ Retries(j) = {}
      BY <1>0, <3>1, SingleByJob
    <3> HIDE DEF j
    <3>5. ASSUME NEW k \in stream PROVE EntryRuns(k)'
      <4>1. CASE k = i
        <5>1. JobOf(k)' = j /\ log'[k] = log[i] /\ ~Idle(k)'
          BY <1>0, <2>1, <2>4, <4>1 DEF j, JobOf, Idle, TypeOK
        <5>2. log[i].attempt \in Nat
          BY <1>0, <3>1
        <5> QED
          BY <1>0, <2>4, <3>1, <3>2, <3>3, <5>1, <5>2 DEF EntryRuns
      <4>2. CASE k # i /\ IsJob(k)
        <5>1. JobOf(k) # j
          BY <3>4, <4>2 DEF Holding
        <5>2. JobOf(k) \in Jobs
          BY <4>2 DEF IsJob, JobOf, Load
        <5>3. runs'[JobOf(k)] = runs[JobOf(k)]
          BY <3>2, <5>1, <5>2
        <5>4. Idle(k)' => Idle(k)
          BY <1>0, <1>3, <2>4, <4>2, QueueAssumption DEF Idle, Delivering, TypeOK, Ids
        <5>5. JobOf(k)' = JobOf(k) /\ log'[k] = log[k]
          BY <2>1 DEF JobOf
        <5> QED
          BY <1>1, <2>4, <4>2, <5>3, <5>4, <5>5 DEF EntryRuns
      <4>3. CASE ~IsJob(k)
        <5>1. ~IsJob(k)'
          BY <2>1, <4>3 DEF IsJob
        <5> QED
          BY <5>1 DEF EntryRuns
      <4> QED
        BY <4>1, <4>2, <4>3
    <3>6. ASSUME NEW p \in retry PROVE runs'[p.job] <= p.attempt + faults'
      <4>1. p.job # j
        BY <3>4 DEF Retries
      <4>2. p.job \in Jobs
        BY <1>0 DEF TypeOK
      <4> QED
        BY <1>1, <2>4, <3>2, <4>1, <4>2
    <3>7. ASSUME NEW k \in Jobs \ enqueued' PROVE runs'[k] = 0
      BY <1>0, <1>1, <3>1, <3>2
    <3>8. ASSUME NEW k \in Jobs PROVE runs'[k] <= MaxAttempts + faults'
      <4>1. CASE k = j
        <5>1. log[i].attempt \in Nat /\ log[i].attempt + 1 <= MaxAttempts
          BY <1>0, <3>1
        <5> QED
          BY <1>0, <2>4, <3>1, <3>2, <3>3, <4>1, <5>1
      <4>2. CASE k # j
        BY <1>1, <2>4, <3>2, <4>2
      <4> QED
        BY <4>1, <4>2
    <3> QED
      BY <2>1, <3>5, <3>6, <3>7, <3>8
  <2> QED
    BY <1>0, <1>3, <2>2, <2>3, <2>4, DeliverMsg
<1>4. ASSUME NEW w \in Workers, Removing(w) PROVE Goal
  <2>1. /\ msg[w] \in stream /\ stream' = stream \ {msg[w]} /\ UNCHANGED runs
        /\ \A v \in Workers : v # w => msg'[v] = msg[v]
    BY <1>0, <1>4, HeldEntry, RemoveMsg DEF Removing, Remove, Handling
  <2>2. ASSUME NEW k \in stream' PROVE EntryRuns(k)'
    <3>1. k \in stream /\ \A v \in Workers : msg'[v] = msg[v] \/ msg[v] # k
      BY <2>1
    <3> QED
      BY <1>1, <2>1, <3>1, KeptRuns
  <2>3. ASSUME at[w] = "retry" PROVE runs'[Again(msg[w]).job] <= Again(msg[w]).attempt + faults'
    <3>1. log[msg[w]] \in Load
      BY <2>3, InHand DEF Handling
    <3>2. Again(msg[w]).job = JobOf(msg[w]) /\ Again(msg[w]).attempt = log[msg[w]].attempt + 1
      BY <3>1 DEF Again, JobOf, Load
    <3>3. runs[JobOf(msg[w])] <= log[msg[w]].attempt + faults + 1
      BY <1>1, <2>1, <3>1 DEF EntryRuns, IsJob
    <3>4. JobOf(msg[w]) \in Jobs /\ log[msg[w]].attempt \in Nat
      BY <1>0, <3>1 DEF JobOf
    <3> QED
      BY <1>0, <2>1, <3>2, <3>3, <3>4
  <2> QED
    BY <1>2, <1>4, <2>1, <2>2, <2>3 DEF Removing
<1>5. ASSUME Resting PROVE \A k \in stream : EntryRuns(k)'
  <2>1. UNCHANGED runs /\ \A v \in Workers : msg'[v] = msg[v] \/ faults' = faults + 1
    BY <1>5 DEF Resting
  <2> QED
    BY <1>1, <2>1, KeptRuns
<1>6. ASSUME Resting, UNCHANGED Copies PROVE Goal
  BY <1>2, <1>5, <1>6 DEF Resting, Copies
<1>7. ASSUME Resting, NEW k \in Jobs, Enqueue(k) PROVE Goal
  <2>1. PICK n \in Ids : /\ stream' = stream \cup {n} /\ log'[n] = [job |-> k, attempt |-> 0]
                         /\ k \notin enqueued /\ UNCHANGED <<retry, runs>>
    BY <1>0, <1>7, QueueAssumption DEF Enqueue, XAdd, TypeOK, Ids
  <2>2. runs[k] = 0
    BY <1>1, <2>1
  <2>3. EntryRuns(n)'
    BY <1>0, <2>1, <2>2 DEF EntryRuns, JobOf
  <2> QED
    BY <1>2, <1>5, <1>7, <2>1, <2>3
<1>8. ASSUME Resting, ForeignAdd PROVE Goal
  <2>1. PICK n \in Ids : /\ stream' = stream \cup {n} /\ log'[n] = Poison
                         /\ UNCHANGED <<retry, runs>>
    BY <1>0, <1>8, QueueAssumption DEF ForeignAdd, XAdd, TypeOK, Ids, history
  <2>2. EntryRuns(n)'
    BY <2>1, QueueAssumption DEF EntryRuns, IsJob
  <2> QED
    BY <1>2, <1>5, <1>8, <2>1, <2>2
<1>9. ASSUME Resting, NEW w \in Workers, Promote(w) PROVE Goal
  <2>1. PICK S, new : Moves(S, new)
    BY <1>0, <1>9, PromoteMoves
  <2>2. /\ S \subseteq retry /\ retry' \subseteq retry /\ stream' = stream \cup new
        /\ UNCHANGED runs /\ retry \subseteq Load
    BY <1>0, <1>9, <2>1 DEF Moves, TypeOK, Resting
  <2>3. ASSUME NEW i \in new PROVE EntryRuns(i)'
    <3>1. log'[i] \in retry /\ log'[i] \in Load
      BY <2>1, <2>2 DEF Moves
    <3>2. runs[log'[i].job] <= log'[i].attempt + faults
      BY <1>1, <3>1
    <3> QED
      BY <1>0, <2>2, <3>1, <3>2 DEF EntryRuns, JobOf
  <2> QED
    BY <1>2, <1>5, <1>9, <2>2, <2>3
<1> HIDE DEF Goal
<1>10. Goal
  BY <1>3, <1>4, <1>6, <1>7, <1>8, <1>9, StepKinds DEF Copying
<1>11. /\ \A i \in stream' : EntryRuns(i)'
       /\ \A p \in retry' : runs'[p.job] <= p.attempt + faults'
       /\ \A j \in Jobs \ enqueued' : runs'[j] = 0
       /\ BoundedRuns'
  BY <1>10 DEF Goal, BoundedRuns
<1>12. ASSUME Core' PROVE RunsInv'
  <2>1. (RunsInv <=> /\ \A i \in stream : EntryRuns(i)
                     /\ \A p \in retry : runs[p.job] <= p.attempt + faults
                     /\ \A j \in Jobs \ enqueued : runs[j] = 0
                     /\ BoundedRuns)'
    BY <1>12, RunsByEntry, PTL
  <2> QED
    BY <1>11, <2>1
<1> QED
  BY <1>0, <1>12

LEMMA RunsInvariant == ASSUME Timely, ~Resend PROVE Spec => []RunsInv
<1>1. Init => RunsInv
  BY QueueAssumption DEF Init, RunsInv, BoundedRuns
<1>2. Core /\ OwnershipInv /\ CopyInv /\ RunsInv /\ [Next]_vars => RunsInv'
  BY RunsStep
<1> QED
  BY <1>1, <1>2, CoreInvariant, OwnershipInvariant, CopyInvariant, PTL DEF Spec

(* Given enough time and no call sent twice, a handler runs at most        *)
(* MaxAttempts times and once more for every fault.                        *)
THEOREM RunsAreBounded == ASSUME Timely, ~Resend PROVE Spec => []BoundedRuns
<1>1. RunsInv => BoundedRuns
  BY DEF RunsInv
<1> QED
  BY <1>1, RunsInvariant, PTL

(* All inductive invariants of the queue together, where its ClaimIdle is  *)
(* long enough and its client sends no call twice.                         *)
THEOREM QueueInvariant == ASSUME Timely, ~Resend PROVE Spec => []QueueInv
<1>1. Core /\ NoJobLost => DeliveryInv
  BY DEF Core, DeliveryInv
<1> QED
  BY <1>1, CoreInvariant, NoJobIsLost, AttemptInvariant, OwnershipInvariant, CopyInvariant,
     RunsInvariant, PTL DEF QueueInv
=============================================================================
