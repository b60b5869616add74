--------------------------- MODULE JobQueueProofs ---------------------------
(***************************************************************************)
(* Proofs about JobQueue, for every value of the constants that satisfies  *)
(* QueueAssumption: slow jobs, calls sent twice and any number of faults   *)
(* included, unless a theorem assumes otherwise.                           *)
(*                                                                         *)
(* The inductive invariant is Core: types, where the entries are, and what *)
(* a worker knows of the one in its hands.  Each of its three parts needs  *)
(* all of them before the step.                                            *)
(***************************************************************************)
EXTENDS JobQueue, DataLemmas

(* The least element of a set of entries exists.                           *)
LEMMA LeastIn ==
  ASSUME NEW S \in SUBSET Ids, S # {}
  PROVE  /\ Least(S) \in S
         /\ \A k \in S : Least(S) <= k
<1>1. S \subseteq Nat
  BY QueueAssumption DEF Ids
<1>2. \E i \in S : \A k \in S : i <= k
  BY <1>1, LeastNumber
<1> QED
  BY <1>2 DEF Least

-----------------------------------------------------------------------------
(* What each kind of step does, once and for all.                          *)

States == Handling \cup Polling \cup {"down", "backoff"}

WorkersOK ==
  /\ at \in [Workers -> States]
  /\ msg \in [Workers -> 0..MaxId]
  /\ loop \in [Workers -> {"recover", "promote"}]
  /\ faults \in 0..MaxFaults

LEMMA ReplyLostType ==
  ASSUME TypeOK, NEW w \in Workers, ReplyLost(w)
  PROVE  WorkersOK'
BY QueueAssumption
DEF TypeOK, ReplyLost, Disconnect, Fault, worker, WorkersOK, States

LEMMA ReturnType ==
  ASSUME TypeOK, NEW w \in Workers, NEW next \in States, Return(w, next)
  PROVE  WorkersOK'
BY ReplyLostType, QueueAssumption DEF TypeOK, Return, WorkersOK, States

LEMMA DeliverType ==
  ASSUME TypeOK, NEW w \in Workers, NEW i \in Ids, Deliver(w, i)
  PROVE  /\ owner' \in [Ids -> Workers \cup {Orphan, Nobody}]
         /\ idle' \subseteq Pending'
         /\ runs' \in [Jobs -> Nat]
         /\ WorkersOK'
<1>1. IsJob(i) => JobOf(i) \in Jobs
  BY DEF IsJob, JobOf, Load
<1>2. runs' \in [Jobs -> Nat]
  BY <1>1 DEF TypeOK, Deliver
<1>3. /\ owner' \in [Ids -> Workers \cup {Orphan, Nobody}]
      /\ idle' \subseteq Pending'
  BY QueueAssumption DEF TypeOK, Deliver, Pending
<1>4. CASE ReplyLost(w)
  BY <1>2, <1>3, <1>4, ReplyLostType
<1>5. CASE ~ReplyLost(w)
  <2>1. /\ msg' = [msg EXCEPT ![w] = i]
        /\ \E s \in {"handle", "ack"} : at' = [at EXCEPT ![w] = s]
        /\ UNCHANGED <<loop, faults>>
    BY <1>5 DEF Deliver
  <2>2. i \in 0..MaxId
    BY DEF Ids
  <2>3. WorkersOK'
    BY <2>1, <2>2 DEF TypeOK, WorkersOK, States, Handling
  <2> QED
    BY <1>2, <1>3, <2>3
<1> QED
  BY <1>4, <1>5

LEMMA RemoveType ==
  ASSUME TypeOK, NEW i \in Ids, Remove(i)
  PROVE  /\ owner' \in [Ids -> Workers \cup {Orphan, Nobody}]
         /\ idle' \subseteq Pending'
         /\ stream' \subseteq Ids
BY DEF TypeOK, Remove, Pending

LEMMA XAddType ==
  ASSUME TypeOK, NEW e \in Load \cup {Poison}, XAdd(e)
  PROVE  /\ log' \in [Ids -> Load \cup {Poison, None}]
         /\ stream' \subseteq Ids
         /\ lastId' \in 0..MaxId
         /\ lastId' > lastId
BY QueueAssumption DEF TypeOK, XAdd, Ids

(* The promotion script moves a set S of due loads to fresh positions, one *)
(* entry for each.                                                         *)
Moves(S, new) ==
  /\ S \subseteq due
  /\ retry' = retry \ S /\ due' = due \ S
  /\ new \subseteq Ids
  /\ \A i \in Ids : i \in new <=> lastId < i /\ i <= lastId'
  /\ lastId' \in 0..MaxId /\ lastId <= lastId'
  /\ stream' = stream \cup new
  /\ log' \in [Ids -> Load \cup {Poison, None}]
  /\ \A i \in Ids \ new : log'[i] = log[i]
  /\ \A i \in new : log'[i] \in S
  /\ \A p \in S : \E i \in new : log'[i] = p
  /\ \A i, k \in new : log'[i] = log'[k] => i = k

LEMMA PromoteMoves ==
  ASSUME TypeOK, NEW w \in Workers, Promote(w)
  PROVE  \E S, new : Moves(S, new)
<1>1. PICK S \in SUBSET due, n \in 0..PromoteBatch :
        /\ lastId + n <= MaxId
        /\ \E f \in Bijection((lastId + 1)..(lastId + n), S) :
             /\ log' = [i \in Ids |-> IF i \in DOMAIN f THEN f[i] ELSE log[i]]
             /\ stream' = stream \cup DOMAIN f
        /\ lastId' = lastId + n
        /\ retry' = retry \ S
        /\ due' = due \ S
  BY DEF Promote
<1> DEFINE new == (lastId + 1)..(lastId + n)
<1>2. PICK f \in Bijection(new, S) :
        /\ log' = [i \in Ids |-> IF i \in DOMAIN f THEN f[i] ELSE log[i]]
        /\ stream' = stream \cup DOMAIN f
  BY <1>1
<1>3. /\ f \in [new -> S]
      /\ \A p \in S : \E i \in new : f[i] = p
      /\ \A i, k \in new : f[i] = f[k] => i = k
  BY DEF Bijection, Injection, Surjection, IsInjective
<1>4. /\ n \in Nat /\ lastId \in Nat /\ MaxId \in Nat
      /\ lastId' \in 0..MaxId /\ lastId <= lastId'
  BY <1>1, QueueAssumption DEF TypeOK
<1>5. /\ new \subseteq Ids
      /\ \A i \in Ids : i \in new <=> lastId < i /\ i <= lastId'
  BY <1>1, <1>4 DEF Ids
<1> HIDE DEF new
<1>6. /\ \A i \in Ids \ new : log'[i] = log[i]
      /\ \A i \in new : log'[i] = f[i]
      /\ DOMAIN f = new
  BY <1>2, <1>3, <1>5
<1>7. \A i \in Ids : log'[i] \in Load \cup {Poison, None}
  BY <1>3, <1>6 DEF TypeOK
<1>8. log' \in [Ids -> Load \cup {Poison, None}]
  BY <1>2, <1>7
<1>9. Moves(S, new)
  BY <1>1, <1>2, <1>3, <1>4, <1>5, <1>6, <1>8 DEF Moves
<1> QED
  BY <1>9

-----------------------------------------------------------------------------
(* Type correctness.  A rescheduled load has the right type because only   *)
(* an entry with an attempt left reaches that step (HandsInv).             *)

Core == TypeOK /\ EntriesInv /\ HandsInv

(* The entry in a worker's hands exists and, before the acknowledgement,   *)
(* holds a job.                                                            *)
LEMMA InHand ==
  ASSUME Core, NEW w \in Workers, at[w] \in Handling
  PROVE  /\ msg[w] \in Ids
         /\ msg[w] <= delivered
         /\ at[w] # "ack" => /\ log[msg[w]] \in Load
                            /\ JobOf(msg[w]) \in Jobs
<1>1. msg[w] \in Ids /\ msg[w] <= delivered
  BY QueueAssumption DEF Core, TypeOK, HandsInv, InHands, Busy, Ids, Handling
<1>2. at[w] # "ack" => log[msg[w]] \in Load
  BY DEF Core, HandsInv, InHands, IsJob
<1> QED
  BY <1>1, <1>2 DEF JobOf, Load

LEMMA AgainLoad ==
  ASSUME Core, NEW w \in Workers, at[w] = "retry"
  PROVE  Again(msg[w]) \in Load
<1>1. log[msg[w]] \in Load /\ ~Last(msg[w])
  BY InHand DEF Core, HandsInv, InHands, Handling
<1> QED
  BY <1>1, QueueAssumption DEF Again, Last, Load

LEMMA TypeStep ==
  ASSUME Core, [Next]_vars
  PROVE  TypeOK'
<1> USE DEF Core
<1>1. ASSUME NEW j \in Jobs, Enqueue(j) PROVE TypeOK'
  <2>1. [job |-> j, attempt |-> 0] \in Load
    BY QueueAssumption DEF Load
  <2>2. faults' \in 0..MaxFaults
    BY <1>1, QueueAssumption DEF TypeOK, Enqueue, Fault
  <2> QED
    BY <1>1, <2>1, <2>2, XAddType, QueueAssumption
    DEF Enqueue, TypeOK, Pending, worker
<1>2. CASE ForeignAdd
  BY <1>2, XAddType, QueueAssumption DEF ForeignAdd, TypeOK, Pending, worker, history
<1>3. ASSUME NEW w \in Workers, Polls(w) PROVE TypeOK'
  <2>1. CASE EnsureGroup(w)
    BY <2>1, ReturnType
    DEF EnsureGroup, TypeOK, Pending, WorkersOK, States, Polling, redis, history
  <2>2. CASE RecoverOwn(w)
    <3>1. Least(Own(w)) \in Ids
      BY <2>2, LeastIn DEF RecoverOwn, Own
    <3> QED
      BY <2>2, <3>1, DeliverType DEF RecoverOwn, TypeOK, WorkersOK, States
  <2>3. CASE Recovered(w)
    BY <2>3, ReplyLostType
    DEF Recovered, TypeOK, Pending, WorkersOK, States, Polling, redis, history
  <2>4. CASE Promote(w)
    <3>1. /\ log' \in [Ids -> Load \cup {Poison, None}]
          /\ stream' \subseteq Ids
          /\ lastId' \in 0..MaxId /\ lastId' >= lastId
          /\ retry' \subseteq Load /\ due' \subseteq retry'
      <4>1. PICK S, new : Moves(S, new)
        BY <2>4, PromoteMoves
      <4> QED
        BY <4>1 DEF Moves, TypeOK
    <3>4. WorkersOK'
      BY <2>4, ReturnType DEF Promote, States, Polling
    <3> QED
      BY <2>4, <3>1, <3>4, QueueAssumption
      DEF Promote, TypeOK, Pending, WorkersOK, States, history
  <2>5. CASE AutoClaim(w)
    <3>1. Least(Scanned \cap idle) \in Ids
      BY <2>5, LeastIn DEF AutoClaim, TypeOK, Pending
    <3> QED
      BY <2>5, <3>1, DeliverType DEF AutoClaim, TypeOK, WorkersOK, States
  <2>6. CASE NothingToClaim(w)
    BY <2>6, ReturnType
    DEF NothingToClaim, TypeOK, Pending, WorkersOK, States, Polling, redis, history
  <2>7. CASE ReadNew(w)
    <3>1. delivered + 1 \in Ids /\ delivered' \in 0..lastId
      BY <2>7, QueueAssumption DEF ReadNew, TypeOK, Ids
    <3> QED
      BY <2>7, <3>1, DeliverType DEF ReadNew, TypeOK, WorkersOK, States
  <2>8. CASE NothingNew(w)
    BY <2>8, ReturnType
    DEF NothingNew, TypeOK, Pending, WorkersOK, States, Polling, redis, history
  <2>9. CASE Reconnect(w)
    BY <2>9 DEF Reconnect, TypeOK, Pending, Polling, redis, history
  <2> QED
    BY <1>3, <2>1, <2>2, <2>3, <2>4, <2>5, <2>6, <2>7, <2>8, <2>9 DEF Polls
<1>4. ASSUME NEW w \in Workers, Handles(w) PROVE TypeOK'
  <2>1. CASE HandlerOk(w)
    BY <2>1, InHand DEF HandlerOk, TypeOK, Pending, Handling, redis
  <2>2. CASE HandlerErr(w)
    BY <2>2, InHand DEF HandlerErr, TypeOK, Pending, Handling, redis
  <2>3. CASE Exhausted(w)
    BY <2>3, InHand DEF Exhausted, TypeOK, Pending, Handling, redis
  <2>4. CASE Ack(w)
    BY <2>4, InHand, RemoveType, ReturnType
    DEF Ack, TypeOK, Handling, Polling, WorkersOK, States, history
  <2>5. CASE Reschedule(w)
    BY <2>5, InHand, AgainLoad, RemoveType, ReturnType
    DEF Reschedule, TypeOK, Handling, Polling, WorkersOK, States, history
  <2>6. CASE Bury(w)
    BY <2>6, InHand, RemoveType, ReturnType
    DEF Bury, TypeOK, Handling, Polling, WorkersOK, States, history
  <2> QED
    BY <1>4, <2>1, <2>2, <2>3, <2>4, <2>5, <2>6 DEF Handles
<1>5. ASSUME NEW w \in Workers, CallFails(w) PROVE TypeOK'
  <2>1. WorkersOK'
    BY <1>5, ReplyLostType DEF CallFails, ReplyLost
  <2> QED
    BY <1>5, <2>1 DEF CallFails, TypeOK, Pending, WorkersOK, States, redis, history
<1>6. ASSUME NEW P \in Processes, Crash(P) PROVE TypeOK'
  BY <1>6, QueueAssumption DEF Crash, Fault, TypeOK, Pending, history
<1>7. ASSUME NEW P \in Processes, Restart(P) PROVE TypeOK'
  BY <1>7 DEF Restart, TypeOK, Pending, Polling, redis, history
<1>8. ASSUME NEW i \in Ids, IdleExpires(i) PROVE TypeOK'
  BY <1>8 DEF IdleExpires, TypeOK, Pending, worker, history
<1>9. ASSUME NEW p \in Load, RetryDue(p) PROVE TypeOK'
  BY <1>9 DEF RetryDue, TypeOK, Pending, worker, history
<1>10. CASE UNCHANGED vars
  BY <1>10 DEF vars, redis, worker, history, TypeOK, Pending
<1> QED
  BY <1>1, <1>2, <1>3, <1>4, <1>5, <1>6, <1>7, <1>8, <1>9, <1>10 DEF Next, Time

-----------------------------------------------------------------------------
(* The entries: positions in use, the PELs and the stream.                 *)

(* A step that moves entries in none of these ways leaves them alone.      *)
EntriesKept == UNCHANGED <<log, stream, lastId, delivered, owner>>

LEMMA KeptEntries ==
  ASSUME EntriesInv, EntriesKept
  PROVE  EntriesInv'
BY DEF EntriesInv, EntriesKept, NothingStranded, Pending

LEMMA RemovedEntries ==
  ASSUME TypeOK, EntriesInv, NEW i \in Ids, i <= delivered, Remove(i),
         UNCHANGED <<log, lastId, delivered>>
  PROVE  EntriesInv'
<1>1. Pending' = Pending \ {i}
  BY DEF Remove, Pending, TypeOK
<1> QED
  BY <1>1, QueueAssumption DEF EntriesInv, NothingStranded, Remove, TypeOK

LEMMA RedeliveredEntries ==
  ASSUME TypeOK, EntriesInv, NEW w \in Workers, NEW i \in Pending, Deliver(w, i),
         UNCHANGED <<log, stream, lastId, delivered>>
  PROVE  EntriesInv'
<1>1. Pending' = Pending
  BY QueueAssumption DEF Deliver, Pending, TypeOK
<1> QED
  BY <1>1 DEF EntriesInv, NothingStranded

LEMMA AddedEntries ==
  ASSUME TypeOK, EntriesInv, NEW e \in Load \cup {Poison}, XAdd(e),
         UNCHANGED <<delivered, owner>>
  PROVE  EntriesInv'
<1>1. /\ lastId + 1 \in Ids /\ lastId' = lastId + 1
      /\ \A i \in Ids : log'[i] = IF i = lastId + 1 THEN e ELSE log[i]
      /\ stream' = stream \cup {lastId + 1}
  BY QueueAssumption DEF XAdd, TypeOK, Ids
<1>2. e # None
  BY QueueAssumption
<1>3. \A i \in Ids : log'[i] = None <=> i > lastId'
  BY <1>1, <1>2, QueueAssumption DEF EntriesInv, TypeOK, Ids
<1>4. Pending' = Pending
  BY DEF Pending
<1>5. (delivered + 1)..lastId' = ((delivered + 1)..lastId) \cup {lastId + 1}
  BY <1>1, QueueAssumption DEF TypeOK
<1> QED
  BY <1>1, <1>3, <1>4, <1>5 DEF EntriesInv, NothingStranded

LEMMA EntriesStep ==
  ASSUME Core, [Next]_vars
  PROVE  EntriesInv'
<1> USE DEF Core
<1>1. ASSUME NEW j \in Jobs, Enqueue(j) PROVE EntriesInv'
  <2>1. [job |-> j, attempt |-> 0] \in Load
    BY QueueAssumption DEF Load
  <2> QED
    BY <1>1, <2>1, AddedEntries DEF Enqueue
<1>2. CASE ForeignAdd
  BY <1>2, AddedEntries DEF ForeignAdd
<1>3. ASSUME NEW w \in Workers, Polls(w) PROVE EntriesInv'
  <2>1. CASE EnsureGroup(w) \/ Recovered(w) \/ NothingToClaim(w)
               \/ NothingNew(w) \/ Reconnect(w)
    BY <2>1, KeptEntries
    DEF EnsureGroup, Recovered, NothingToClaim, NothingNew, Reconnect, EntriesKept, redis
  <2>2. CASE RecoverOwn(w)
    <3>1. Least(Own(w)) \in Pending
      BY <2>2, LeastIn, QueueAssumption DEF RecoverOwn, Own, Pending
    <3> QED
      BY <2>2, <3>1, RedeliveredEntries DEF RecoverOwn
  <2>3. CASE Promote(w)
    <3>1. PICK S, new : Moves(S, new)
      BY <2>3, PromoteMoves
    <3>2. Pending' = Pending /\ UNCHANGED <<delivered, owner>>
      BY <2>3 DEF Promote, Pending
    <3>3. \A i \in Ids : log'[i] = None <=> i > lastId'
      <4>1. \A i \in new : log'[i] # None
        BY <3>1, QueueAssumption DEF Moves, TypeOK
      <4> QED
        BY <3>1, <4>1, QueueAssumption DEF Moves, TypeOK, EntriesInv, Ids
    <3>4. (delivered + 1)..lastId' = ((delivered + 1)..lastId) \cup new
      <4>1. \A i \in Ids : i \in (delivered + 1)..lastId'
                            <=> i \in ((delivered + 1)..lastId) \cup new
        BY <3>1, QueueAssumption DEF Moves, TypeOK, Ids
      <4>2. /\ (delivered + 1)..lastId' \subseteq Ids
            /\ ((delivered + 1)..lastId) \cup new \subseteq Ids
        BY <3>1, QueueAssumption DEF Moves, TypeOK, Ids
      <4> QED
        BY <4>1, <4>2
    <3> QED
      BY <3>1, <3>2, <3>3, <3>4 DEF EntriesInv, NothingStranded, Moves
  <2>4. CASE AutoClaim(w)
    <3>1. Least(Scanned \cap idle) \in Pending
      BY <2>4, LeastIn DEF AutoClaim, TypeOK, Pending
    <3> QED
      BY <2>4, <3>1, RedeliveredEntries DEF AutoClaim
  <2>5. CASE ReadNew(w)
    <3>1. delivered + 1 \in Ids /\ delivered' = delivered + 1
      BY <2>5, QueueAssumption DEF ReadNew, TypeOK, Ids
    <3>2. Pending' = Pending \cup {delivered + 1}
      BY <2>5, <3>1, QueueAssumption DEF ReadNew, Deliver, Pending, TypeOK
    <3>3. (delivered + 1)..lastId = ((delivered' + 1)..lastId) \cup {delivered + 1}
      BY <2>5, <3>1, QueueAssumption DEF ReadNew, TypeOK
    <3>4. \A i \in Pending' : i <= delivered'
      <4>1. /\ \A i \in Pending : i \in Int /\ i <= delivered
            /\ delivered \in Int
        BY QueueAssumption DEF TypeOK, EntriesInv, Pending, Ids
      <4> QED
        BY <3>1, <3>2, <4>1
    <3>5. stream = Pending' \cup ((delivered' + 1)..lastId)
      BY <3>2, <3>3 DEF EntriesInv, NothingStranded
    <3>6. UNCHANGED <<log, stream, lastId>>
      BY <2>5 DEF ReadNew
    <3> QED
      BY <3>4, <3>5, <3>6 DEF EntriesInv, NothingStranded
  <2> QED
    BY <1>3, <2>1, <2>2, <2>3, <2>4, <2>5 DEF Polls
<1>4. ASSUME NEW w \in Workers, Handles(w) PROVE EntriesInv'
  <2>1. CASE HandlerOk(w) \/ HandlerErr(w) \/ Exhausted(w)
    BY <2>1, KeptEntries DEF HandlerOk, HandlerErr, Exhausted, EntriesKept, redis
  <2>2. CASE Ack(w) \/ Reschedule(w) \/ Bury(w)
    <3>1. msg[w] \in Ids /\ msg[w] <= delivered /\ Remove(msg[w])
      BY <2>2, InHand DEF Ack, Reschedule, Bury, Handling
    <3> QED
      BY <2>2, <3>1, RemovedEntries DEF Ack, Reschedule, Bury
  <2> QED
    BY <1>4, <2>1, <2>2 DEF Handles
<1>5. ASSUME NEW P \in Processes, Crash(P) PROVE EntriesInv'
  <2>1. Pending' = Pending
    BY <1>5, QueueAssumption DEF Crash, Pending, TypeOK
  <2> QED
    BY <1>5, <2>1 DEF Crash, EntriesInv, NothingStranded
<1>6. CASE Time \/ UNCHANGED vars
  BY <1>6, KeptEntries DEF Time, IdleExpires, RetryDue, EntriesKept, vars, redis
<1>7. ASSUME NEW w \in Workers, CallFails(w) PROVE EntriesInv'
  BY <1>7, KeptEntries DEF CallFails, EntriesKept, redis
<1>8. ASSUME NEW P \in Processes, Restart(P) PROVE EntriesInv'
  BY <1>8, KeptEntries DEF Restart, EntriesKept, redis
<1> QED
  BY <1>1, <1>2, <1>3, <1>4, <1>5, <1>6, <1>7, <1>8 DEF Next

-----------------------------------------------------------------------------
(* The workers' hands.                                                     *)

(* What only grows, and the entries that never change.                     *)
Grows ==
  /\ delivered <= delivered'
  /\ \A i \in Ids : i <= lastId => log'[i] = log[i]
  /\ succeeded \subseteq succeeded'
  /\ marked \subseteq marked'
  /\ enqueued \subseteq enqueued'
  /\ \A j \in Jobs : failures[j] <= failures'[j]
  /\ \A j \in Jobs : dead[j] <= dead'[j]
  /\ faults <= faults'

LEMMA Growth ==
  ASSUME Core, [Next]_vars
  PROVE  Grows
<1> DEFINE Kept == UNCHANGED <<succeeded, marked, enqueued, failures, dead>>
<1> USE DEF Core
<1>0. /\ delivered \in Nat /\ lastId \in Nat /\ faults \in Nat
      /\ \A j \in Jobs : failures[j] \in Nat /\ dead[j] \in Nat
      /\ \A i \in Ids : i \in Nat
  BY QueueAssumption DEF TypeOK, Ids
<1>1. faults <= faults'
  <2>1. Fault \/ UNCHANGED faults
    <3>1. ASSUME NEW w \in Workers, Polls(w) PROVE Fault \/ UNCHANGED faults
      BY <3>1
      DEF Polls, EnsureGroup, RecoverOwn, Recovered, Promote, AutoClaim, NothingToClaim,
          ReadNew, NothingNew, Reconnect, Deliver, Return, ReplyLost, Disconnect
    <3>2. ASSUME NEW w \in Workers, Handles(w) PROVE Fault \/ UNCHANGED faults
      BY <3>2
      DEF Handles, HandlerOk, HandlerErr, Exhausted, Ack, Reschedule, Bury, Return,
          ReplyLost, Disconnect
    <3>3. ASSUME NEW w \in Workers, CallFails(w) PROVE Fault
      BY <3>3 DEF CallFails, Disconnect
    <3>4. CASE (\E j \in Jobs : Enqueue(j)) \/ ForeignAdd
                 \/ (\E P \in Processes : Crash(P) \/ Restart(P))
      BY <3>4 DEF Enqueue, ForeignAdd, Crash, Restart
    <3>5. CASE Time \/ UNCHANGED vars
      BY <3>5 DEF Time, IdleExpires, RetryDue, vars
    <3> QED
      BY <3>1, <3>2, <3>3, <3>4, <3>5 DEF Next
  <2> QED
    BY <1>0, <2>1 DEF Fault
<1>2. ASSUME NEW j \in Jobs, Enqueue(j) PROVE Grows
  BY <1>0, <1>1, <1>2 DEF Enqueue, XAdd, Grows, TypeOK
<1>3. CASE ForeignAdd
  BY <1>0, <1>1, <1>3 DEF ForeignAdd, XAdd, history, Grows, TypeOK
<1>4. ASSUME NEW w \in Workers, Polls(w) PROVE Grows
  <2>1. CASE Promote(w)
    <3>1. PICK S, new : Moves(S, new)
      BY <2>1, PromoteMoves
    <3>2. \A i \in Ids : i <= lastId => log'[i] = log[i]
      BY <3>1, <1>0 DEF Moves
    <3> QED
      BY <2>1, <3>2, <1>0, <1>1 DEF Promote, history, Grows
  <2>2. CASE ~Promote(w)
    BY <1>4, <2>2, <1>0, <1>1
    DEF Polls, EnsureGroup, RecoverOwn, Recovered, AutoClaim, NothingToClaim, ReadNew,
        NothingNew, Reconnect, redis, history, Grows
  <2> QED
    BY <2>1, <2>2
<1>5. ASSUME NEW w \in Workers, Handles(w) PROVE Grows
  <2>1. at[w] \in Handling
    BY <1>5 DEF Handles, HandlerOk, HandlerErr, Exhausted, Ack, Reschedule, Bury, Handling
  <2>2. CASE HandlerOk(w) \/ Exhausted(w) \/ Ack(w) \/ Reschedule(w)
    BY <2>2, <1>0, <1>1
    DEF HandlerOk, Exhausted, Ack, Reschedule, redis, history, Grows
  <2>3. CASE HandlerErr(w)
    BY <2>1, <2>3, <1>0, <1>1, InHand DEF HandlerErr, redis, Grows, TypeOK
  <2>4. CASE Bury(w)
    BY <2>1, <2>4, <1>0, <1>1, InHand DEF Bury, history, Grows, TypeOK
  <2> QED
    BY <1>5, <2>2, <2>3, <2>4 DEF Handles
<1>6. ASSUME NEW w \in Workers, CallFails(w) PROVE Grows
  BY <1>6, <1>0, <1>1 DEF CallFails, redis, history, Grows
<1>7. ASSUME NEW P \in Processes, Crash(P) \/ Restart(P) PROVE Grows
  BY <1>7, <1>0, <1>1 DEF Crash, Restart, redis, history, Grows
<1>8. CASE Time \/ UNCHANGED vars
  BY <1>8, <1>0, <1>1 DEF Time, IdleExpires, RetryDue, vars, redis, history, Grows
<1> QED
  BY <1>2, <1>3, <1>4, <1>5, <1>6, <1>7, <1>8 DEF Next

(* A worker that made no step, or whose step was lost and is sent again,   *)
(* still holds what it held.                                               *)
LEMMA SameHands ==
  ASSUME Core, Grows, NEW v \in Workers, at'[v] = at[v], msg'[v] = msg[v],
         delivered' \in Nat
  PROVE  InHands(v)'
<1>1. InHands(v) /\ delivered \in Nat /\ delivered <= lastId /\ msg[v] \in Nat
  BY QueueAssumption DEF Core, HandsInv, TypeOK
<1>2. CASE at[v] \in Handling
  <2>1. msg[v] \in Ids /\ log'[msg[v]] = log[msg[v]]
    BY <1>1, <1>2, InHand, QueueAssumption DEF Grows, Core, TypeOK
  <2> QED
    BY <1>1, <2>1, QueueAssumption
    DEF InHands, Busy, IsJob, JobOf, Last, Grows
<1>3. CASE at[v] \notin Handling
  BY <1>1, <1>3 DEF InHands, Busy, Grows, Handling
<1> QED
  BY <1>2, <1>3

LEMMA EmptyHands ==
  ASSUME NEW v \in Workers, at'[v] \notin Handling, msg'[v] = 0, delivered' \in Nat
  PROVE  InHands(v)'
BY DEF InHands, Busy, Handling

(* What a step leaves in the hands of every worker but those who start or  *)
(* finish a handler.                                                       *)
SameOrEmpty(v) ==
  \/ at'[v] = at[v] /\ msg'[v] = msg[v]
  \/ at'[v] \notin Handling /\ msg'[v] = 0

LEMMA LostHands ==
  ASSUME TypeOK, NEW w \in Workers, NEW v \in Workers, ReplyLost(w)
  PROVE  SameOrEmpty(v)
BY DEF ReplyLost, Disconnect, worker, TypeOK, SameOrEmpty, Handling

LEMMA ReturnHands ==
  ASSUME TypeOK, NEW w \in Workers, NEW v \in Workers, NEW next \in Polling,
         Return(w, next)
  PROVE  SameOrEmpty(v)
BY LostHands DEF Return, TypeOK, SameOrEmpty, Handling, Polling

LEMMA DeliverHands ==
  ASSUME TypeOK, EntriesInv, NEW w \in Workers, NEW v \in Workers, NEW i \in Ids,
         i <= lastId, i <= delivered', delivered' \in Nat,
         log' = log, Deliver(w, i)
  PROVE  SameOrEmpty(v) \/ InHands(v)'
<1>1. CASE ReplyLost(w)
  BY <1>1, LostHands
<1>2. CASE ~ReplyLost(w)
  <2>1. /\ msg' = [msg EXCEPT ![w] = i]
        /\ at' = [at EXCEPT ![w] = IF IsJob(i) THEN "handle" ELSE "ack"]
    BY <1>2 DEF Deliver
  <2>2. CASE v # w
    BY <2>1, <2>2 DEF TypeOK, SameOrEmpty
  <2>3. CASE v = w
    <3>1. log[i] \in Load \/ log[i] = Poison
      BY QueueAssumption DEF TypeOK, EntriesInv, Ids
    <3>2. msg'[v] = i /\ at'[v] = (IF IsJob(i) THEN "handle" ELSE "ack") /\ i # 0
      BY <2>1, <2>3, QueueAssumption DEF TypeOK, Ids
    <3> QED
      BY <3>1, <3>2 DEF InHands, Busy, IsJob, Handling
  <2> QED
    BY <2>2, <2>3
<1> QED
  BY <1>1, <1>2

LEMMA HandsStep ==
  ASSUME Core, [Next]_vars
  PROVE  HandsInv'
<1> SUFFICES ASSUME NEW v \in Workers PROVE InHands(v)'
  BY DEF HandsInv
<1>0. TypeOK /\ EntriesInv /\ Grows /\ delivered' \in Nat /\ delivered \in Nat /\ lastId \in Nat
  BY TypeStep, Growth, QueueAssumption DEF Core, TypeOK
<1>1. SUFFICES SameOrEmpty(v) \/ InHands(v)'
  BY <1>0, SameHands, EmptyHands DEF SameOrEmpty
<1>2. ASSUME NEW w \in Workers, Polls(w) PROVE SameOrEmpty(v) \/ InHands(v)'
  <2>1. CASE EnsureGroup(w) \/ Promote(w) \/ NothingToClaim(w) \/ NothingNew(w)
    BY <1>0, <2>1, ReturnHands
    DEF EnsureGroup, Promote, NothingToClaim, NothingNew, Polling
  <2>2. CASE RecoverOwn(w)
    <3>1. Least(Own(w)) \in Ids /\ Least(Own(w)) <= delivered
      BY <2>2, LeastIn, QueueAssumption
      DEF RecoverOwn, Own, Core, EntriesInv, Pending
    <3> QED
      <4> DEFINE i == Least(Own(w))
      <4>1. Deliver(w, i) /\ UNCHANGED <<log, delivered>>
        BY <2>2 DEF RecoverOwn
      <4>2. i \in Ids /\ i <= lastId /\ i <= delivered'
        BY <1>0, <3>1, <4>1, QueueAssumption DEF TypeOK, Ids
      <4> HIDE DEF i
      <4> QED
        BY <1>0, <4>1, <4>2, DeliverHands
  <2>3. CASE AutoClaim(w)
    <3>1. Least(Scanned \cap idle) \in Ids /\ Least(Scanned \cap idle) <= delivered
      BY <2>3, LeastIn DEF AutoClaim, Core, TypeOK, EntriesInv, Pending
    <3> QED
      <4> DEFINE i == Least(Scanned \cap idle)
      <4>1. Deliver(w, i) /\ UNCHANGED <<log, delivered>>
        BY <2>3 DEF AutoClaim
      <4>2. i \in Ids /\ i <= lastId /\ i <= delivered'
        BY <1>0, <3>1, <4>1, QueueAssumption DEF TypeOK, Ids
      <4> HIDE DEF i
      <4> QED
        BY <1>0, <4>1, <4>2, DeliverHands
  <2>4. CASE ReadNew(w)
    <3>1. delivered + 1 \in Ids /\ delivered + 1 <= lastId
      BY <1>0, <2>4, QueueAssumption DEF ReadNew, Ids, TypeOK
    <3> QED
      <4> DEFINE i == delivered + 1
      <4>1. Deliver(w, i) /\ log' = log /\ i \in Ids /\ i <= lastId /\ i <= delivered'
        BY <1>0, <2>4, <3>1 DEF ReadNew
      <4> HIDE DEF i
      <4> QED
        BY <1>0, <4>1, DeliverHands
  <2>5. CASE Recovered(w) \/ Reconnect(w)
    BY <1>0, <2>5, LostHands DEF Recovered, Reconnect, TypeOK, SameOrEmpty, Handling, Core,
       HandsInv, InHands, Busy
  <2> QED
    BY <1>2, <2>1, <2>2, <2>3, <2>4, <2>5 DEF Polls
<1>3. ASSUME NEW w \in Workers, Handles(w) PROVE SameOrEmpty(v) \/ InHands(v)'
  <2>1. CASE HandlerOk(w) \/ HandlerErr(w) \/ Exhausted(w)
    <3>1. CASE v # w
      BY <1>0, <2>1, <3>1 DEF HandlerOk, HandlerErr, Exhausted, TypeOK, SameOrEmpty
    <3>2. CASE v = w
      <4>1. InHands(w) /\ at[w] \in {"handle", "exhausted"}
        BY <2>1 DEF HandlerOk, HandlerErr, Exhausted, Core, HandsInv
      <4>2. UNCHANGED <<log, delivered, msg>>
        BY <2>1 DEF HandlerOk, HandlerErr, Exhausted, redis
      <4>3. CASE HandlerOk(w)
        BY <1>0, <3>2, <4>1, <4>2, <4>3
        DEF HandlerOk, InHands, Handling, Busy, IsJob, JobOf, TypeOK
      <4>4. CASE HandlerErr(w)
        BY <1>0, <3>2, <4>1, <4>2, <4>4
        DEF HandlerErr, InHands, Handling, Busy, IsJob, JobOf, Last, TypeOK
      <4>5. CASE Exhausted(w)
        BY <1>0, <3>2, <4>1, <4>2, <4>5
        DEF Exhausted, InHands, Handling, Busy, IsJob, JobOf, Last, TypeOK
      <4> QED
        BY <2>1, <4>3, <4>4, <4>5
    <3> QED
      BY <3>1, <3>2
  <2>2. CASE Ack(w) \/ Reschedule(w) \/ Bury(w)
    <3>1. loop[w] \in Polling /\ Return(w, loop[w])
      BY <1>0, <2>2 DEF Ack, Reschedule, Bury, TypeOK, Polling
    <3> QED
      BY <1>0, <3>1, ReturnHands
  <2> QED
    BY <1>3, <2>1, <2>2 DEF Handles
<1>4. ASSUME NEW w \in Workers, CallFails(w) PROVE SameOrEmpty(v)
  BY <1>0, <1>4, LostHands DEF CallFails, ReplyLost
<1>5. ASSUME NEW P \in Processes, Crash(P) \/ Restart(P) PROVE SameOrEmpty(v)
  BY <1>0, <1>5
  DEF Crash, Restart, TypeOK, SameOrEmpty, Handling, Core, HandsInv, InHands, Busy
<1>6. CASE (\E j \in Jobs : Enqueue(j)) \/ ForeignAdd \/ Time \/ UNCHANGED vars
  BY <1>6 DEF Enqueue, ForeignAdd, Time, IdleExpires, RetryDue, vars, worker, SameOrEmpty
<1> QED
  BY <1>2, <1>3, <1>4, <1>5, <1>6 DEF Next

LEMMA CoreInit == Init => Core
<1> SUFFICES ASSUME Init PROVE Core
  OBVIOUS
<1>1. TypeOK
  BY QueueAssumption DEF Init, TypeOK, Polling, Ids, Pending
<1>2. Pending = {}
  BY DEF Init, Pending
<1>3. EntriesInv
  BY <1>2, QueueAssumption DEF Init, EntriesInv, NothingStranded, Ids
<1>4. HandsInv
  BY DEF Init, HandsInv, InHands, Busy, Handling
<1> QED
  BY <1>1, <1>3, <1>4 DEF Core

LEMMA CoreStep == Core /\ [Next]_vars => Core'
BY TypeStep, EntriesStep, HandsStep DEF Core

LEMMA CoreInvariant == Spec => []Core
BY CoreInit, CoreStep, PTL DEF Spec

(* Every reachable state is well typed, whatever the number of jobs,       *)
(* workers and processes, and the bounds.                                  *)
THEOREM TypeCorrect == Spec => []TypeOK
<1>1. Core => TypeOK
  BY DEF Core
<1> QED
  BY <1>1, CoreInvariant, PTL

(* Every entry that was delivered and not removed is in a PEL, and every   *)
(* other one is still to be delivered: nothing XREADGROUP, the recovery    *)
(* loop and XAUTOCLAIM cannot reach is left in the stream.                 *)
THEOREM NothingIsStranded == Spec => []NothingStranded
<1>1. Core => NothingStranded
  BY DEF Core, EntriesInv
<1> QED
  BY <1>1, CoreInvariant, PTL

-----------------------------------------------------------------------------
(* No job is lost.                                                         *)

Accounted(j) == j \in succeeded \/ dead[j] > 0 \/ InStream(j) \/ InRetry(j)

(* A step that removes no copy keeps every job accounted for.              *)
LEMMA KeptCopies ==
  ASSUME Core, Grows, NEW j \in Jobs, Accounted(j), dead' \in [Jobs -> Nat],
         stream \subseteq stream', retry \subseteq retry'
  PROVE  Accounted(j)'
<1>1. ASSUME InStream(j) PROVE InStream(j)'
  <2>1. PICK i \in stream : IsJob(i) /\ JobOf(i) = j
    BY <1>1 DEF InStream
  <2>2. i \in Ids /\ log'[i] = log[i]
    <3>1. i \in Ids /\ log[i] # None
      BY <2>1, QueueAssumption DEF Core, TypeOK, IsJob
    <3>2. i <= lastId
      BY <3>1, QueueAssumption DEF Core, TypeOK, EntriesInv, Ids
    <3> QED
      BY <3>1, <3>2 DEF Grows
  <2> QED
    BY <2>1, <2>2 DEF InStream, IsJob, JobOf
<1>2. ASSUME InRetry(j) PROVE InRetry(j)'
  BY <1>2 DEF InRetry
<1>3. ASSUME dead[j] > 0 PROVE dead'[j] > 0
  BY <1>3 DEF Grows, Core, TypeOK
<1> QED
  BY <1>1, <1>2, <1>3 DEF Accounted, Grows

(* Removing an entry affects the job it held alone.                        *)
LEMMA RemovedCopy ==
  ASSUME Core, Grows, NEW j \in Jobs, Accounted(j), dead' \in [Jobs -> Nat],
         NEW i \in Ids, Remove(i), IsJob(i) => JobOf(i) # j,
         retry \subseteq retry'
  PROVE  Accounted(j)'
<1>1. ASSUME InStream(j) PROVE InStream(j)'
  <2>1. PICK k \in stream : IsJob(k) /\ JobOf(k) = j
    BY <1>1 DEF InStream
  <2>2. k \in Ids /\ log'[k] = log[k]
    <3>1. k \in Ids /\ log[k] # None
      BY <2>1, QueueAssumption DEF Core, TypeOK, IsJob
    <3>2. k <= lastId
      BY <3>1, QueueAssumption DEF Core, TypeOK, EntriesInv, Ids
    <3> QED
      BY <3>1, <3>2 DEF Grows
  <2>3. k \in stream'
    BY <2>1 DEF Remove
  <2> QED
    BY <2>1, <2>2, <2>3 DEF InStream, IsJob, JobOf
<1>2. ASSUME InRetry(j) PROVE InRetry(j)'
  BY <1>2 DEF InRetry
<1>3. ASSUME dead[j] > 0 PROVE dead'[j] > 0
  BY <1>3 DEF Grows, Core, TypeOK
<1> QED
  BY <1>1, <1>2, <1>3 DEF Accounted, Grows

LEMMA NoJobLostStep ==
  ASSUME Core, NoJobLost, [Next]_vars
  PROVE  NoJobLost'
<1>0. Core' /\ TypeOK /\ Grows /\ dead' \in [Jobs -> Nat]
  BY CoreStep, Growth DEF Core, TypeOK
<1> SUFFICES ASSUME NEW j \in enqueued' PROVE Accounted(j)'
  BY DEF NoJobLost, Accounted
<1>1. j \in Jobs
  BY <1>0 DEF Core, TypeOK
<1>2. j \in enqueued => Accounted(j)
  BY DEF NoJobLost, Accounted
<1>3. ASSUME NEW k \in Jobs, Enqueue(k) PROVE Accounted(j)'
  <2>1. stream \subseteq stream' /\ retry \subseteq retry'
    BY <1>3 DEF Enqueue, XAdd
  <2>2. CASE j \in enqueued
    BY <1>0, <1>1, <1>2, <2>1, <2>2, KeptCopies
  <2>3. CASE j \notin enqueued
    <3>1. j = k
      BY <1>3, <2>3 DEF Enqueue
    <3>2. /\ lastId + 1 \in Ids /\ lastId + 1 \in stream'
          /\ log'[lastId + 1] = [job |-> k, attempt |-> 0]
      BY <1>0, <1>3, QueueAssumption DEF Enqueue, XAdd, TypeOK, Ids
    <3>3. [job |-> k, attempt |-> 0] \in Load
      BY QueueAssumption DEF Load
    <3>4. InStream(j)'
      BY <3>1, <3>2, <3>3 DEF InStream, IsJob, JobOf
    <3> QED
      BY <3>4 DEF Accounted
  <2> QED
    BY <2>2, <2>3
<1>4. ASSUME UNCHANGED <<stream, retry, enqueued>> PROVE Accounted(j)'
  BY <1>0, <1>1, <1>2, <1>4, KeptCopies
<1>5. CASE ForeignAdd
  BY <1>0, <1>1, <1>2, <1>5, KeptCopies DEF ForeignAdd, XAdd, history
<1>6. ASSUME NEW w \in Workers, Polls(w) PROVE Accounted(j)'
  <2>1. CASE Promote(w)
    <3>1. PICK S, new : Moves(S, new)
      BY <1>0, <2>1, PromoteMoves
    <3>2. Accounted(j)
      BY <1>2, <2>1 DEF Promote, history
    <3>3. CASE \E p \in S : p.job = j
      <4>1. PICK p \in S : p.job = j
        BY <3>3
      <4>2. PICK i \in new : log'[i] = p
        BY <3>1, <4>1 DEF Moves
      <4>3. p \in Load /\ i \in stream'
        BY <1>0, <3>1, <4>1, <4>2 DEF Moves, TypeOK
      <4>4. InStream(j)'
        BY <4>1, <4>2, <4>3 DEF InStream, IsJob, JobOf
      <4> QED
        BY <4>4 DEF Accounted
    <3>4. CASE InRetry(j) /\ ~\E p \in S : p.job = j
      <4>1. InRetry(j)'
        BY <3>1, <3>4 DEF Moves, InRetry
      <4> QED
        BY <4>1 DEF Accounted
    <3>5. CASE ~InRetry(j)
      <4>1. CASE InStream(j)
        <5>1. PICK i \in stream : IsJob(i) /\ JobOf(i) = j
          BY <4>1 DEF InStream
        <5>2. i \in Ids /\ i \notin new
          <6>1. i \in Ids /\ log[i] # None
            BY <1>0, <5>1, QueueAssumption DEF TypeOK, IsJob
          <6>2. i <= lastId
            BY <1>0, <6>1, QueueAssumption DEF Core, TypeOK, EntriesInv, Ids
          <6> QED
            BY <1>0, <3>1, <6>1, <6>2, QueueAssumption DEF Moves, Ids, TypeOK
        <5>3. log'[i] = log[i] /\ i \in stream'
          BY <3>1, <5>1, <5>2 DEF Moves
        <5> QED
          BY <5>1, <5>3 DEF Accounted, InStream, IsJob, JobOf
      <4>2. CASE j \in succeeded \/ dead[j] > 0
        BY <1>1, <4>2, <2>1 DEF Promote, history, Accounted
      <4> QED
        BY <3>2, <3>5, <4>1, <4>2 DEF Accounted
    <3> QED
      BY <3>3, <3>4, <3>5
  <2>2. CASE ~Promote(w)
    BY <1>4, <1>6, <2>2
    DEF Polls, EnsureGroup, RecoverOwn, Recovered, AutoClaim, NothingToClaim, ReadNew,
        NothingNew, Reconnect, redis, history
  <2> QED
    BY <2>1, <2>2
<1>7. ASSUME NEW w \in Workers, Handles(w) PROVE Accounted(j)'
  <2>1. CASE HandlerOk(w) \/ HandlerErr(w) \/ Exhausted(w)
    BY <1>4, <2>1 DEF HandlerOk, HandlerErr, Exhausted, redis
  <2>2. CASE Ack(w) \/ Reschedule(w) \/ Bury(w)
    <3>1. /\ msg[w] \in Ids /\ Remove(msg[w]) /\ retry \subseteq retry'
          /\ Accounted(j) /\ at[w] \in {"ack", "retry", "bury"} /\ InHands(w)
      BY <1>2, <2>2, InHand
      DEF Ack, Reschedule, Bury, Handling, history, Core, HandsInv
    <3>2. CASE IsJob(msg[w]) => JobOf(msg[w]) # j
      BY <1>0, <1>1, <3>1, <3>2, RemovedCopy
    <3>3. CASE IsJob(msg[w]) /\ JobOf(msg[w]) = j
      <4>1. CASE Ack(w)
        <5>1. j \in succeeded
          BY <3>1, <3>3, <4>1, QueueAssumption DEF Ack, InHands, IsJob
        <5> QED
          BY <5>1, <1>0 DEF Accounted, Grows
      <4>2. CASE Reschedule(w)
        <5>1. Again(msg[w]) \in retry'
          BY <4>2 DEF Reschedule
        <5>2. Again(msg[w]).job = j
          BY <3>3 DEF Again, IsJob, JobOf, Load
        <5> QED
          BY <5>1, <5>2 DEF Accounted, InRetry
      <4>3. CASE Bury(w)
        <5>1. dead'[j] = dead[j] + 1 /\ dead[j] \in Nat
          BY <1>0, <1>1, <3>3, <4>3 DEF Bury, TypeOK
        <5> QED
          BY <5>1 DEF Accounted
      <4> QED
        BY <2>2, <4>1, <4>2, <4>3
    <3> QED
      BY <3>2, <3>3
  <2> QED
    BY <1>7, <2>1, <2>2 DEF Handles
<1>8. ASSUME NEW w \in Workers, CallFails(w) PROVE Accounted(j)'
  BY <1>4, <1>8 DEF CallFails, redis, history
<1>9. ASSUME NEW P \in Processes, Crash(P) \/ Restart(P) PROVE Accounted(j)'
  BY <1>4, <1>9 DEF Crash, Restart, redis, history
<1>10. CASE Time \/ UNCHANGED vars
  BY <1>4, <1>10 DEF Time, IdleExpires, RetryDue, vars, redis, history
<1> QED
  BY <1>3, <1>5, <1>6, <1>7, <1>8, <1>9, <1>10 DEF Next

(* No accepted job vanishes, whatever crashes, lost replies, calls sent    *)
(* twice and thefts of slow jobs happen: until its handler succeeded once  *)
(* or it is dead-lettered, the stream or the retry set holds it.           *)
THEOREM NoJobIsLost == Spec => []NoJobLost
<1>1. Init => NoJobLost
  BY DEF Init, NoJobLost
<1>2. Core /\ NoJobLost /\ [Next]_vars => NoJobLost'
  BY NoJobLostStep
<1> QED
  BY <1>1, <1>2, CoreInvariant, PTL DEF Spec

-----------------------------------------------------------------------------
(* Facts other modules need of a step of the queue.                        *)

LEMMA KnownStep ==
  ASSUME Core, Known, [Next]_vars
  PROVE  Known'
<1>0. Core' /\ TypeOK /\ enqueued \subseteq enqueued' /\ Grows
  BY CoreStep, Growth DEF Core, Grows
<1>1. ASSUME UNCHANGED <<log, retry>> PROVE Known'
  BY <1>0, <1>1 DEF Known, IsJob, JobOf
<1>2. ASSUME NEW j \in Jobs, Enqueue(j) PROVE Known'
  <2>1. \A i \in Ids : log'[i] = log[i] \/ log'[i] = [job |-> j, attempt |-> 0]
    BY <1>0, <1>2 DEF Enqueue, XAdd, TypeOK
  <2>2. j \in enqueued' /\ UNCHANGED retry
    BY <1>2 DEF Enqueue
  <2> QED
    BY <1>0, <2>1, <2>2 DEF Known, IsJob, JobOf
<1>3. CASE ForeignAdd
  <2>1. \A i \in Ids : log'[i] = log[i] \/ log'[i] = Poison
    BY <1>0, <1>3 DEF ForeignAdd, XAdd, TypeOK
  <2> QED
    BY <1>0, <1>3, <2>1, QueueAssumption DEF ForeignAdd, Known, IsJob, JobOf
<1>4. ASSUME NEW w \in Workers, Promote(w) PROVE Known'
  <2>1. PICK S, new : Moves(S, new)
    BY <1>0, <1>4, PromoteMoves
  <2> QED
    BY <1>0, <2>1 DEF Moves, Known, IsJob, JobOf, TypeOK
<1>5. ASSUME NEW w \in Workers, Reschedule(w) PROVE Known'
  <2>1. IsJob(msg[w]) /\ msg[w] \in Ids
    BY <1>5, InHand DEF Reschedule, Handling, IsJob
  <2>2. Again(msg[w]).job = JobOf(msg[w])
    BY <2>1 DEF Again, IsJob, JobOf, Load
  <2> QED
    BY <1>0, <1>5, <2>1, <2>2 DEF Reschedule, Known, IsJob, JobOf
<1> QED
  BY <1>1, <1>2, <1>3, <1>4, <1>5
  DEF Next, Polls, EnsureGroup, RecoverOwn, Recovered, AutoClaim, NothingToClaim, ReadNew,
      NothingNew, Reconnect, Handles, HandlerOk, HandlerErr, Exhausted, Ack, Bury, CallFails,
      Crash, Restart, Time, IdleExpires, RetryDue, vars, redis

LEMMA RunsGrow ==
  ASSUME Core, [Next]_vars, NEW j \in Jobs
  PROVE  runs[j] <= runs'[j]
<1>0. TypeOK /\ runs[j] \in Nat
  BY DEF Core, TypeOK
<1>1. ASSUME NEW w \in Workers, NEW i, Deliver(w, i) PROVE runs[j] <= runs'[j]
  BY <1>0, <1>1 DEF Deliver, TypeOK
<1>2. CASE UNCHANGED runs
  BY <1>0, <1>2
<1> QED
  BY <1>1, <1>2
  DEF Next, Enqueue, ForeignAdd, Polls, EnsureGroup, RecoverOwn, Recovered, Promote,
      AutoClaim, NothingToClaim, ReadNew, NothingNew, Reconnect, Handles, HandlerOk,
      HandlerErr, Exhausted, Ack, Reschedule, Bury, CallFails, Crash, Restart, Time,
      IdleExpires, RetryDue, vars, history

Calling(v) == at[v] \in {"handle", "exhausted"}

(* A worker that stays with its job.                                       *)
LEMMA SameStarted ==
  ASSUME Core, Started, [Next]_vars, NEW v \in Workers,
         Calling(v), msg'[v] = msg[v]
  PROVE  runs'[JobOf(msg[v])'] > 0
<1>1. /\ msg[v] \in Ids /\ msg[v] <= lastId /\ JobOf(msg[v]) \in Jobs
      /\ runs[JobOf(msg[v])] > 0
  BY InHand, QueueAssumption DEF Core, TypeOK, Calling, Handling, Started, Ids
<1>2. JobOf(msg[v])' = JobOf(msg[v])
  BY <1>1, Growth DEF Grows, JobOf
<1> QED
  BY <1>1, <1>2, CoreStep, RunsGrow DEF Core, TypeOK

LEMMA DeliverStarted ==
  ASSUME Core, Started, [Next]_vars, NEW w \in Workers, NEW v \in Workers,
         NEW i \in Ids, Deliver(w, i), UNCHANGED log, ~Calling(w), Calling(v)'
  PROVE  runs'[JobOf(msg[v])'] > 0
<1>1. CASE ReplyLost(w)
  BY <1>1, SameStarted
  DEF ReplyLost, Disconnect, worker, Core, TypeOK, Calling
<1>2. CASE ~ReplyLost(w) /\ v # w
  BY <1>2, SameStarted DEF Deliver, Core, TypeOK, Calling
<1>3. CASE ~ReplyLost(w) /\ v = w
  <2>1. IsJob(i) /\ msg'[v] = i /\ JobOf(i) \in Jobs
    BY <1>3 DEF Deliver, Core, TypeOK, Calling, IsJob, JobOf, Load
  <2>2. runs'[JobOf(i)] = runs[JobOf(i)] + 1
    BY <1>3, <2>1 DEF Deliver, Core, TypeOK
  <2> QED
    BY <2>1, <2>2 DEF Core, TypeOK, JobOf
<1> QED
  BY <1>1, <1>2, <1>3

LEMMA StartedStep ==
  ASSUME Core, Started, [Next]_vars
  PROVE  Started'
<1> SUFFICES ASSUME NEW v \in Workers, Calling(v)' PROVE runs'[JobOf(msg[v])'] > 0
  BY DEF Started, Calling
<1> DEFINE Goal == runs'[JobOf(msg[v])'] > 0
<1>0. TypeOK /\ EntriesInv
  BY DEF Core
<1>1. ASSUME Calling(v), msg'[v] = msg[v] PROVE Goal
  BY <1>1, SameStarted
<1>2. ASSUME NEW w \in Workers, Polls(w) PROVE Goal
  <2>1. CASE EnsureGroup(w) \/ Promote(w) \/ NothingToClaim(w) \/ NothingNew(w)
               \/ Recovered(w) \/ Reconnect(w)
    BY <1>0, <1>1, <2>1
    DEF EnsureGroup, Promote, NothingToClaim, NothingNew, Recovered, Reconnect, Return,
        ReplyLost, Disconnect, worker, TypeOK, Calling
  <2>2. CASE RecoverOwn(w)
    <3> DEFINE i == Least(Own(w))
    <3>1. i \in Ids
      BY <2>2, LeastIn DEF RecoverOwn, Own
    <3>2. Deliver(w, i) /\ UNCHANGED log /\ ~Calling(w)
      BY <2>2 DEF RecoverOwn, Calling
    <3> HIDE DEF i
    <3> QED
      BY <3>1, <3>2, DeliverStarted
  <2>3. CASE AutoClaim(w)
    <3> DEFINE i == Least(Scanned \cap idle)
    <3>1. i \in Ids
      BY <1>0, <2>3, LeastIn DEF AutoClaim, TypeOK, Pending
    <3>2. Deliver(w, i) /\ UNCHANGED log /\ ~Calling(w)
      BY <2>3 DEF AutoClaim, Calling
    <3> HIDE DEF i
    <3> QED
      BY <3>1, <3>2, DeliverStarted
  <2>4. CASE ReadNew(w)
    <3> DEFINE i == delivered + 1
    <3>1. i \in Ids
      BY <1>0, <2>4, QueueAssumption DEF ReadNew, TypeOK, Ids
    <3>2. Deliver(w, i) /\ UNCHANGED log /\ ~Calling(w)
      BY <2>4 DEF ReadNew, Calling
    <3> HIDE DEF i
    <3> QED
      BY <3>1, <3>2, DeliverStarted
  <2> QED
    BY <1>2, <2>1, <2>2, <2>3, <2>4 DEF Polls
<1>3. ASSUME NEW w \in Workers, HandlerOk(w) \/ HandlerErr(w) \/ Exhausted(w) PROVE Goal
  BY <1>0, <1>1, <1>3 DEF HandlerOk, HandlerErr, Exhausted, TypeOK, Calling
<1>4. ASSUME NEW w \in Workers, Ack(w) \/ Reschedule(w) \/ Bury(w) \/ CallFails(w) PROVE Goal
  BY <1>0, <1>1, <1>4
  DEF Ack, Reschedule, Bury, CallFails, Return, ReplyLost, Disconnect, worker, TypeOK, Calling
<1>5. ASSUME NEW P \in Processes, Crash(P) \/ Restart(P) PROVE Goal
  BY <1>0, <1>1, <1>5 DEF Crash, Restart, TypeOK, Calling
<1>6. CASE (\E j \in Jobs : Enqueue(j)) \/ ForeignAdd \/ Time \/ UNCHANGED vars
  BY <1>1, <1>6 DEF Enqueue, ForeignAdd, Time, IdleExpires, RetryDue, vars, worker, Calling
<1> QED
  BY <1>2, <1>3, <1>4, <1>5, <1>6 DEF Next, Handles

-----------------------------------------------------------------------------
(* Attempts.                                                               *)

(* Where the entries and the retries of the next state come from.          *)
FromBefore ==
  /\ \A i \in Ids : \/ log'[i] = log[i]
                    \/ log'[i] = Poison
                    \/ \E j \in Jobs : log'[i] = [job |-> j, attempt |-> 0]
                    \/ log'[i] \in retry
  /\ \A p \in retry' : \/ p \in retry
                       \/ \E w \in Workers : at[w] = "retry" /\ p = Again(msg[w])

LEMMA Origins ==
  ASSUME Core, [Next]_vars
  PROVE  FromBefore
<1>0. TypeOK
  BY DEF Core
<1>1. ASSUME UNCHANGED <<log, retry>> PROVE FromBefore
  BY <1>1 DEF FromBefore
<1>2. ASSUME NEW j \in Jobs, Enqueue(j) PROVE FromBefore
  <2>1. \A i \in Ids : log'[i] = log[i] \/ log'[i] = [job |-> j, attempt |-> 0]
    BY <1>0, <1>2 DEF Enqueue, XAdd, TypeOK
  <2>2. UNCHANGED retry
    BY <1>2 DEF Enqueue
  <2> QED
    BY <2>1, <2>2 DEF FromBefore
<1>3. CASE ForeignAdd
  <2>1. \A i \in Ids : log'[i] = log[i] \/ log'[i] = Poison
    BY <1>0, <1>3 DEF ForeignAdd, XAdd, TypeOK
  <2>2. UNCHANGED retry
    BY <1>3 DEF ForeignAdd
  <2> QED
    BY <2>1, <2>2 DEF FromBefore
<1>4. ASSUME NEW w \in Workers, Promote(w) PROVE FromBefore
  <2>1. PICK S, new : Moves(S, new)
    BY <1>0, <1>4, PromoteMoves
  <2>2. S \subseteq retry /\ retry' \subseteq retry
    BY <1>0, <2>1 DEF Moves, TypeOK
  <2>3. \A i \in Ids : log'[i] = log[i] \/ log'[i] \in retry
    BY <2>1, <2>2 DEF Moves
  <2> QED
    BY <2>2, <2>3 DEF FromBefore
<1>5. ASSUME NEW w \in Workers, Reschedule(w) PROVE FromBefore
  <2>1. at[w] = "retry" /\ retry' = retry \cup {Again(msg[w])} /\ UNCHANGED log
    BY <1>5 DEF Reschedule
  <2> QED
    BY <2>1 DEF FromBefore
<1> QED
  BY <1>1, <1>2, <1>3, <1>4, <1>5
  DEF Next, Polls, EnsureGroup, RecoverOwn, Recovered, AutoClaim, NothingToClaim, ReadNew,
      NothingNew, Reconnect, Handles, HandlerOk, HandlerErr, Exhausted, Ack, Bury, CallFails,
      Crash, Restart, Time, IdleExpires, RetryDue, vars, redis

-----------------------------------------------------------------------------
(* Attempts and failures.                                                  *)

Failed == {"retry", "exhausted", "bury"}

(* A worker is past a failed attempt because it was, or because the        *)
(* handler has just failed.                                                *)
WasFailed(v) == msg'[v] = msg[v] /\ (at[v] \in Failed \/ HandlerErr(v))

LEMMA FailedOrigin ==
  ASSUME Core, [Next]_vars, NEW v \in Workers, at'[v] \in Failed
  PROVE  WasFailed(v)
<1>0. TypeOK
  BY DEF Core
<1>1. ASSUME SameOrEmpty(v) PROVE WasFailed(v)
  BY <1>1 DEF SameOrEmpty, Failed, Handling, WasFailed
<1>2. ASSUME NEW w \in Workers, NEW i, Deliver(w, i) PROVE SameOrEmpty(v)
  <2>1. CASE ReplyLost(w)
    BY <1>0, <2>1, LostHands
  <2>2. CASE ~ReplyLost(w)
    BY <1>0, <1>2, <2>2 DEF Deliver, TypeOK, SameOrEmpty, Failed
  <2> QED
    BY <2>1, <2>2
<1>3. ASSUME NEW w \in Workers, Polls(w) PROVE SameOrEmpty(v)
  <2>1. CASE EnsureGroup(w) \/ Promote(w) \/ NothingToClaim(w) \/ NothingNew(w)
    BY <1>0, <2>1, ReturnHands
    DEF EnsureGroup, Promote, NothingToClaim, NothingNew, Polling
  <2>2. CASE RecoverOwn(w) \/ AutoClaim(w) \/ ReadNew(w)
    BY <1>2, <2>2 DEF RecoverOwn, AutoClaim, ReadNew
  <2>3. CASE Recovered(w) \/ Reconnect(w)
    BY <1>0, <2>3, LostHands
    DEF Recovered, Reconnect, TypeOK, SameOrEmpty, Handling, Core, HandsInv, InHands, Busy, Failed
  <2> QED
    BY <1>3, <2>1, <2>2, <2>3 DEF Polls
<1>4. ASSUME NEW w \in Workers, HandlerOk(w) \/ HandlerErr(w) \/ Exhausted(w) PROVE WasFailed(v)
  BY <1>0, <1>1, <1>4 DEF HandlerOk, HandlerErr, Exhausted, TypeOK, SameOrEmpty, Failed, WasFailed
<1>5. ASSUME NEW w \in Workers, Ack(w) \/ Reschedule(w) \/ Bury(w) PROVE SameOrEmpty(v)
  <2>1. loop[w] \in Polling /\ Return(w, loop[w])
    BY <1>0, <1>5 DEF Ack, Reschedule, Bury, TypeOK, Polling
  <2> QED
    BY <1>0, <2>1, ReturnHands
<1>6. ASSUME NEW w \in Workers, CallFails(w) PROVE SameOrEmpty(v)
  BY <1>0, <1>6, LostHands DEF CallFails, ReplyLost
<1>7. ASSUME NEW P \in Processes, Crash(P) \/ Restart(P) PROVE SameOrEmpty(v)
  BY <1>0, <1>7
  DEF Crash, Restart, TypeOK, SameOrEmpty, Handling, Core, HandsInv, InHands, Busy
<1>8. ASSUME (\E j \in Jobs : Enqueue(j)) \/ ForeignAdd \/ Time \/ UNCHANGED vars
      PROVE  SameOrEmpty(v)
  BY <1>8 DEF Enqueue, ForeignAdd, Time, IdleExpires, RetryDue, vars, worker, SameOrEmpty
<1> QED
  BY <1>1, <1>3, <1>4, <1>5, <1>6, <1>7, <1>8 DEF Next, Handles

(* What a dead-lettered job was before the step.                           *)
LEMMA BuriedOrigin ==
  ASSUME Core, [Next]_vars, NEW j \in Jobs, dead'[j] > 0
  PROVE  dead[j] > 0 \/ \E w \in Workers : at[w] = "bury" /\ JobOf(msg[w]) = j
<1>1. ASSUME NEW w \in Workers, Bury(w)
      PROVE  dead[j] > 0 \/ (at[w] = "bury" /\ JobOf(msg[w]) = j)
  BY <1>1 DEF Bury, Core, TypeOK
<1>2. CASE UNCHANGED dead
  BY <1>2
<1> QED
  BY <1>1, <1>2
  DEF Next, Enqueue, ForeignAdd, Polls, EnsureGroup, RecoverOwn, Recovered, Promote,
      AutoClaim, NothingToClaim, ReadNew, NothingNew, Reconnect, Handles, HandlerOk,
      HandlerErr, Exhausted, Ack, Reschedule, CallFails, Crash, Restart, Time,
      IdleExpires, RetryDue, vars, redis

LEMMA AttemptStep ==
  ASSUME Core, AttemptInv, [Next]_vars
  PROVE  AttemptInv'
<1>0. /\ Core' /\ TypeOK /\ TypeOK' /\ Grows /\ MaxAttempts \in Nat
      /\ \A j \in Jobs : failures[j] \in Nat /\ failures'[j] \in Nat /\ failures[j] <= failures'[j]
      /\ \A p \in Load : p.job \in Jobs /\ p.attempt \in Nat
      /\ \A j \in Jobs : [job |-> j, attempt |-> 0] \in Load
  BY CoreStep, Growth, QueueAssumption DEF Core, TypeOK, Grows, Load
<1>1. ASSUME NEW w \in Workers, at[w] \in Failed
      PROVE  /\ msg[w] \in Ids /\ log'[msg[w]] = log[msg[w]] /\ log[msg[w]] \in Load
             /\ log[msg[w]].attempt < failures[log[msg[w]].job]
             /\ log[msg[w]].attempt < failures'[log[msg[w]].job]
  <2>1. /\ msg[w] \in Ids /\ msg[w] <= lastId /\ log[msg[w]] \in Load
    BY <1>1, InHand, QueueAssumption DEF Failed, Handling, Core, TypeOK, Ids
  <2>2. log[msg[w]].attempt < failures[log[msg[w]].job]
    BY <1>1 DEF AttemptInv, Failed, JobOf
  <2> QED
    BY <1>0, <2>1, <2>2 DEF Grows
<1>2. ASSUME NEW p \in retry PROVE p \in Load /\ p.attempt <= failures'[p.job]
  <2>1. p \in Load /\ p.attempt <= failures[p.job]
    BY <1>0 DEF AttemptInv, TypeOK
  <2> QED
    BY <1>0, <2>1
<1>3. ASSUME NEW i \in Ids, log'[i] \in Load PROVE log'[i].attempt <= failures'[log'[i].job]
  <2>1. CASE log'[i] = log[i]
    <3>1. log[i].attempt <= failures[log[i].job]
      BY <1>3, <2>1 DEF AttemptInv, IsJob, JobOf
    <3> QED
      BY <1>0, <1>3, <2>1, <3>1
  <2>2. CASE \E j \in Jobs : log'[i] = [job |-> j, attempt |-> 0]
    BY <1>0, <2>2
  <2>3. CASE log'[i] \in retry
    BY <1>2, <2>3
  <2>4. log'[i] # Poison
    BY <1>3, QueueAssumption
  <2> QED
    BY <2>1, <2>2, <2>3, <2>4, Origins DEF FromBefore
<1>4. ASSUME NEW p \in retry' PROVE p.attempt <= failures'[p.job]
  <2>1. ASSUME NEW w \in Workers, at[w] = "retry", p = Again(msg[w])
        PROVE  p.attempt <= failures'[p.job]
    <3>1. /\ log[msg[w]] \in Load
          /\ log[msg[w]].attempt < failures'[log[msg[w]].job]
      BY <1>1, <2>1 DEF Failed
    <3>2. p.job = log[msg[w]].job /\ p.attempt = log[msg[w]].attempt + 1
      BY <2>1, <3>1 DEF Again, Load
    <3> QED
      BY <1>0, <3>1, <3>2
  <2> QED
    BY <1>2, <2>1, Origins DEF FromBefore
<1>5. ASSUME NEW w \in Workers, at'[w] \in Failed
      PROVE  log'[msg'[w]].attempt < failures'[log'[msg'[w]].job]
  <2>1. CASE at[w] \in Failed
    BY <1>1, <1>5, <2>1, FailedOrigin DEF WasFailed
  <2>2. CASE HandlerErr(w)
    <3>1. /\ msg[w] \in Ids /\ log[msg[w]] \in Load /\ log[msg[w]].job \in Jobs
      BY <1>0, <2>2, InHand DEF HandlerErr, Handling
    <3>2. log[msg[w]].attempt <= failures[log[msg[w]].job]
      BY <3>1 DEF AttemptInv, IsJob, JobOf
    <3>3. failures'[log[msg[w]].job] = failures[log[msg[w]].job] + 1 /\ UNCHANGED <<log, msg>>
      BY <1>0, <2>2, <3>1 DEF HandlerErr, JobOf, TypeOK, redis
    <3> QED
      BY <1>0, <3>1, <3>2, <3>3
  <2> QED
    BY <1>5, <2>1, <2>2, FailedOrigin DEF WasFailed
<1>6. ASSUME NEW j \in Jobs, dead'[j] > 0
      PROVE  failures'[j] >= MaxAttempts /\ j \in marked'
  <2>1. CASE dead[j] > 0
    <3>1. failures[j] >= MaxAttempts /\ j \in marked
      BY <2>1 DEF AttemptInv, NoEarlyBurial
    <3> QED
      BY <1>0, <3>1 DEF Grows
  <2>2. ASSUME NEW w \in Workers, at[w] = "bury", JobOf(msg[w]) = j
        PROVE  failures'[j] >= MaxAttempts /\ j \in marked'
    <3>1. /\ log[msg[w]] \in Load /\ log[msg[w]].attempt < failures'[j]
      BY <1>1, <2>2 DEF Failed, JobOf
    <3>2. log[msg[w]].attempt + 1 >= MaxAttempts /\ j \in marked
      BY <2>2 DEF Core, HandsInv, InHands, Last
    <3> QED
      BY <1>0, <3>1, <3>2 DEF Grows
  <2> QED
    BY <1>6, <2>1, <2>2, BuriedOrigin
<1> QED
  BY <1>3, <1>4, <1>5, <1>6 DEF AttemptInv, NoEarlyBurial, IsJob, JobOf, Failed

LEMMA AttemptInit == Init => AttemptInv
BY QueueAssumption DEF Init, AttemptInv, NoEarlyBurial, IsJob

LEMMA AttemptInvariant == Spec => []AttemptInv
<1>1. Core /\ AttemptInv /\ [Next]_vars => AttemptInv'
  BY AttemptStep
<1> QED
  BY <1>1, AttemptInit, CoreInvariant, PTL DEF Spec

(* A job is dead-lettered only after MaxAttempts handler errors and after  *)
(* its exhausted callback, through crashes, lost replies, calls sent twice *)
(* and workers that grade one entry together.                              *)
THEOREM BurialIsLate == Spec => []NoEarlyBurial
<1>1. AttemptInv => NoEarlyBurial
  BY DEF AttemptInv
<1> QED
  BY <1>1, AttemptInvariant, PTL
=============================================================================
