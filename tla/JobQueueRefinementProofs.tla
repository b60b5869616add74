--------------------- MODULE JobQueueRefinementProofs ---------------------
(***************************************************************************)
(* JobQueue implements the safety part of JobDelivery, for every number of *)
(* jobs, workers, attempts and faults, when handling fits in ClaimIdle and *)
(* no call is sent twice.                                                  *)
(***************************************************************************)
EXTENDS JobQueueRefinement, JobQueueCopyProofs

HeldBy(j) == Holding(j) # {} \/ Retries(j) # {}

LEMMA HeldByCopies == HeldJobs = {j \in Jobs : HeldBy(j)}
BY DEF HeldJobs, HeldBy, Holding, Retries, InStream, InRetry

(* A dead-lettered job was accepted and has no copy left.                  *)
BuriedInv == \A j \in Buried : j \in enqueued /\ j \notin HeldJobs

RefinementInv == Core /\ AttemptInv /\ OwnershipInv /\ CopyInv /\ BuriedInv

(* What the refinement mapping is made of, when no step touches it.        *)
LEMMA SameHeld ==
  ASSUME UNCHANGED Copies
  PROVE  UNCHANGED HeldJobs
BY DEF Copies, HeldJobs, InStream, InRetry, IsJob, JobOf

Told == <<enqueued, dead, succeeded, failures>>

LEMMA Stutters ==
  ASSUME UNCHANGED HeldJobs, UNCHANGED Told
  PROVE  UNCHANGED Delivery!vars /\ UNCHANGED Buried
BY DEF Told, Delivery!vars, Buried

(* An entry that does not go away keeps its job held.                      *)
LEMMA StillHeld ==
  ASSUME Core, Grows, NEW j \in Jobs, NEW i \in Holding(j), i \in stream'
  PROVE  j \in HeldJobs'
<1>1. i \in stream /\ IsJob(i) /\ JobOf(i) = j
  BY DEF Holding
<1>2. IsJob(i)' /\ JobOf(i)' = j
  BY <1>1, EntryStays
<1> QED
  BY <1>2 DEF HeldJobs, InStream

(* Where a held job is held after the step.                                *)
LEMMA HeldAfter ==
  ASSUME NEW j \in Jobs
  PROVE  j \in HeldJobs' <=> \/ \E i \in stream' : IsJob(i)' /\ JobOf(i)' = j
                             \/ \E p \in retry' : p.job = j
BY DEF HeldJobs, InStream, InRetry

LEMMA EnqueueHeld ==
  ASSUME RefinementInv, ~Resend, [Next]_vars, NEW k \in Jobs, Enqueue(k)
  PROVE  k \notin enqueued /\ k \notin HeldJobs /\ HeldJobs' = HeldJobs \cup {k}
<1>0. /\ Core /\ Grows /\ Known /\ TypeOK /\ TypeOK' /\ lastId \in Nat /\ MaxId \in Nat
  BY CoreStep, Growth, QueueAssumption DEF RefinementInv, Core, TypeOK, CopyInv
<1>1. PICK n \in Ids : /\ stream' = stream \cup {n}
                       /\ log'[n] = [job |-> k, attempt |-> 0]
                       /\ k \notin enqueued /\ UNCHANGED retry
  BY <1>0, QueueAssumption DEF Enqueue, XAdd, TypeOK, Ids
<1>2. k \notin HeldJobs
  BY <1>0, <1>1 DEF HeldJobs, InStream, InRetry, Known, TypeOK
<1>3. [job |-> k, attempt |-> 0] \in Load
  BY QueueAssumption DEF Load
<1>4. k \in HeldJobs'
  BY <1>1, <1>3, HeldAfter DEF IsJob, JobOf
<1>5. ASSUME NEW j \in Jobs, j # k PROVE j \in HeldJobs' <=> j \in HeldJobs
  <2>1. \A i \in stream : (IsJob(i)' <=> IsJob(i)) /\ JobOf(i)' = JobOf(i)
    BY <1>0, EntryStays
  <2>2. JobOf(n)' # j
    BY <1>1, <1>5 DEF JobOf
  <2> QED
    BY <1>1, <2>1, <2>2, HeldAfter DEF HeldJobs, InStream, InRetry
<1>6. HeldJobs' \subseteq Jobs /\ HeldJobs \subseteq Jobs
  BY DEF HeldJobs
<1> QED
  BY <1>1, <1>2, <1>4, <1>5, <1>6

LEMMA ForeignHeld ==
  ASSUME RefinementInv, [Next]_vars, ForeignAdd
  PROVE  UNCHANGED HeldJobs
<1>0. Core /\ Grows /\ TypeOK /\ lastId \in Nat /\ MaxId \in Nat
  BY Growth, QueueAssumption DEF RefinementInv, Core, TypeOK
<1>1. PICK n \in Ids : /\ stream' = stream \cup {n} /\ log'[n] = Poison
                       /\ UNCHANGED retry
  BY <1>0, QueueAssumption DEF ForeignAdd, XAdd, TypeOK, Ids
<1>2. \A i \in stream : (IsJob(i)' <=> IsJob(i)) /\ JobOf(i)' = JobOf(i)
  BY <1>0, EntryStays
<1>3. ~IsJob(n)'
  BY <1>1, QueueAssumption DEF IsJob
<1>4. \A j \in Jobs : j \in HeldJobs' <=> j \in HeldJobs
  BY <1>1, <1>2, <1>3, HeldAfter DEF HeldJobs, InStream, InRetry
<1> QED
  BY <1>4 DEF HeldJobs

LEMMA PromoteHeld ==
  ASSUME RefinementInv, [Next]_vars, NEW w \in Workers, Promote(w)
  PROVE  UNCHANGED HeldJobs
<1>0. Core /\ Grows /\ TypeOK
  BY Growth DEF RefinementInv, Core
<1>1. PICK S, new : Moves(S, new)
  BY <1>0, PromoteMoves
<1>2. /\ S \subseteq retry /\ retry' = retry \ S /\ stream' = stream \cup new
      /\ retry \subseteq Load
  BY <1>0, <1>1 DEF Moves, TypeOK
<1>3. \A i \in stream : (IsJob(i)' <=> IsJob(i)) /\ JobOf(i)' = JobOf(i)
  BY <1>0, EntryStays
<1>4. ASSUME NEW j \in Jobs, j \in HeldJobs PROVE j \in HeldJobs'
  <2>1. CASE InStream(j)
    BY <1>2, <1>3, <2>1, HeldAfter DEF InStream
  <2>2. ASSUME NEW p \in retry, p.job = j PROVE j \in HeldJobs'
    <3>1. CASE p \in S
      <4>1. PICK i \in new : log'[i] = p
        BY <1>1, <3>1 DEF Moves
      <4>2. IsJob(i)' /\ JobOf(i)' = j
        BY <1>2, <2>2, <4>1 DEF IsJob, JobOf
      <4> QED
        BY <1>2, <4>2, HeldAfter
    <3>2. CASE p \notin S
      BY <1>2, <2>2, <3>2, HeldAfter
    <3> QED
      BY <3>1, <3>2
  <2> QED
    BY <1>4, <2>1, <2>2 DEF HeldJobs, InRetry
<1>5. ASSUME NEW j \in Jobs, j \in HeldJobs' PROVE j \in HeldJobs
  <2>1. ASSUME NEW i \in stream', IsJob(i)', JobOf(i)' = j PROVE j \in HeldJobs
    <3>1. CASE i \in stream
      BY <1>3, <2>1, <3>1 DEF HeldJobs, InStream
    <3>2. CASE i \notin stream
      <4>1. log'[i] \in retry /\ log'[i].job = j
        BY <1>1, <1>2, <2>1, <3>2 DEF Moves, JobOf
      <4> QED
        BY <4>1 DEF HeldJobs, InRetry
    <3> QED
      BY <3>1, <3>2
  <2>2. ASSUME NEW p \in retry', p.job = j PROVE j \in HeldJobs
    BY <1>2, <2>2 DEF HeldJobs, InRetry
  <2> QED
    BY <1>5, <2>1, <2>2, HeldAfter
<1>6. HeldJobs' \subseteq Jobs /\ HeldJobs \subseteq Jobs
  BY DEF HeldJobs
<1> QED
  BY <1>4, <1>5, <1>6

(* Removing an entry lets go of its job, unless it is rescheduled.         *)
LEMMA RemoveHeld ==
  ASSUME RefinementInv, [Next]_vars, NEW w \in Workers, Removing(w),
         log[msg[w]] \in Load
  PROVE  /\ JobOf(msg[w]) \in HeldJobs
         /\ HeldJobs' = IF UNCHANGED retry THEN HeldJobs \ {JobOf(msg[w])} ELSE HeldJobs
<1> DEFINE k == JobOf(msg[w])
<1>0. Core /\ Grows /\ TypeOK /\ SingleCopy /\ k \in Jobs
  BY Growth DEF RefinementInv, Core, CopyInv, JobOf, Load
<1>1. msg[w] \in Ids /\ msg[w] \in stream /\ stream' = stream \ {msg[w]}
  BY HeldEntry DEF RefinementInv, Removing, Remove, Handling
<1>2. msg[w] \in Holding(k) /\ k \in HeldJobs
  BY <1>0, <1>1 DEF Holding, IsJob, HeldJobs, InStream
<1>3. Retries(k) = {} /\ \A i \in Holding(k) : i = msg[w]
  BY <1>0, <1>2, SingleByJob
<1>4. \A i \in stream : (IsJob(i)' <=> IsJob(i)) /\ JobOf(i)' = JobOf(i)
  BY <1>0, EntryStays
<1>5. \A p \in retry' : p \in retry \/ p.job = k
  <2>1. Again(msg[w]).job = k
    BY DEF Again, JobOf, Load
  <2> QED
    BY <2>1 DEF Removing
<1>6. retry \subseteq retry'
  BY DEF Removing
<1>7. ASSUME NEW j \in Jobs, j # k PROVE j \in HeldJobs' <=> j \in HeldJobs
  <2>1. \A i \in stream : IsJob(i) /\ JobOf(i) = j => i # msg[w]
    BY <1>7
  <2> HIDE DEF k
  <2> QED
    BY <1>1, <1>4, <1>5, <1>6, <1>7, <2>1, HeldAfter DEF HeldJobs, InStream, InRetry
<1>8. CASE UNCHANGED retry
  <2>1. k \notin HeldJobs'
    <3> HIDE DEF k
    <3> QED
      BY <1>0, <1>1, <1>3, <1>4, <1>8, HeldAfter DEF Holding, Retries
  <2> HIDE DEF k
  <2>2. HeldJobs' = HeldJobs \ {k}
    BY <1>7, <2>1 DEF HeldJobs
  <2> QED
    BY <1>2, <1>8, <2>2 DEF k
<1>9. CASE ~UNCHANGED retry
  <2>1. Again(msg[w]) \in retry' /\ Again(msg[w]).job = k
    BY <1>9 DEF Removing, Again, JobOf, Load
  <2>2. k \in HeldJobs'
    <3> HIDE DEF k
    <3> QED
      BY <1>0, <2>1, HeldAfter
  <2> HIDE DEF k
  <2>3. HeldJobs' = HeldJobs
    BY <1>2, <1>7, <2>2 DEF HeldJobs
  <2> QED
    BY <1>2, <1>9, <2>3 DEF k
<1> QED
  BY <1>8, <1>9

(* A removal that takes no load is of a poison message.                    *)
LEMMA PoisonHeld ==
  ASSUME RefinementInv, [Next]_vars, NEW w \in Workers, Removing(w), UNCHANGED retry,
         log[msg[w]] \notin Load
  PROVE  UNCHANGED HeldJobs
<1>0. Core /\ Grows
  BY Growth DEF RefinementInv
<1>1. stream' = stream \ {msg[w]} /\ ~IsJob(msg[w])
  BY DEF Removing, Remove, IsJob
<1>2. \A i \in stream : (IsJob(i)' <=> IsJob(i)) /\ JobOf(i)' = JobOf(i)
  BY <1>0, EntryStays
<1>3. \A j \in Jobs : j \in HeldJobs' <=> j \in HeldJobs
  BY <1>1, <1>2, HeldAfter DEF HeldJobs, InStream, InRetry
<1> QED
  BY <1>3 DEF HeldJobs

(* A rescheduled job goes from the stream to the retry set.                *)
LEMMA RescheduleHeld ==
  ASSUME RefinementInv, [Next]_vars, NEW w \in Workers, Reschedule(w)
  PROVE  UNCHANGED HeldJobs
<1>0. /\ Removing(w) /\ at[w] = "retry"
      /\ retry' = retry \cup {Again(msg[w])}
  BY DEF Reschedule, Removing, history
<1>1. log[msg[w]] \in Load /\ msg[w] \in stream
  BY <1>0, InHand, HeldEntry DEF RefinementInv, Handling
<1>2. ~UNCHANGED retry
  <2>1. Again(msg[w]).job = JobOf(msg[w])
    BY <1>1 DEF Again, JobOf, Load
  <2>2. Retries(JobOf(msg[w])) = {}
    <3>1. msg[w] \in Holding(JobOf(msg[w])) /\ JobOf(msg[w]) \in Jobs
      BY <1>1 DEF Holding, IsJob, JobOf, Load
    <3> QED
      BY <3>1, SingleByJob DEF RefinementInv, CopyInv
  <2> QED
    BY <1>0, <2>1, <2>2 DEF Retries
<1> QED
  BY <1>0, <1>1, <1>2, RemoveHeld

-----------------------------------------------------------------------------
(* Each step of the queue, seen from JobDelivery.                          *)

DeliveryStep == [Delivery!Next]_(Delivery!vars) /\ BuriedInv'

LEMMA StutterStep ==
  ASSUME BuriedInv, UNCHANGED HeldJobs, UNCHANGED Told
  PROVE  DeliveryStep
<1>1. UNCHANGED Delivery!vars /\ UNCHANGED Buried /\ UNCHANGED enqueued
  BY Stutters DEF Told
<1> QED
  BY <1>1 DEF DeliveryStep, BuriedInv

LEMMA TakeStep ==
  ASSUME RefinementInv, ~Resend, [Next]_vars, NEW k \in Jobs, Enqueue(k)
  PROVE  DeliveryStep
<1>1. k \notin enqueued /\ k \notin HeldJobs /\ HeldJobs' = HeldJobs \cup {k}
  BY EnqueueHeld
<1>2. /\ enqueued' = enqueued \cup {k} /\ UNCHANGED <<dead, succeeded, failures>>
      /\ Buried' = Buried
  BY DEF Enqueue, Buried
<1>3. k \notin Buried
  BY <1>1 DEF RefinementInv, BuriedInv
<1>4. Delivery!Take(k)
  BY <1>1, <1>2, <1>3 DEF Delivery!Take
<1>5. BuriedInv'
  BY <1>1, <1>2, <1>3 DEF RefinementInv, BuriedInv
<1> QED
  BY <1>4, <1>5 DEF DeliveryStep, Delivery!Next

LEMMA AttemptDelivered ==
  ASSUME RefinementInv, [Next]_vars, NEW w \in Workers,
         HandlerOk(w) \/ HandlerErr(w) \/ Exhausted(w)
  PROVE  DeliveryStep
<1> DEFINE k == JobOf(msg[w])
<1>0. at[w] \in Handling \ {"ack"} /\ UNCHANGED Copies /\ UNCHANGED <<enqueued, dead>>
  BY DEF HandlerOk, HandlerErr, Exhausted, Handling, redis, Copies
<1>1. /\ k \in Jobs /\ log[msg[w]] \in Load /\ msg[w] \in stream
  BY <1>0, InHand, HeldEntry DEF RefinementInv
<1>2. k \in HeldJobs
  BY <1>1 DEF HeldJobs, InStream, IsJob
<1>3. HeldJobs' = HeldJobs /\ Buried' = Buried
  BY <1>0, SameHeld DEF Buried
<1>4. CASE HandlerOk(w)
  <2>1. succeeded' = succeeded \cup {k} /\ failures' = failures
    BY <1>4 DEF HandlerOk
  <2> HIDE DEF k
  <2>2. Delivery!Succeed(k)
    BY <1>0, <1>2, <1>3, <2>1 DEF Delivery!Succeed
  <2> QED
    BY <1>0, <1>1, <1>3, <2>2
    DEF DeliveryStep, Delivery!Next, Delivery!Attempt, RefinementInv, BuriedInv
<1>5. CASE HandlerErr(w)
  <2>1. failures' = [failures EXCEPT ![k] = @ + 1] /\ succeeded' = succeeded
    BY <1>5 DEF HandlerErr
  <2> HIDE DEF k
  <2>2. Delivery!Fail(k)
    BY <1>0, <1>2, <1>3, <2>1 DEF Delivery!Fail
  <2> QED
    BY <1>0, <1>1, <1>3, <2>2
    DEF DeliveryStep, Delivery!Next, Delivery!Attempt, RefinementInv, BuriedInv
<1>6. CASE Exhausted(w)
  BY <1>0, <1>3, <1>6, StutterStep DEF Exhausted, Told, RefinementInv
<1> QED
  BY <1>4, <1>5, <1>6

LEMMA AckDelivered ==
  ASSUME RefinementInv, [Next]_vars, NEW w \in Workers, Ack(w)
  PROVE  DeliveryStep
<1> DEFINE k == JobOf(msg[w])
<1>0. /\ Removing(w) /\ UNCHANGED retry /\ UNCHANGED Told /\ UNCHANGED Buried
      /\ at[w] = "ack"
  BY DEF Ack, Removing, history, Told, Buried
<1>1. log[msg[w]] = Poison \/ k \in succeeded
  BY <1>0 DEF RefinementInv, Core, HandsInv, InHands
<1>2. CASE log[msg[w]] \notin Load
  BY <1>0, <1>2, PoisonHeld, StutterStep DEF RefinementInv
<1>3. CASE log[msg[w]] \in Load
  <2>1. k \in Jobs /\ k \in HeldJobs /\ HeldJobs' = HeldJobs \ {k}
    BY <1>0, <1>3, RemoveHeld DEF JobOf, Load
  <2>2. k \in succeeded
    BY <1>1, <1>3, QueueAssumption
  <2>3. k \in enqueued /\ k \notin Buried
    BY <2>1 DEF RefinementInv, CopyInv, Known, HeldJobs, InStream, InRetry, BuriedInv, Core, TypeOK
  <2> HIDE DEF k
  <2>4. UNCHANGED <<enqueued, succeeded, failures>>
    BY <1>0 DEF Told
  <2>5. Delivery!Finish(k)
    BY <1>0, <2>1, <2>2, <2>3, <2>4 DEF Delivery!Finish
  <2>6. BuriedInv'
    BY <1>0, <2>1, <2>4 DEF RefinementInv, BuriedInv
  <2> QED
    BY <2>1, <2>5, <2>6 DEF DeliveryStep, Delivery!Next, Delivery!LetGo
<1> QED
  BY <1>2, <1>3

LEMMA BuryDelivered ==
  ASSUME RefinementInv, [Next]_vars, NEW w \in Workers, Bury(w)
  PROVE  DeliveryStep
<1> DEFINE k == JobOf(msg[w])
<1>0. /\ Removing(w) /\ UNCHANGED retry /\ UNCHANGED <<enqueued, succeeded, failures>>
      /\ at[w] = "bury" /\ dead' = [dead EXCEPT ![k] = @ + 1]
  BY DEF Bury, Removing, history
<1>1. log[msg[w]] \in Load /\ Core
  BY <1>0, InHand DEF RefinementInv, Handling
<1>2. k \in Jobs /\ k \in HeldJobs /\ HeldJobs' = HeldJobs \ {k}
  BY <1>0, <1>1, RemoveHeld DEF JobOf, Load
<1>3. failures[k] >= MaxAttempts
  <2>1. /\ log[msg[w]].attempt + 1 >= MaxAttempts
        /\ log[msg[w]].attempt < failures[k]
    BY <1>0 DEF RefinementInv, Core, HandsInv, InHands, Last, AttemptInv
  <2>2. log[msg[w]].attempt \in Nat /\ failures[k] \in Nat /\ MaxAttempts \in Nat
    BY <1>1, <1>2, QueueAssumption DEF Core, TypeOK, Load
  <2> QED
    BY <2>1, <2>2
<1>4. k \in enqueued
  BY <1>2 DEF RefinementInv, CopyInv, Known, HeldJobs, InStream, InRetry, Core, TypeOK
<1> HIDE DEF k
<1>5. Buried' = Buried \cup {k}
  <2>1. dead \in [Jobs -> Nat]
    BY <1>1 DEF Core, TypeOK
  <2>2. /\ dead'[k] > 0 /\ \A j \in Jobs \ {k} : dead'[j] = dead[j]
    BY <1>0, <1>2, <2>1
  <2> QED
    BY <1>2, <2>2 DEF Buried
<1>6. Delivery!GiveUp(k)
  BY <1>0, <1>2, <1>3, <1>5 DEF Delivery!GiveUp
<1>7. BuriedInv'
  BY <1>0, <1>2, <1>4, <1>5 DEF RefinementInv, BuriedInv
<1> QED
  BY <1>2, <1>6, <1>7 DEF DeliveryStep, Delivery!Next, Delivery!LetGo

LEMMA RefinementStep ==
  ASSUME RefinementInv, Timely, ~Resend, [Next]_vars
  PROVE  RefinementInv' /\ [Delivery!Next]_(Delivery!vars)
<1>1. ASSUME NEW j \in Jobs, Enqueue(j) PROVE DeliveryStep
  BY <1>1, TakeStep
<1>2. ASSUME ForeignAdd PROVE DeliveryStep
  BY <1>2, ForeignHeld, StutterStep DEF ForeignAdd, history, Told, RefinementInv
<1>3. ASSUME NEW w \in Workers, Polls(w) PROVE DeliveryStep
  <2>1. CASE Promote(w)
    BY <2>1, PromoteHeld, StutterStep DEF Promote, history, Told, RefinementInv
  <2>2. CASE ~Promote(w)
    <3>1. UNCHANGED Copies /\ UNCHANGED Told
      BY <1>3, <2>2
      DEF Polls, EnsureGroup, RecoverOwn, Recovered, AutoClaim, NothingToClaim, ReadNew,
          NothingNew, Reconnect, redis, history, Copies, Told
    <3> QED
      BY <3>1, SameHeld, StutterStep DEF RefinementInv
  <2> QED
    BY <2>1, <2>2
<1>4. ASSUME NEW w \in Workers, Handles(w) PROVE DeliveryStep
  BY <1>4, AttemptDelivered, AckDelivered, RescheduleHeld, StutterStep, BuryDelivered
  DEF Handles, Reschedule, history, Told, RefinementInv
<1>5. ASSUME UNCHANGED Copies, UNCHANGED Told PROVE DeliveryStep
  BY <1>5, SameHeld, StutterStep DEF RefinementInv
<1>6. ASSUME NEW w \in Workers, CallFails(w) PROVE DeliveryStep
  BY <1>5, <1>6 DEF CallFails, redis, history, Copies, Told
<1>7. ASSUME NEW P \in Processes, Crash(P) \/ Restart(P) PROVE DeliveryStep
  BY <1>5, <1>7 DEF Crash, Restart, redis, history, Copies, Told
<1>8. ASSUME Time \/ UNCHANGED vars PROVE DeliveryStep
  BY <1>5, <1>8 DEF Time, IdleExpires, RetryDue, vars, redis, history, Copies, Told
<1>9. DeliveryStep
  BY <1>1, <1>2, <1>3, <1>4, <1>6, <1>7, <1>8 DEF Next
<1> QED
  BY <1>9, CoreStep, AttemptStep, OwnershipStep, CopyStep DEF RefinementInv, DeliveryStep

LEMMA RefinementStarts == Init => RefinementInv /\ Delivery!Init
<1> SUFFICES ASSUME Init PROVE RefinementInv /\ Delivery!Init
  OBVIOUS
<1>1. OwnershipInv /\ CopyInv
  BY QueueAssumption
  DEF Init, OwnershipInv, ExclusiveHandling, Busy, CopyInv, Known, SingleCopy, IsJob,
      InStream, InRetry
<1>2. HeldJobs = {} /\ Buried = {}
  BY DEF Init, HeldJobs, Buried, InStream, InRetry
<1> QED
  BY <1>1, <1>2, CoreInit, AttemptInit DEF Init, RefinementInv, BuriedInv, Delivery!Init

LEMMA RefinementInvariant == ASSUME Timely, ~Resend PROVE Spec => []RefinementInv
<1>1. RefinementInv /\ [Next]_vars => RefinementInv'
  BY RefinementStep
<1> QED
  BY <1>1, RefinementStarts, PTL DEF Spec

(* The queue keeps the promise of JobDelivery: a job is taken once,        *)
(* attempted while it is held, and let go only when an attempt succeeded   *)
(* or MaxAttempts of them failed.  (That held jobs are attempted and let   *)
(* go at last is liveness, and only model-checked.)                        *)
THEOREM DeliveryIsSafe == ASSUME Timely, ~Resend PROVE Spec => Delivery!Safety
<1>1. RefinementInv /\ [Next]_vars => RefinementInv' /\ [Delivery!Next]_(Delivery!vars)
  BY RefinementStep
<1> QED
  BY <1>1, RefinementStarts, PTL DEF Spec, Delivery!Safety
=============================================================================
