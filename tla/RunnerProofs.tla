---------------------------- MODULE RunnerProofs ----------------------------
(***************************************************************************)
(* Proofs about Runner, for any number of testcases, time limits, sizes of *)
(* the buffers, of the marker and of a write, and exit codes: its types,   *)
(* what a verdict says of the program, the containers, and the outcome.    *)
(***************************************************************************)
EXTENDS Runner, DataLemmas

-----------------------------------------------------------------------------
(* The inductive invariant.                                                *)

Buffers == [kept : 0..OutputLimit, over : BOOLEAN]
RunRows == [box : BOOLEAN, out : Buffers, err : Buffers, wrote : [out : Nat, err : Nat],
            added : SUBSET Markers, printed : SUBSET Markers, age : 0..limit + Grace, ran : 0..limit,
            code : -1..255, broken : BOOLEAN, killed : BOOLEAN]
ResultRows == [verdict : Verdicts, code : -1..255, ran : Nat, killed : BOOLEAN, left : BOOLEAN,
               broken : BOOLEAN, printed : BOOLEAN, cut : BOOLEAN, big : BOOLEAN]

RunTyped ==
  /\ tests \in 0..MaxTests /\ limit \in 1..Positive(MaxTime, 1)
  /\ phase \in Phases
  /\ run \in RunRows /\ results \in Seq(ResultRows)
  /\ outcome \in [status : Statuses \cup {"none", "error"}, score : 0..100]

(* How far the job is.                                                     *)
Places ==
  /\ Len(results) <= tests
  /\ phase \in {"prepare", "starting", "running", "closing", "ended"} => Len(results) < tests
  /\ phase = "removing" => results # <<>>

(* A buffer holds all that was written to it, or says that it does not.    *)
Holds(b, w) == /\ b.over <=> w > OutputLimit
               /\ b.kept = IF b.over THEN OutputLimit ELSE w

(* The streams; the wrapper has added to stderr once the CLI succeeds.     *)
Streams ==
  /\ Holds(run.out, run.wrote.out)
  /\ phase = "running" => Holds(run.err, run.wrote.err)
  /\ run.err.over => run.wrote.err + MarkerSize > OutputLimit
  /\ run.code = 0 => Holds(run.err, run.wrote.err + MarkerSize)

(* What each phase knows of the program.                                   *)
Progress ==
  /\ phase \in {"prepare", "starting"} => run.err = Empty /\ run.wrote.err = 0 /\ ~run.box
  /\ phase \in {"prepare", "starting", "running"} => run.code = -1 /\ ~run.killed /\ run.added = {}
  /\ phase = "closing" => ~run.killed /\ ~run.broken /\ run.code >= 0
  /\ phase = "ended" /\ ~run.killed /\ ~run.broken => run.code >= 0
  /\ phase \in {"prepare", "starting", "running"} => ~run.broken
  /\ "timeout" \in run.added => run.ran = limit

(* What a result says.                                                     *)
Says(t) ==
  /\ t.verdict = "accepted" => t.code = 0 /\ ~t.killed /\ ~t.cut /\ ~t.big
  /\ t.verdict = "output_limit_exceeded" => t.big
  /\ t.verdict = "time_limit_exceeded" => t.ran = limit \/ t.printed
  /\ t.verdict = "runtime_error" => ~t.killed /\ (t.code \in 1..124 \/ t.broken)
  /\ t.verdict = "system_error" => t.killed \/ t.code \notin 0..124

Judged == \A i \in DOMAIN results : Says(results[i])

Outcomes ==
  phase = "done" =>
    IF outcome.status = "error"
    THEN \A i \in DOMAIN results : results[i].verdict = "system_error"
    ELSE (outcome.score = 100) <=> (outcome.status = "accepted")

RunInv == RunTyped /\ Places /\ Streams /\ Progress /\ Judged /\ ContainerGone /\ Outcomes

-----------------------------------------------------------------------------
(* Operators.                                                              *)

(* Whatever the configuration and a problem say, the limit is positive and *)
(* at most the largest one.                                                *)
LEMMA CappedRange ==
  ASSUME NEW v \in Int
  PROVE  Capped(v, DefaultTime, MaxTime) \in 1..Positive(MaxTime, 1)
  BY RunnerAssumption DEF Capped, AtMost, Positive

(* A buffer that is written to still holds all, or says that it does not.  *)
LEMMA WrittenHolds ==
  ASSUME NEW b \in Buffers, NEW w \in Nat, NEW n \in Nat \ {0}, Holds(b, w)
  PROVE  Written(b, n) \in Buffers /\ Holds(Written(b, n), w + n)
<1>1. CASE n > OutputLimit - b.kept
  BY <1>1, RunnerAssumption DEF Written, Buffers, Holds
<1>2. CASE ~(n > OutputLimit - b.kept)
  <2>1. Written(b, n) = [kept |-> b.kept + n, over |-> b.over]
    BY <1>2 DEF Written, Buffers
  <2>2. ~b.over /\ b.kept = w /\ w + n <= OutputLimit
    BY <1>2, RunnerAssumption DEF Buffers, Holds
  <2> QED
    BY <2>1, <2>2, RunnerAssumption DEF Buffers, Holds
<1> QED
  BY <1>1, <1>2

LEMMA EmptyHolds == Empty \in Buffers /\ Holds(Empty, 0)
  BY RunnerAssumption DEF Empty, Buffers, Holds

LEMMA ReadyRow ==
  ASSUME limit \in Nat
  PROVE  /\ Ready \in RunRows
         /\ Ready.code = -1 /\ Ready.err = Empty /\ Ready.out = Empty
         /\ Ready.wrote = [out |-> 0, err |-> 0]
         /\ ~Ready.box /\ ~Ready.killed /\ ~Ready.broken /\ Ready.added = {}
  BY EmptyHolds, RunnerAssumption DEF Ready, RunRows

LEMMA LimitPositive ==
  ASSUME RunTyped
  PROVE  limit \in Nat /\ tests \in Nat /\ limit > 0 /\ Grace \in Nat
  BY RunnerAssumption DEF RunTyped, Positive

(* The part of t testcases that did not fail, in percent.                  *)
LEMMA Percent ==
  ASSUME NEW t \in Nat \ {0}, NEW f \in 0..t
  PROVE  /\ ((t - f) * 100) \div t \in 0..100
         /\ ((t - f) * 100) \div t = 100 <=> f = 0
<1> DEFINE q == ((t - f) * 100) \div t
<1>1. q \in Int /\ t * q <= (t - f) * 100 /\ (t - f) * 100 < t * q + t
  OBVIOUS
<1> HIDE DEF q
<1> QED
  BY <1>1

(* What GradeJob makes of the results of all testcases.                    *)
LEMMA Sum ==
  ASSUME RunTyped, tests > 0, Len(results) = tests
  PROVE  /\ Status \in Statuses /\ Score \in 0..100
         /\ (Score = 100) <=> (Status = "accepted")
<1>1. /\ tests \in Nat \ {0} /\ DOMAIN results = 1..tests
      /\ \A i \in 1..tests : results[i].verdict \in Verdicts
  <2>1. tests \in Nat /\ results \in Seq(ResultRows)
    BY LimitPositive DEF RunTyped
  <2>2. \A i \in 1..tests : results[i] \in ResultRows
    BY <2>1
  <2> QED
    BY <2>1, <2>2 DEF ResultRows
<1>2. IsFiniteSet(1..tests) /\ Cardinality(1..tests) = tests
  BY <1>1, FS_Interval
<1>3. Failed \subseteq 1..tests
  BY <1>1 DEF Failed
<1>4. IsFiniteSet(Failed) /\ Cardinality(Failed) \in 0..tests /\ (Cardinality(Failed) = 0 <=> Failed = {})
  <2>1. IsFiniteSet(Failed) /\ Cardinality(Failed) <= tests
    BY <1>2, <1>3, FS_Subset
  <2>2. Cardinality(Failed) \in Nat /\ (Cardinality(Failed) = 0 <=> Failed = {})
    BY <2>1, FS_CardinalityType, FS_EmptySet
  <2> QED
    BY <1>1, <2>1, <2>2
<1>5. Score \in 0..100 /\ (Score = 100 <=> Failed = {})
  BY <1>1, <1>4, Percent DEF Score
<1>6. CASE Failed = {}
  BY <1>5, <1>6 DEF Status, Statuses
<1>7. CASE Failed # {}
  <2> DEFINE i == CHOOSE i \in Failed : \A j \in Failed : i <= j
  <2>1. i \in Failed
    <3>1. Failed \in SUBSET Nat
      BY <1>1, <1>3
    <3>2. \E k \in Failed : \A j \in Failed : k <= j
      BY <1>7, <3>1, LeastNumber
    <3> QED
      BY <3>2, Zenon
  <2>2. Status = StatusOf(results[i].verdict)
    BY <1>7 DEF Status
  <2>3. results[i].verdict \in Verdicts \ {"accepted"}
    BY <1>1, <1>3, <2>1 DEF Failed
  <2> HIDE DEF i
  <2>4. Status \in Statuses /\ Status # "accepted"
    BY <2>2, <2>3 DEF StatusOf, Verdicts, Statuses
  <2> QED
    BY <1>5, <1>7, <2>4
<1> QED
  BY <1>6, <1>7

-----------------------------------------------------------------------------
(* Initially, and at every step.                                           *)

(* The types depend on the limit, which does not change.                   *)
LEMMA SameTypes ==
  ASSUME RunTyped, UNCHANGED <<tests, limit>>, phase' \in Phases, run' \in RunRows,
         results' \in Seq(ResultRows),
         outcome' \in [status : Statuses \cup {"none", "error"}, score : 0..100]
  PROVE  RunTyped'
<1>1. RunRows' = RunRows
  BY DEF RunRows, Buffers
<1>2. (run \in RunRows)' /\ (results \in Seq(ResultRows))'
  BY <1>1 DEF ResultRows
<1> QED
  BY <1>2 DEF RunTyped, Phases

LEMMA RunStarts == Init => RunInv
<1> SUFFICES ASSUME Init PROVE RunInv
  OBVIOUS
<1>1. limit \in 1..Positive(MaxTime, 1)
  BY CappedRange, RunnerAssumption DEF Init
<1>2. limit \in Nat
  BY <1>1, RunnerAssumption DEF Positive
<1>3. RunTyped
  BY <1>1, <1>2, ReadyRow DEF Init, RunTyped, Phases
<1>4. Places
  BY RunnerAssumption DEF Init, Places
<1>5. Streams
  <2>1. /\ run.code = -1 /\ run.err = Empty /\ run.out = Empty
        /\ run.wrote = [out |-> 0, err |-> 0] /\ phase = "next"
    BY <1>2, ReadyRow DEF Init
  <2> QED
    BY <2>1, EmptyHolds DEF Streams, Empty
<1>6. Progress
  BY <1>2, ReadyRow DEF Init, Progress
<1> QED
  BY <1>3, <1>4, <1>5, <1>6 DEF Init, RunInv, Judged, ContainerGone, Outcomes

(* Steps between two phases of a testcase.                                 *)
Working == phase \in {"prepare", "starting", "running", "closing", "ended"}

LEMMA Going ==
  ASSUME RunInv, Working, Working', run' \in RunRows, UNCHANGED <<tests, limit, results, outcome>>
  PROVE  RunTyped' /\ Places' /\ Judged' /\ ContainerGone' /\ Outcomes'
<1>1. RunTyped'
  <2>1. RunTyped /\ phase' \in Phases /\ results' \in Seq(ResultRows)
    BY DEF RunInv, RunTyped, Working, Phases
  <2> QED
    BY <2>1, SameTypes DEF RunTyped
<1>2. Places'
  BY DEF RunInv, Places, Working
<1>3. Judged'
  BY DEF RunInv, Judged, Says
<1> QED
  BY <1>1, <1>2, <1>3 DEF Working, ContainerGone, Outcomes

(* A testcase has a result.                                                *)
LEMMA Appending ==
  ASSUME RunInv, phase \in {"prepare", "ended"}, phase' \in {"next", "removing"},
         phase' = "next" => ~run'.box,
         NEW v \in Verdicts, Says(Result(v)), results' = Append(results, Result(v)),
         run' \in RunRows, Streams', Progress', UNCHANGED <<tests, limit, outcome>>
  PROVE  RunInv'
<1>1. RunTyped /\ tests \in Nat /\ results \in Seq(ResultRows) /\ run \in RunRows /\ Len(results) < tests
  BY LimitPositive DEF RunInv, RunTyped, Places
<1>2. Result(v) \in ResultRows
  BY <1>1, RunnerAssumption, LimitPositive DEF Result, ResultRows, RunRows, Buffers
<1>3. RunTyped'
  <2>1. results' \in Seq(ResultRows)
    BY <1>1, <1>2
  <2>2. phase' \in Phases
    BY DEF Phases
  <2> QED
    BY <1>1, <2>1, <2>2, SameTypes DEF RunTyped
<1>4. Len(results') = Len(results) + 1 /\ results' # <<>>
  BY <1>1, <1>2
<1>5. Places'
  BY <1>1, <1>4 DEF Places
<1>7. Judged'
  <2>1. \A i \in DOMAIN results' :
          results'[i] = Result(v) \/ (i \in DOMAIN results /\ results'[i] = results[i])
    BY <1>1, <1>2
  <2>2. \A i \in DOMAIN results' : Says(results'[i])
    BY <2>1 DEF RunInv, Judged
  <2> QED
    BY <2>2 DEF Judged, Says
<1>8. ContainerGone' /\ Outcomes'
  BY DEF ContainerGone, Outcomes
<1> QED
  BY <1>3, <1>5, <1>7, <1>8 DEF RunInv

LEMMA NextTestKeeps ==
  ASSUME RunInv, NextTest
  PROVE  RunInv'
<1>1. limit \in Nat /\ limit' = limit /\ run' = Ready /\ phase' = "prepare"
  BY LimitPositive DEF RunInv, NextTest
<1>2. RunTyped'
  <2>1. /\ RunTyped /\ UNCHANGED <<tests, limit, results, outcome>> /\ run' \in RunRows
        /\ phase' \in Phases
    BY <1>1, ReadyRow DEF RunInv, NextTest, Phases
  <2> QED
    BY <2>1, SameTypes DEF RunTyped
<1>3. Places' /\ Judged' /\ ContainerGone' /\ Outcomes'
  BY DEF RunInv, NextTest, Places, Judged, Says, ContainerGone, Outcomes
<1>4. Streams'
  BY <1>1, ReadyRow, EmptyHolds DEF Streams, Empty
<1>5. Progress'
  BY <1>1, ReadyRow DEF Progress
<1> QED
  BY <1>2, <1>3, <1>4, <1>5 DEF RunInv

LEMMA PrepareFailsKeeps ==
  ASSUME RunInv, PrepareFails
  PROVE  RunInv'
<1>1. run.code = -1 /\ ~run.box
  BY DEF RunInv, Progress, PrepareFails
<1>2. Says(Result("system_error"))
  BY <1>1 DEF Says, Result
<1>3. /\ phase = "prepare" /\ phase' \in {"next", "removing"} /\ UNCHANGED <<tests, limit, run, outcome>>
      /\ results' = Append(results, Result("system_error")) /\ run \in RunRows
  BY DEF PrepareFails, RunInv, RunTyped
<1>4. run' \in RunRows /\ Streams' /\ Progress'
  BY <1>1, <1>3 DEF RunInv, RunRows, Buffers, Streams, Progress, Holds
<1> QED
  BY <1>1, <1>2, <1>3, <1>4, Appending DEF Verdicts

LEMMA LaunchKeeps ==
  ASSUME RunInv, Start \/ Launch
  PROVE  RunInv'
<1>1. run \in RunRows /\ Streams /\ Progress
  BY DEF RunInv, RunTyped
<1>2. ASSUME Start PROVE RunInv'
  <2>1. RunTyped' /\ Places' /\ Judged' /\ ContainerGone' /\ Outcomes'
    BY <1>1, <1>2, Going DEF Start, Working
  <2> QED
    BY <1>1, <1>2, <2>1 DEF Start, RunInv, Streams, Progress, Holds
<1>3. ASSUME Launch PROVE RunInv'
  <2>1. /\ phase = "starting" /\ phase' = "running" /\ UNCHANGED <<tests, limit, results, outcome>>
        /\ run' = [run EXCEPT !.box = TRUE]
    BY <1>3 DEF Launch, Go
  <2>2. run' \in RunRows /\ run'.code = run.code /\ run'.err = run.err /\ run'.out = run.out
        /\ run'.wrote = run.wrote /\ run'.added = run.added /\ run'.killed = run.killed
        /\ run'.ran = run.ran /\ run'.broken = run.broken
    BY <1>1, <2>1 DEF RunRows
  <2>3. RunTyped' /\ Places' /\ Judged' /\ ContainerGone' /\ Outcomes'
    BY <2>1, <2>2, Going DEF Working
  <2>4. Holds(run'.err, run'.wrote.err)
    BY <1>1, <2>1, <2>2, EmptyHolds DEF Progress
  <2> QED
    BY <1>1, <2>1, <2>2, <2>3, <2>4 DEF RunInv, Streams, Progress, Holds
<1> QED
  BY <1>2, <1>3

(* docker fails: it has a code that is not 0, or none.                     *)
LEMMA DockerFailsKeeps ==
  ASSUME RunInv, DockerFails
  PROVE  RunInv'
<1>1. /\ run \in RunRows /\ Streams /\ Progress
      /\ phase \in {"starting", "running", "closing"} /\ phase' = "ended"
      /\ UNCHANGED <<tests, limit, results, outcome>>
  BY DEF RunInv, RunTyped, DockerFails, Go
<1>2. PICK c \in DockerCodes \cup {-1}, b \in BOOLEAN :
        run' = [run EXCEPT !.broken = TRUE, !.code = c, !.box = b]
  BY DEF DockerFails
<1>3. c \in -1..255 /\ c # 0
  BY RunnerAssumption
<1>4. /\ run' \in RunRows /\ run'.broken /\ run'.code = c
      /\ run'.err = run.err /\ run'.out = run.out /\ run'.wrote = run.wrote
      /\ run'.added = run.added /\ run'.ran = run.ran
  BY <1>1, <1>2, <1>3 DEF RunRows
<1>5. RunTyped' /\ Places' /\ Judged' /\ ContainerGone' /\ Outcomes'
  BY <1>1, <1>4, Going DEF Working
<1> QED
  BY <1>1, <1>3, <1>4, <1>5 DEF RunInv, Streams, Progress, Holds

(* The program writes: neither buffer was full.                            *)
LEMMA EmitKeeps ==
  ASSUME RunInv, NEW n \in Chunks, Emit(n)
  PROVE  RunInv'
<1>1. run \in RunRows /\ Streams /\ Progress /\ n \in Nat \ {0}
  BY RunnerAssumption DEF RunInv, RunTyped
<1>2. phase = "running" /\ phase' = "running" /\ UNCHANGED <<tests, limit, results, outcome>>
  BY DEF Emit, Go
<1>3. /\ run.out \in Buffers /\ run.wrote.out \in Nat /\ Holds(run.out, run.wrote.out)
      /\ run.err \in Buffers /\ run.wrote.err \in Nat /\ Holds(run.err, run.wrote.err)
  BY <1>1, <1>2 DEF RunRows, Streams
<1>4. /\ Written(run.out, n) \in Buffers /\ Holds(Written(run.out, n), run.wrote.out + n)
      /\ Written(run.err, n) \in Buffers /\ Holds(Written(run.err, n), run.wrote.err + n)
  BY <1>1, <1>3, WrittenHolds
<1>5. /\ run' \in RunRows
      /\ Holds(run'.out, run'.wrote.out) /\ Holds(run'.err, run'.wrote.err)
      /\ run'.code = run.code /\ run'.killed = run.killed /\ run'.added = run.added
      /\ run'.ran = run.ran /\ run'.wrote.err \in Nat /\ run'.broken = run.broken
  <2> DEFINE o == [run.wrote EXCEPT !.out = @ + n]
             e == [run.wrote EXCEPT !.err = @ + n]
  <2>1. /\ o \in [out : Nat, err : Nat] /\ o.out = run.wrote.out + n /\ o.err = run.wrote.err
        /\ e \in [out : Nat, err : Nat] /\ e.err = run.wrote.err + n /\ e.out = run.wrote.out
    BY <1>1 DEF RunRows
  <2>2. \/ run' = [run EXCEPT !.wrote = o, !.out = Written(run.out, n)]
        \/ \E S \in SUBSET Markers :
             run' = [run EXCEPT !.wrote = e, !.err = Written(run.err, n), !.printed = run.printed \cup S]
    BY <1>1 DEF Emit, RunRows
  <2> HIDE DEF o, e
  <2>3. CASE run' = [run EXCEPT !.wrote = o, !.out = Written(run.out, n)]
    BY <1>1, <1>3, <1>4, <2>1, <2>3 DEF RunRows
  <2>4. ASSUME NEW S \in SUBSET Markers,
               run' = [run EXCEPT !.wrote = e, !.err = Written(run.err, n), !.printed = run.printed \cup S]
        PROVE  /\ run' \in RunRows
               /\ Holds(run'.out, run'.wrote.out) /\ Holds(run'.err, run'.wrote.err)
               /\ run'.code = run.code /\ run'.killed = run.killed /\ run'.added = run.added
               /\ run'.ran = run.ran /\ run'.wrote.err \in Nat /\ run'.broken = run.broken
    <3>1. run.printed \cup S \in SUBSET Markers
      BY <1>1 DEF RunRows
    <3> QED
      BY <1>1, <1>3, <1>4, <2>1, <2>4, <3>1 DEF RunRows
  <2> QED
    BY <2>2, <2>3, <2>4
<1>6. RunTyped' /\ Places' /\ Judged' /\ ContainerGone' /\ Outcomes'
  BY <1>2, <1>5, Going DEF Working
<1>7. Streams'
  BY <1>1, <1>2, <1>5, RunnerAssumption DEF Streams, Progress, Holds
<1>8. Progress'
  BY <1>1, <1>2, <1>5 DEF Progress
<1> QED
  BY <1>6, <1>7, <1>8 DEF RunInv

(* The program ends, by itself or at its limit.                            *)
LEMMA WrappedKeeps ==
  ASSUME RunInv, NEW c \in 0..255, NEW late \in BOOLEAN, Go("running", "closing"), Wrapped(c, late),
         late => run.ran = limit
  PROVE  RunInv'
<1>1. /\ run \in RunRows /\ Streams /\ Progress /\ MarkerSize \in Nat \ {0}
      /\ phase = "running" /\ phase' = "closing" /\ UNCHANGED <<tests, limit, results, outcome>>
  BY RunnerAssumption DEF RunInv, RunTyped, Go
<1> DEFINE e == Written(run.err, MarkerSize)
<1>2. /\ run.err \in Buffers /\ run.wrote.err \in Nat /\ Holds(run.err, run.wrote.err)
  BY <1>1 DEF RunRows, Streams
<1>3. e \in Buffers /\ Holds(e, run.wrote.err + MarkerSize)
  BY <1>1, <1>2, WrittenHolds
<1> DEFINE m == IF late THEN Markers ELSE {"runtime"}
<1>4. run' = [run EXCEPT !.code = c, !.err = e, !.added = m]
  BY <1>1 DEF Wrapped, RunRows
<1>5. m \in SUBSET Markers /\ ("timeout" \in m => late)
  BY DEF Markers
<1> HIDE DEF e, m
<1>6. /\ run' \in RunRows /\ run'.code = c /\ run'.err = e /\ run'.out = run.out
      /\ run'.wrote = run.wrote /\ run'.ran = run.ran /\ run'.added = m
      /\ run'.killed = run.killed /\ run'.broken = run.broken
  <2>1. e \in Buffers /\ m \in SUBSET Markers /\ c \in -1..255
    BY <1>3, <1>5
  <2> QED
    BY <1>1, <1>4, <2>1 DEF RunRows
<1>7. RunTyped' /\ Places' /\ Judged' /\ ContainerGone' /\ Outcomes'
  BY <1>1, <1>6, Going DEF Working
<1>8. Streams'
  BY <1>1, <1>3, <1>6 DEF Streams, Holds
<1>9. Progress'
  BY <1>1, <1>5, <1>6 DEF Progress
<1> QED
  BY <1>7, <1>8, <1>9 DEF RunInv

LEMMA DockerReturnsKeeps ==
  ASSUME RunInv, DockerReturns
  PROVE  RunInv'
<1>1. /\ run \in RunRows /\ Streams /\ Progress
      /\ phase = "closing" /\ phase' = "ended" /\ UNCHANGED <<tests, limit, results, outcome>>
      /\ \E late \in BOOLEAN : run' = [run EXCEPT !.box = FALSE, !.killed = late]
  BY DEF RunInv, RunTyped, DockerReturns, Go
<1>2. /\ run' \in RunRows /\ run'.code = run.code /\ run'.err = run.err /\ run'.out = run.out
      /\ run'.wrote = run.wrote /\ run'.added = run.added
      /\ run'.ran = run.ran
  <2>1. PICK late \in BOOLEAN : run' = [run EXCEPT !.box = FALSE, !.killed = late]
    BY <1>1
  <2> QED
    BY <1>1, <2>1 DEF RunRows
<1>3. RunTyped' /\ Places' /\ Judged' /\ ContainerGone' /\ Outcomes'
  BY <1>1, <1>2, Going DEF Working
<1> QED
  BY <1>1, <1>2, <1>3 DEF RunInv, Streams, Progress, Holds

LEMMA DeadlineKeeps ==
  ASSUME RunInv, Deadline
  PROVE  RunInv'
<1>1. /\ run \in RunRows /\ Streams /\ Progress
      /\ phase \in {"starting", "running", "closing"} /\ phase' = "ended"
      /\ UNCHANGED <<tests, limit, results, outcome>>
      /\ \E b \in BOOLEAN : run' = [run EXCEPT !.killed = TRUE, !.box = b]
  <2>1. run \in RunRows /\ run.box \in BOOLEAN
    BY DEF RunInv, RunTyped, RunRows
  <2>2. [run EXCEPT !.killed = TRUE] = [run EXCEPT !.killed = TRUE, !.box = run.box]
    BY <2>1 DEF RunRows
  <2> QED
    BY <2>1, <2>2 DEF RunInv, Deadline, Go
<1>2. /\ run' \in RunRows /\ run'.code = run.code /\ run'.err = run.err /\ run'.out = run.out
      /\ run'.wrote = run.wrote /\ run'.added = run.added /\ run'.killed
      /\ run'.ran = run.ran
  <2>1. PICK b \in BOOLEAN : run' = [run EXCEPT !.killed = TRUE, !.box = b]
    BY <1>1
  <2> QED
    BY <1>1, <2>1 DEF RunRows
<1>3. RunTyped' /\ Places' /\ Judged' /\ ContainerGone' /\ Outcomes'
  BY <1>1, <1>2, Going DEF Working
<1> QED
  BY <1>1, <1>2, <1>3 DEF RunInv, Streams, Progress, Holds

LEMMA TickKeeps ==
  ASSUME RunInv, Tick
  PROVE  RunInv'
<1>1. /\ run \in RunRows /\ Streams /\ Progress /\ limit \in Nat /\ Grace \in Nat
      /\ phase \in {"starting", "running", "closing"} /\ UNCHANGED <<tests, limit, phase, results, outcome>>
  BY LimitPositive DEF RunInv, RunTyped, Tick
<1>2. run.age + 1 \in 0..limit + Grace /\ (phase = "running" => run.ran + 1 \in 0..limit)
  BY <1>1 DEF Tick, RunRows
<1>3. /\ run' \in RunRows /\ run'.code = run.code /\ run'.err = run.err /\ run'.out = run.out
      /\ run'.wrote = run.wrote /\ run'.added = run.added /\ run'.killed = run.killed
      /\ run'.box = run.box /\ run'.broken = run.broken /\ (phase # "running" => run'.ran = run.ran)
  <2> DEFINE ran == IF phase = "running" THEN run.ran + 1 ELSE run.ran
  <2>1. run' = [run EXCEPT !.age = run.age + 1, !.ran = ran] /\ ran \in 0..limit
    BY <1>1, <1>2 DEF Tick, RunRows
  <2>2. phase # "running" => ran = run.ran
    OBVIOUS
  <2> HIDE DEF ran
  <2> QED
    BY <1>1, <1>2, <2>1, <2>2 DEF RunRows
<1>4. RunTyped' /\ Places' /\ Judged' /\ ContainerGone' /\ Outcomes'
  BY <1>1, <1>3, Going DEF Working
<1> QED
  BY <1>1, <1>3, <1>4 DEF RunInv, Streams, Progress, Holds

(* What a verdict says of the program, from the order of the cases.        *)
LEMMA VerdictSays ==
  ASSUME RunInv, phase = "ended", NEW matches \in BOOLEAN
  PROVE  Verdict(matches) \in Verdicts /\ Says(Result(Verdict(matches)))
<1>1. /\ run \in RunRows /\ Streams /\ Progress /\ OutputLimit \in Nat /\ MarkerSize \in Nat
  BY RunnerAssumption DEF RunInv, RunTyped
<1>2. /\ run.out.over <=> run.wrote.out > OutputLimit
      /\ ~run.out.over => run.wrote.out = run.out.kept
      /\ run.err.over => run.wrote.err + MarkerSize > OutputLimit
      /\ run.code = 0 => (run.err.over <=> run.wrote.err + MarkerSize > OutputLimit)
  BY <1>1 DEF Streams, Holds
<1>3. /\ ~run.killed /\ ~run.broken => run.code \in 0..255
      /\ TimedOut => run.ran = limit \/ "timeout" \in run.printed
      /\ run.wrote.out \in Nat /\ run.wrote.err \in Nat /\ run.code \in -1..255
  BY <1>1 DEF Progress, RunRows, TimedOut, Markers
<1> DEFINE t == Result(Verdict(matches))
<1>4. /\ t.verdict = Verdict(matches) /\ t.code = run.code /\ t.ran = run.ran /\ t.killed = run.killed
      /\ t.broken = run.broken /\ t.printed = ("timeout" \in run.printed)
      /\ t.cut = (run.wrote.out > run.out.kept)
      /\ t.big = (run.wrote.out > OutputLimit \/ run.wrote.err + MarkerSize > OutputLimit)
  BY DEF Result
<1> HIDE DEF t
<1>5. ASSUME run.out.over \/ run.err.over
     PROVE  Verdict(matches) \in Verdicts /\ Says(t)
  <2>1. t.verdict = "output_limit_exceeded" /\ Verdict(matches) \in Verdicts
    BY <1>4, <1>5 DEF Verdict, Verdicts
  <2>2. t.big
    BY <1>2, <1>4, <1>5
  <2> QED
    BY <2>1, <2>2 DEF Says
<1>6. ASSUME ~(run.out.over \/ run.err.over) /\ TimedOut
     PROVE  Verdict(matches) \in Verdicts /\ Says(t)
  <2>1. t.verdict = "time_limit_exceeded" /\ Verdict(matches) \in Verdicts
    BY <1>4, <1>6 DEF Verdict, Verdicts
  <2>2. t.ran = limit \/ t.printed
    BY <1>3, <1>4, <1>6
  <2> QED
    BY <2>1, <2>2 DEF Says
<1>7. ASSUME ~(run.out.over \/ run.err.over) /\ ~TimedOut /\ (run.killed \/ run.code >= 125)
     PROVE  Verdict(matches) \in Verdicts /\ Says(t)
  <2>1. t.verdict = "system_error" /\ Verdict(matches) \in Verdicts
    BY <1>4, <1>7 DEF Verdict, Verdicts
  <2>2. t.killed \/ t.code \notin 0..124
    BY <1>3, <1>4, <1>7
  <2> QED
    BY <2>1, <2>2 DEF Says
<1>8. ASSUME ~(run.out.over \/ run.err.over) /\ ~TimedOut /\ ~run.killed /\ ~(run.code >= 125)
     PROVE  Verdict(matches) \in Verdicts /\ Says(t)
  <2>1. CASE run.code = 0
    <3>1. ~(run.wrote.out > OutputLimit) /\ ~(run.wrote.err + MarkerSize > OutputLimit)
      BY <1>2, <1>8, <2>1
    <3>2. ~(run.wrote.out > run.out.kept)
      BY <1>2, <1>3, <1>8
    <3>3. Verdict(matches) \in {"accepted", "wrong_answer"}
      BY <1>8, <2>1 DEF Verdict
    <3>4. t.code = 0 /\ ~t.killed /\ ~t.cut /\ ~t.big
      BY <1>4, <1>8, <2>1, <3>1, <3>2
    <3> QED
      BY <1>4, <3>3, <3>4 DEF Verdicts, Says
  <2>2. CASE run.code # 0
    <3>1. Verdict(matches) = "runtime_error"
      BY <1>8, <2>2 DEF Verdict
    <3>2. ~t.killed /\ (t.code \in 1..124 \/ t.broken)
      BY <1>3, <1>4, <1>8, <2>2
    <3> QED
      BY <1>4, <3>1, <3>2 DEF Verdicts, Says
  <2> QED
    BY <2>1, <2>2
<1> QED
  BY <1>5, <1>6, <1>7, <1>8 DEF t

LEMMA JudgeKeeps ==
  ASSUME RunInv, Judge
  PROVE  RunInv'
<1>1. /\ phase = "ended" /\ phase' = "removing" /\ UNCHANGED <<tests, limit, outcome>>
      /\ run' = [Ready EXCEPT !.box = run.box]
      /\ \E v \in Verdicts : Says(Result(v)) /\ results' = Append(results, Result(v))
  BY VerdictSays DEF Judge
<1>2. limit \in Nat /\ run \in RunRows
  BY LimitPositive DEF RunInv, RunTyped
<1>3. /\ run' \in RunRows /\ run'.code = -1 /\ run'.err = Empty /\ run'.out = Empty
      /\ run'.wrote = [out |-> 0, err |-> 0] /\ run'.added = {}
  BY <1>1, <1>2, ReadyRow DEF RunRows
<1>4. Streams'
  BY <1>3, EmptyHolds DEF Streams, Empty
<1>5. Progress'
  BY <1>1, <1>3 DEF Progress
<1> QED
  BY <1>1, <1>3, <1>4, <1>5, Appending

LEMMA RemoveKeeps ==
  ASSUME RunInv, Remove
  PROVE  RunInv'
<1>1. /\ run \in RunRows /\ Streams /\ Progress /\ run' = [run EXCEPT !.box = FALSE]
      /\ phase = "removing" /\ phase' = "next" /\ UNCHANGED <<tests, limit, results, outcome>>
  BY DEF RunInv, RunTyped, Remove, Go
<1>2. /\ run' \in RunRows /\ run'.code = run.code /\ run'.err = run.err /\ run'.out = run.out
      /\ run'.wrote = run.wrote /\ run'.added = run.added /\ run'.killed = run.killed
      /\ run'.ran = run.ran /\ ~run'.box
  BY <1>1 DEF RunRows
<1>3. RunTyped'
  <2>1. RunTyped /\ phase' \in Phases
    BY <1>1 DEF RunInv, Phases
  <2> QED
    BY <1>1, <1>2, <2>1, SameTypes DEF RunTyped
<1>4. Places' /\ Judged' /\ ContainerGone' /\ Outcomes'
  BY <1>1, <1>2 DEF RunInv, Places, Judged, Says, ContainerGone, Outcomes
<1> QED
  BY <1>1, <1>2, <1>3, <1>4 DEF RunInv, Streams, Progress, Holds

LEMMA RemoveFailsKeeps ==
  ASSUME RunInv, RemoveFails
  PROVE  RunInv'
<1>1. /\ RunTyped /\ results \in Seq(ResultRows) /\ results # <<>> /\ run.box \in BOOLEAN
      /\ phase = "removing" /\ phase' = "next" /\ UNCHANGED <<tests, limit, run, outcome>>
      /\ results' = [results EXCEPT ![Len(results)].left = run.box]
  BY DEF RunInv, RunTyped, RunRows, Places, RemoveFails
<1>2. Len(results) \in DOMAIN results
  BY <1>1
<1>3. /\ results' \in Seq(ResultRows) /\ Len(results') = Len(results) /\ DOMAIN results' = DOMAIN results
      /\ results'[Len(results)].left = run.box
  <2> DEFINE n == Len(results)
             t == [results[n] EXCEPT !.left = run.box]
  <2>1. results[n] \in ResultRows
    BY <1>1, <1>2
  <2>2. t \in ResultRows /\ t.left = run.box
    BY <1>1, <2>1 DEF ResultRows
  <2>3. results' = [results EXCEPT ![n] = t]
    BY <1>1
  <2> HIDE DEF t
  <2> QED
    BY <1>1, <1>2, <2>2, <2>3
<1>4. \A i \in DOMAIN results :
        /\ results'[i].verdict = results[i].verdict /\ results'[i].code = results[i].code
        /\ results'[i].ran = results[i].ran /\ results'[i].killed = results[i].killed
        /\ results'[i].cut = results[i].cut /\ results'[i].big = results[i].big
        /\ results'[i].broken = results[i].broken /\ results'[i].printed = results[i].printed
  BY <1>1, <1>2 DEF ResultRows
<1>5. RunTyped'
  <2>1. phase' \in Phases
    BY <1>1 DEF Phases
  <2> QED
    BY <1>1, <1>3, <2>1, SameTypes DEF RunTyped
<1>6. Places' /\ ContainerGone' /\ Outcomes'
  BY <1>1, <1>3 DEF RunInv, Places, ContainerGone, Outcomes
<1>7. Judged'
  BY <1>1, <1>3, <1>4 DEF RunInv, Judged, Says
<1>8. Streams' /\ Progress'
  BY <1>1 DEF RunInv, Streams, Progress, Holds
<1> QED
  BY <1>5, <1>6, <1>7, <1>8 DEF RunInv

LEMMA GradeKeeps ==
  ASSUME RunInv, Grade
  PROVE  RunInv'
<1>1. /\ RunTyped /\ Len(results) = tests /\ phase = "next" /\ phase' = "done" /\ tests \in Nat
      /\ UNCHANGED <<tests, limit, run, results>> /\ results \in Seq(ResultRows)
  BY LimitPositive DEF RunInv, RunTyped, Grade
<1>2. outcome' \in [status : Statuses \cup {"error"}, score : 0..100] /\ Outcomes'
  <2>1. CASE NothingRan \/ tests = 0
    <3>1. outcome' = [status |-> "error", score |-> 0]
      BY <2>1 DEF Grade
    <3>2. \A i \in DOMAIN results : results[i].verdict = "system_error"
      BY <1>1, <2>1 DEF NothingRan
    <3> QED
      BY <1>1, <3>1, <3>2 DEF Outcomes
  <2>2. CASE ~(NothingRan \/ tests = 0)
    <3>1. outcome' = [status |-> Status, score |-> Score] /\ tests > 0
      BY <1>1, <2>2 DEF Grade
    <3>2. Status \in Statuses /\ Score \in 0..100 /\ ((Score = 100) <=> (Status = "accepted"))
      BY <1>1, <3>1, Sum
    <3>3. outcome'.status = Status /\ outcome'.score = Score /\ Status # "error"
      BY <3>1, <3>2 DEF Statuses
    <3> QED
      BY <3>1, <3>2, <3>3 DEF Outcomes
  <2> QED
    BY <2>1, <2>2
<1>3. RunTyped'
  <2>1. phase' \in Phases /\ outcome' \in [status : Statuses \cup {"none", "error"}, score : 0..100]
    BY <1>1, <1>2 DEF Phases
  <2> QED
    BY <1>1, <2>1, SameTypes DEF RunTyped
<1>4. Places' /\ Judged' /\ ContainerGone'
  BY <1>1 DEF RunInv, Places, Judged, Says, ContainerGone
<1>5. Streams' /\ Progress'
  BY <1>1 DEF RunInv, Streams, Progress, Holds
<1> QED
  BY <1>2, <1>3, <1>4, <1>5 DEF RunInv

LEMMA RunStutters ==
  ASSUME RunInv, UNCHANGED vars
  PROVE  RunInv'
  BY DEF RunInv, vars, RunTyped, RunRows, Buffers, ResultRows, Places, Streams, Holds, Progress,
         Judged, Says, ContainerGone, Outcomes

-----------------------------------------------------------------------------
(* The theorems.                                                           *)

(* The inductive invariant of the runner.                                  *)
THEOREM RunInvariant == Spec => []RunInv
<1>1. RunInv /\ [Next]_vars => RunInv'
  <2> SUFFICES ASSUME RunInv, [Next]_vars PROVE RunInv'
    OBVIOUS
  <2>1. ASSUME NEW n \in Chunks, Emit(n) PROVE RunInv'
    BY <2>1, EmitKeeps
  <2>2. ASSUME NEW c \in Codes, Exit(c) PROVE RunInv'
    BY <2>2, WrappedKeeps, RunnerAssumption DEF Exit
  <2>3. ASSUME TimesOut PROVE RunInv'
    BY <2>3, WrappedKeeps, 124 \in 0..255 DEF TimesOut
  <2>4. CASE RunnerStep
    BY <2>4, NextTestKeeps, PrepareFailsKeeps, LaunchKeeps, JudgeKeeps, RemoveKeeps, RemoveFailsKeeps,
       GradeKeeps DEF RunnerStep
  <2>5. CASE DockerStep
    BY <2>5, LaunchKeeps, DockerFailsKeeps, DockerReturnsKeeps DEF DockerStep
  <2>6. CASE Program
    BY <2>1, <2>2, <2>6 DEF Program
  <2>7. CASE TimeStep
    BY <2>3, <2>7, DeadlineKeeps, TickKeeps DEF TimeStep
  <2> QED
    BY <2>4, <2>5, <2>6, <2>7, RunStutters DEF Next
<1> QED
  BY <1>1, RunStarts, PTL DEF Spec

(* Types; the limit is positive and at most the largest, and no buffer     *)
(* keeps more than OutputLimit, for any configuration and any problem.     *)
THEOREM RunnerTypes == Spec => []RunnerTypeOK
<1>1. RunInv => RunnerTypeOK
  <2> SUFFICES ASSUME RunInv PROVE RunnerTypeOK
    OBVIOUS
  <2>1. RunTyped /\ Places /\ run \in RunRows /\ results \in Seq(ResultRows)
    BY DEF RunInv, RunTyped
  <2>2. \A i \in DOMAIN results : results[i].verdict \in Verdicts
    <3>1. \A i \in DOMAIN results : results[i] \in ResultRows
      BY <2>1
    <3> QED
      BY <3>1 DEF ResultRows
  <2>3. run.out \in Buffers /\ run.err \in Buffers
    BY <2>1 DEF RunRows
  <2>4. \A b \in {run.out, run.err} : b.kept \in 0..OutputLimit /\ b.over \in BOOLEAN
    BY <2>3 DEF Buffers
  <2> QED
    BY <2>1, <2>2, <2>4 DEF RunnerTypeOK, RunTyped, Places, RunRows
<1> QED
  BY <1>1, RunInvariant, PTL

(* A testcase is accepted only for a whole output, and refused for its     *)
(* size only if there was more of it than fits.                            *)
THEOREM OutputIsWhole == Spec => []NoCreditForCutOutput
<1>1. RunInv => NoCreditForCutOutput
  BY DEF RunInv, Judged, Says, NoCreditForCutOutput
<1> QED
  BY <1>1, RunInvariant, PTL

(* The time Docker takes is charged to nobody, also when it fails.         *)
THEOREM StartupIsFree == Spec => []StartupNotCharged
<1>1. RunInv => StartupNotCharged
  BY DEF RunInv, Judged, Says, StartupNotCharged
<1> QED
  BY <1>1, RunInvariant, PTL

(* Only a failed docker rm leaves a container behind.                      *)
THEOREM ContainersGo == Spec => []ContainerGone
<1>1. RunInv => ContainerGone
  BY DEF RunInv
<1> QED
  BY <1>1, RunInvariant, PTL

(* The whole percents of GradeJob round no failure up to 100.              *)
THEOREM FullScore == Spec => []FullScoreIfAccepted
<1>1. RunInv => FullScoreIfAccepted
  BY DEF RunInv, Outcomes, FullScoreIfAccepted, Statuses
<1> QED
  BY <1>1, RunInvariant, PTL

(* A job that is tried again lost nothing a program had answered.          *)
THEOREM RetriesAreClean == Spec => []RetriedIfNothingRan
<1>1. RunInv => RetriedIfNothingRan
  BY DEF RunInv, Outcomes, Judged, Says, RetriedIfNothingRan
<1> QED
  BY <1>1, RunInvariant, PTL

-----------------------------------------------------------------------------
(* How much is left to do: of the testcases, of the phases of this one, of *)
(* its time, and of the output the program may still write.                *)

Phase == [removing |-> 8, next |-> 7, prepare |-> 6, starting |-> 5, running |-> 4, closing |-> 3,
          ended |-> 2, done |-> 1]

StepsLeft == Phase[phase]

Room(written) == IF written > OutputLimit THEN 0 ELSE OutputLimit + 1 - written

WholeTest == limit + Grace + Room(0) + Room(0)
Left ==
  IF phase \in {"starting", "running", "closing", "ended"}
  THEN ((limit + Grace) - run.age) + Room(run.wrote.out) + Room(run.wrote.err)
  ELSE WholeTest

TestsLeft == (tests - Len(results)) * (WholeTest + 8)

Rank == TestsLeft + StepsLeft + Left

Descends == [](Rank \in Nat) /\ [][Rank' < Rank]_vars

LEMMA RoomLeft ==
  ASSUME NEW w \in Nat
  PROVE  Room(w) \in Nat /\ Room(w) <= Room(0)
  BY RunnerAssumption DEF Room

Ranked == /\ WholeTest \in Nat /\ Left \in 0..WholeTest
          /\ StepsLeft \in 1..8 /\ TestsLeft \in Nat

LEMMA RankTyped ==
  ASSUME RunInv
  PROVE  Ranked
<1>1. /\ limit \in Nat /\ Grace \in Nat /\ tests \in Nat /\ Len(results) \in Nat
      /\ run.age \in 0..limit + Grace /\ run.wrote.out \in Nat /\ run.wrote.err \in Nat
  BY LimitPositive DEF RunInv, RunTyped, RunRows
<1>2. /\ Room(run.wrote.out) \in Nat /\ Room(run.wrote.out) <= Room(0)
      /\ Room(run.wrote.err) \in Nat /\ Room(run.wrote.err) <= Room(0)
      /\ Room(0) \in Nat
  BY <1>1, RoomLeft
<1>3. WholeTest \in Nat /\ Left \in 0..WholeTest
  <2> DEFINE g == limit + Grace
             r == Room(0)
             o == Room(run.wrote.out)
             e == Room(run.wrote.err)
  <2>1. g \in Nat /\ r \in Nat /\ o \in 0..r /\ e \in 0..r /\ run.age \in 0..g
    BY <1>1, <1>2
  <2>2. WholeTest = g + r + r
    BY DEF WholeTest
  <2>3. Left \in {WholeTest, (g - run.age) + o + e}
    BY DEF Left
  <2> HIDE DEF g, r, o, e
  <2>4. g + r + r \in Nat /\ (g - run.age) + o + e \in 0..g + r + r
    BY <2>1
  <2> QED
    BY <2>2, <2>3, <2>4
<1>4. StepsLeft \in 1..8
  BY DEF RunInv, RunTyped, Phases, Phase, StepsLeft
<1>5. WholeTest + 8 \in Nat /\ tests - Len(results) \in Nat
  BY <1>1, <1>3 DEF RunInv, Places
<1>6. \A a, b \in Nat : a * b \in Nat
  OBVIOUS
<1>7. TestsLeft \in Nat
  BY <1>5, <1>6 DEF TestsLeft
<1> QED
  BY <1>3, <1>4, <1>7 DEF Ranked

LEMMA Lower ==
  /\ \A l, m, p, q \in Int : m <= l /\ q < p => q + m < p + l
  /\ \A l, m, p \in Int : m < l => p + m < p + l
  /\ \A t, l, m, p, q \in Int : q + m < p + l => t + q + m < t + p + l
  /\ \A w, t \in Nat : \A l, m \in 0..w : \A p, q \in 1..8 :
       (t - (w + 8)) + q + m < t + p + l
  OBVIOUS

(* A step that gives no result, and one that does.                         *)
LEMMA SameTest ==
  ASSUME UNCHANGED <<tests, limit>>, Len(results') = Len(results)
  PROVE  TestsLeft' = TestsLeft
  BY DEF TestsLeft, WholeTest, Room

LEMMA TestDone ==
  ASSUME RunTyped, Ranked, UNCHANGED <<tests, limit>>, Len(results') = Len(results) + 1
  PROVE  TestsLeft' = TestsLeft - (WholeTest + 8)
<1>1. WholeTest \in Nat /\ tests \in Nat /\ Len(results) \in Nat
  BY LimitPositive DEF Ranked, RunTyped
<1>2. \A a, b, c \in Int : (a - (b + 1)) * c = (a - b) * c - c
  OBVIOUS
<1>3. WholeTest' = WholeTest
  BY DEF WholeTest, Room
<1> QED
  BY <1>1, <1>2, <1>3 DEF TestsLeft

LEMMA RankDrops ==
  ASSUME RunInv, Ranked, Ranked', [Next]_vars, ~UNCHANGED vars
  PROVE  Rank' < Rank
<1>0. RunTyped /\ Places /\ run \in RunRows /\ results \in Seq(ResultRows)
  BY DEF RunInv, RunTyped
<1>1. /\ WholeTest \in Nat /\ Left \in 0..WholeTest /\ StepsLeft \in 1..8
      /\ TestsLeft \in Nat
  BY DEF Ranked
<1>2. /\ WholeTest' \in Nat /\ Left' \in 0..WholeTest' /\ StepsLeft' \in 1..8
      /\ TestsLeft' \in Nat
  BY DEF Ranked
<1>3. /\ Left \in Int /\ Left' \in Int /\ StepsLeft \in Int /\ StepsLeft' \in Int
      /\ TestsLeft \in Int /\ TestsLeft' \in Int
  BY <1>1, <1>2
<1>4. /\ Rank = TestsLeft + StepsLeft + Left
      /\ Rank' = TestsLeft' + StepsLeft' + Left'
  BY DEF Rank
<1>5. UNCHANGED <<tests, limit>> /\ WholeTest' = WholeTest
  <2>1. UNCHANGED <<tests, limit>>
    BY DEF Next, RunnerStep, DockerStep, Program, TimeStep, NextTest, PrepareFails, Start, Judge,
           Remove, RemoveFails, Grade, Go, DockerFails, Launch, DockerReturns, Emit, Exit, TimesOut,
           Deadline, Tick, vars
  <2> QED
    BY <2>1 DEF WholeTest, Room
<1>6. ASSUME Len(results') = Len(results) + 1 PROVE Rank' < Rank
  BY <1>0, <1>1, <1>2, <1>5, <1>6, <1>4, TestDone, Lower
<1>7. ASSUME Len(results') = Len(results), StepsLeft' + Left' < StepsLeft + Left
      PROVE  Rank' < Rank
  BY <1>3, <1>5, <1>7, <1>4, SameTest, Lower
<1>8. ASSUME Len(results') = Len(results), Left' <= Left, StepsLeft' < StepsLeft PROVE Rank' < Rank
  <2>1. StepsLeft' + Left' < StepsLeft + Left
    BY <1>3, <1>8, Lower
  <2> QED
    BY <1>7, <1>8, <2>1
<1>9. ASSUME PrepareFails \/ Judge PROVE Rank' < Rank
  BY <1>0, <1>6, <1>9 DEF PrepareFails, Judge
<1>10. ASSUME NextTest \/ Start \/ Remove \/ RemoveFails \/ Grade PROVE Rank' < Rank
  <2>1. Len(results') = Len(results)
    BY <1>0, <1>10 DEF NextTest, Start, Remove, RemoveFails, Grade, Go
  <2>2. Left = WholeTest
    BY <1>10 DEF NextTest, Start, Remove, RemoveFails, Grade, Go, Left
  <2>3. StepsLeft' < StepsLeft
    BY <1>10 DEF NextTest, Start, Remove, RemoveFails, Grade, Go, Phase, StepsLeft
  <2> QED
    BY <1>1, <1>2, <1>5, <1>8, <2>1, <2>2, <2>3
<1>11. ASSUME phase \in {"starting", "running", "closing"}, phase' \in {"running", "closing", "ended"},
             StepsLeft' < StepsLeft, UNCHANGED results,
             run'.age = run.age, run'.wrote = run.wrote
      PROVE  Rank' < Rank
  <2>1. Left' = Left
    BY <1>5, <1>11 DEF Left, Room
  <2> QED
    BY <1>1, <1>2, <1>8, <1>11, <2>1
<1>12. ASSUME DockerFails \/ Launch \/ DockerReturns \/ TimesOut \/ Deadline \/ \E c \in Codes : Exit(c)
       PROVE  Rank' < Rank
  <2>1. UNCHANGED results
    BY <1>12 DEF DockerFails, Launch, DockerReturns, TimesOut, Deadline, Exit, Go
  <2>2. run'.age = run.age /\ run'.wrote = run.wrote
    <3>1. ASSUME DockerFails PROVE run'.age = run.age /\ run'.wrote = run.wrote
      <4>1. PICK c \in DockerCodes \cup {-1}, b \in BOOLEAN :
              run' = [run EXCEPT !.broken = TRUE, !.code = c, !.box = b]
        BY <3>1 DEF DockerFails
      <4> QED
        BY <1>0, <4>1 DEF RunRows
    <3>2. ASSUME Launch \/ TimesOut \/ \E c \in Codes : Exit(c)
          PROVE  run'.age = run.age /\ run'.wrote = run.wrote
      BY <1>0, <3>2 DEF Launch, TimesOut, Exit, Wrapped, RunRows
    <3>3. ASSUME DockerReturns PROVE run'.age = run.age /\ run'.wrote = run.wrote
      BY <1>0, <3>3 DEF DockerReturns, RunRows
    <3>4. ASSUME Deadline PROVE run'.age = run.age /\ run'.wrote = run.wrote
      BY <1>0, <3>4 DEF Deadline, RunRows
    <3> QED
      BY <1>12, <3>1, <3>2, <3>3, <3>4
  <2>3. /\ phase \in {"starting", "running", "closing"} /\ phase' \in {"running", "closing", "ended"}
        /\ StepsLeft' < StepsLeft
    <3>1. \/ phase = "starting" /\ phase' \in {"running", "ended"}
          \/ phase = "running" /\ phase' \in {"closing", "ended"}
          \/ phase = "closing" /\ phase' = "ended"
      BY <1>12 DEF DockerFails, Launch, DockerReturns, TimesOut, Deadline, Exit, Go
    <3> QED
      BY <3>1 DEF Phase, StepsLeft
  <2> QED
    BY <1>11, <2>1, <2>2, <2>3
<1>13. ASSUME Tick PROVE Rank' < Rank
  <2>1. /\ UNCHANGED <<results, phase>> /\ run'.age = run.age + 1 /\ run'.wrote = run.wrote
        /\ phase \in {"starting", "running", "closing"} /\ run.age \in Nat
    BY <1>0, <1>13, LimitPositive DEF Tick, RunRows
  <2>2. StepsLeft' = StepsLeft /\ Len(results') = Len(results)
    BY <2>1 DEF StepsLeft, Phase
  <2>3. Left' = Left - 1
    <3>1. /\ run.wrote.out \in Nat /\ run.wrote.err \in Nat /\ limit \in Nat /\ Grace \in Nat
      BY <1>0, LimitPositive DEF RunRows
    <3>2. Room(run.wrote.out) \in Nat /\ Room(run.wrote.err) \in Nat
      BY <3>1, RoomLeft
    <3>3. /\ Left = ((limit + Grace) - run.age) + Room(run.wrote.out) + Room(run.wrote.err)
          /\ Left' = ((limit + Grace) - (run.age + 1)) + Room(run.wrote.out) + Room(run.wrote.err)
      BY <1>5, <2>1 DEF Left, Room
    <3> QED
      BY <2>1, <3>1, <3>2, <3>3
  <2> QED
    BY <1>3, <1>7, <2>2, <2>3
<1>14. ASSUME NEW n \in Chunks, Emit(n) PROVE Rank' < Rank
  <2>1. /\ UNCHANGED results /\ phase = "running" /\ phase' = "running" /\ n \in Nat /\ n > 0
    <3>1. Go("running", "running")
      BY <1>14, Zenon DEF Emit
    <3> QED
      BY <3>1, RunnerAssumption DEF Go
  <2>2. /\ run'.age = run.age /\ run.age \in Nat /\ run.wrote.out \in Nat /\ run.wrote.err \in Nat
        /\ limit \in Nat /\ Grace \in Nat
    <3>1. run'.age = run.age
      BY <1>0, <1>14 DEF Emit, RunRows
    <3>2. run.wrote \in [out : Nat, err : Nat] /\ run.age \in 0..limit + Grace
      BY <1>0 DEF RunRows
    <3> QED
      BY <1>0, <3>1, <3>2, LimitPositive
  <2>3. \/ /\ run.wrote.out <= OutputLimit
           /\ run'.wrote.out = run.wrote.out + n /\ run'.wrote.err = run.wrote.err
        \/ /\ run.wrote.err <= OutputLimit
           /\ run'.wrote.err = run.wrote.err + n /\ run'.wrote.out = run.wrote.out
    <3>1. run.wrote \in [out : Nat, err : Nat]
      BY <1>0 DEF RunRows
    <3>2. \/ run.wrote.out <= OutputLimit /\ run'.wrote = [run.wrote EXCEPT !.out = @ + n]
          \/ run.wrote.err <= OutputLimit /\ run'.wrote = [run.wrote EXCEPT !.err = @ + n]
      BY <1>0, <1>14 DEF Emit, RunRows
    <3> QED
      BY <3>1, <3>2
  <2>4. /\ Left = ((limit + Grace) - run.age) + Room(run.wrote.out) + Room(run.wrote.err)
        /\ Left' = ((limit + Grace) - run.age) + Room(run'.wrote.out) + Room(run'.wrote.err)
    BY <1>5, <2>1, <2>2 DEF Left, Room
  <2>5. ASSUME NEW x \in Nat, x <= OutputLimit
        PROVE  /\ Room(x) \in Nat /\ Room(x + n) \in Nat /\ Room(x + n) < Room(x)
    BY <2>1, <2>5, RunnerAssumption DEF Room
  <2>6. StepsLeft' = StepsLeft /\ Len(results') = Len(results)
    BY <2>1 DEF StepsLeft, Phase
  <2>7. Left' < Left
    <3>1. Room(run.wrote.out) \in Nat /\ Room(run.wrote.err) \in Nat
      BY <2>2, RoomLeft
    <3> QED
      BY <2>2, <2>3, <2>4, <2>5, <3>1
  <2> QED
    BY <1>3, <1>7, <2>6, <2>7, Lower
<1> QED
  BY <1>9, <1>10, <1>12, <1>13, <1>14
  DEF Next, RunnerStep, DockerStep, Program, TimeStep

(* Whatever the program writes and Docker does, every step of a job leaves *)
(* less to do: nothing is tried again, no deadline is set back, so a job   *)
(* ends within a number of steps its limits give.  (That there is a next   *)
(* step until it has ended is liveness, RunReturns.)                       *)
THEOREM JobsDescend == Spec => Descends
<1>1. RunInv => Ranked /\ Rank \in Nat
  BY RankTyped DEF Ranked, Rank
<1>2. RunInv /\ Ranked /\ Ranked' /\ [Next]_vars => [Rank' < Rank]_vars
  BY RankDrops
<1> QED
  BY <1>1, <1>2, RunInvariant, PTL DEF Spec, Descends
=============================================================================
