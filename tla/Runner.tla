------------------------------- MODULE Runner -------------------------------
(***************************************************************************)
(* Runner.Run of one job, and the sum GradeJob makes of its results: each  *)
(* testcase is run by a docker CLI in a container of its own, under a      *)
(* wrapper that stops the program at its time limit.  The program, the     *)
(* wrapper, Docker and the clock take the steps; output is counted in      *)
(* bytes and time in ticks.                                                *)
(***************************************************************************)
EXTENDS Integers, Sequences, FiniteSets

CONSTANTS MaxTests,    \* testcases of a job, at most
          Asked,       \* values of problem.TimeLimit
          DefaultTime, \* Config.DefaultTime
          MaxTime,     \* Config.MaxTime
          Grace,       \* what the outer deadline adds to the limit
          OutputLimit, \* Config.OutputLimit
          MarkerSize,  \* bytes the wrapper adds to the stderr of the program
          Chunks,      \* sizes of a write
          Codes,       \* exit codes of the program, as the wrapper passes them on
          DockerCodes  \* exit codes of a docker CLI that fails

ASSUME RunnerAssumption ==
  /\ {MaxTests, Grace, OutputLimit} \subseteq Nat /\ MarkerSize \in Nat \ {0}
  /\ Asked \subseteq Int /\ DefaultTime \in Int /\ MaxTime \in Int
  /\ Chunks \subseteq Nat \ {0} /\ Codes \subseteq 0..255 /\ DockerCodes \subseteq 1..255

VARIABLES
  tests,   \* how many testcases the job has
  limit,   \* time limit of the program
  phase,   \* where Run is
  run,     \* the testcase that is run, see Ready
  results, \* of the testcases so far
  outcome  \* of GradeJob

vars == <<tests, limit, phase, run, results, outcome>>

Verdicts == {"accepted", "wrong_answer", "runtime_error", "time_limit_exceeded",
             "output_limit_exceeded", "system_error"}
Statuses == {"accepted", "wrong_answer", "time_limit_exceded", "memory_limit_exceded"}
Phases   == {"prepare", "starting", "running", "closing", "ended", "removing", "next", "done"}
Markers  == {"timeout", "runtime"}

-----------------------------------------------------------------------------
(* Limits: New and the head of RunTestCase.                                *)
Positive(v, default)    == IF v > 0 THEN v ELSE default
AtMost(v, max)          == IF v > max THEN max ELSE v

(* Mutant: the limit a problem asks for is not capped.                     *)
CappedDefault(v, default, max) == Positive(v, AtMost(Positive(default, 1), Positive(max, 1)))

Capped(v, default, max) ==
  LET m == Positive(max, 1)
  IN  AtMost(Positive(v, AtMost(Positive(default, 1), m)), m)

(* A limitedBuffer: bytes kept, and whether bytes were dropped.            *)
Empty == [kept |-> 0, over |-> FALSE]

(* Mutant: a write that crosses the limit is cut without a note.           *)
WrittenQuietly(b, n) ==
  IF b.kept = OutputLimit THEN [b EXCEPT !.over = TRUE] ELSE [b EXCEPT !.kept = AtMost(@ + n, OutputLimit)]

(* limitedBuffer.Write of n > 0 bytes.                                     *)
Written(b, n) ==
  IF n > OutputLimit - b.kept THEN [kept |-> OutputLimit, over |-> TRUE] ELSE [b EXCEPT !.kept = @ + n]

(* RunTestCase begins.                                                     *)
Ready ==
  [box    |-> FALSE,                   \* its container exists
   out    |-> Empty, err |-> Empty,    \* limitedBuffers of stdout and stderr
   wrote  |-> [out |-> 0, err |-> 0],  \* bytes the program has written
   added  |-> {}, printed |-> {},      \* markers of the wrapper, and of the program
   age    |-> 0, ran |-> 0,            \* time of RunTestCase, and of the program
   code   |-> -1,                      \* exit code of the CLI; it has none yet, or has none
   broken |-> FALSE,                   \* docker failed, and not because of the deadline
   killed |-> FALSE]                   \* the outer deadline had passed when docker was done

Init ==
  /\ tests \in 0..MaxTests
  /\ \E v \in Asked : limit = Capped(v, DefaultTime, MaxTime)
  /\ phase = "next" /\ run = Ready
  /\ results = <<>> /\ outcome = [status |-> "none", score |-> 0]

-----------------------------------------------------------------------------
(* One testcase.                                                           *)

NextTest ==
  /\ phase = "next" /\ Len(results) < tests
  /\ phase' = "prepare" /\ run' = Ready
  /\ UNCHANGED <<tests, limit, results, outcome>>

(* What is kept of a result: its verdict, and what it was given for.       *)
Result(verdict) ==
  [verdict |-> verdict, code |-> run.code, ran |-> run.ran, killed |-> run.killed, left |-> FALSE,
   broken |-> run.broken, printed |-> "timeout" \in run.printed,
   cut |-> run.wrote.out > run.out.kept,
   big |-> run.wrote.out > OutputLimit \/ run.wrote.err + MarkerSize > OutputLimit]

(* MkdirTemp or Chmod fails; or WriteFile, after the removal is deferred.  *)
PrepareFails ==
  /\ phase = "prepare" /\ phase' \in {"next", "removing"}
  /\ results' = Append(results, Result("system_error"))
  /\ UNCHANGED <<tests, limit, run, outcome>>

Start ==
  /\ phase = "prepare" /\ phase' = "starting"
  /\ UNCHANGED <<tests, limit, run, results, outcome>>

Go(from, to) == phase = from /\ phase' = to /\ UNCHANGED <<tests, limit, results, outcome>>

(* docker fails, before, while or after the program runs: it cannot be     *)
(* started or is killed by a signal (no exit code), or it exits with a     *)
(* code of its own.  One from 125 stands for exec.ErrNotFound as well,     *)
(* which RunTestCase takes for the same.  The container may stay.          *)
DockerFails ==
  /\ Go("starting", "ended") \/ Go("running", "ended") \/ Go("closing", "ended")
  /\ \E c \in DockerCodes \cup {-1}, b \in BOOLEAN :
       run' = [run EXCEPT !.broken = TRUE, !.code = c, !.box = b]

Launch == Go("starting", "running") /\ run' = [run EXCEPT !.box = TRUE]

(* The program writes, full as the buffer may be.  What it writes to       *)
(* stderr may be the text of a marker: RunTestCase cannot tell who did.    *)
Emit(n) ==
  /\ Go("running", "running")
  /\ \/ run.wrote.out <= OutputLimit /\ run' = [run EXCEPT !.wrote.out = @ + n, !.out = Written(@, n)]
     \/ /\ run.wrote.err <= OutputLimit
        /\ \E S \in SUBSET Markers :
             run' = [run EXCEPT !.wrote.err = @ + n, !.err = Written(@, n), !.printed = @ \cup S]

(* The program has ended; the wrapper adds its markers to stderr and exits *)
(* with the code of the program.                                           *)
Wrapped(c, timedOut) ==
  run' = [run EXCEPT !.code = c, !.err = Written(@, MarkerSize),
                     !.added = IF timedOut THEN Markers ELSE {"runtime"}]

Exit(c) == Go("running", "closing") /\ Wrapped(c, FALSE)

(* Mutant: the limit is counted from the start of the docker command.      *)
TimesOutEarly == Go("running", "closing") /\ run.age >= limit /\ Wrapped(124, TRUE)

(* process.wait(timeout) expires and the wrapper kills the program.        *)
TimesOut == Go("running", "closing") /\ run.ran = limit /\ Wrapped(124, TRUE)

(* The docker CLI returns with the wrapper's code; --rm removes the        *)
(* container.  The deadline may pass before RunTestCase looks at it.       *)
DockerReturns ==
  /\ Go("closing", "ended")
  /\ \E late \in BOOLEAN :
       /\ late => run.age = limit + Grace
       /\ run' = [run EXCEPT !.box = FALSE, !.killed = late]

(* Mutant: docker runs without the context.                                *)
DeadlineNever == FALSE /\ UNCHANGED vars

(* The outer deadline kills the CLI but not the container, which may exist *)
(* although its program was never started.                                 *)
Deadline ==
  /\ run.age = limit + Grace
  /\ \/ Go("starting", "ended") /\ \E b \in BOOLEAN : run' = [run EXCEPT !.killed = TRUE, !.box = b]
     \/ Go("running", "ended") /\ run' = [run EXCEPT !.killed = TRUE]
     \/ Go("closing", "ended") /\ run' = [run EXCEPT !.killed = TRUE]

(* A unit of time, before which whatever is due happens.                   *)
Tick ==
  /\ phase \in {"starting", "running", "closing"} /\ run.age < limit + Grace
  /\ phase = "running" => run.ran < limit
  /\ run' = [run EXCEPT !.age = @ + 1, !.ran = IF phase = "running" THEN @ + 1 ELSE @]
  /\ UNCHANGED <<tests, limit, phase, results, outcome>>

(* pythonRuntime: both markers are in stderr, all of which was kept.       *)
TimedOut == run.added \cup run.printed = Markers

(* The verdict, matches saying whether equalTokens holds of what was kept. *)
(* A failure of docker without an exit code is a runtime error, and so is  *)
(* one with a code below 125.                                              *)
Verdict(matches) ==
  IF run.out.over \/ run.err.over          THEN "output_limit_exceeded"
  ELSE IF TimedOut                         THEN "time_limit_exceeded"
  ELSE IF run.killed \/ run.code >= 125    THEN "system_error"
  ELSE IF run.code # 0                     THEN "runtime_error"
  ELSE IF matches THEN "accepted" ELSE "wrong_answer"

(* RunTestCase returns; what remains of the run is its container.          *)
Judge ==
  /\ phase = "ended" /\ phase' = "removing"
  /\ \E matches \in BOOLEAN : results' = Append(results, Result(Verdict(matches)))
  /\ run' = [Ready EXCEPT !.box = run.box]
  /\ UNCHANGED <<tests, limit, outcome>>

(* Mutant: docker rm runs under the context of the run.                    *)
RemoveInRunContext ==
  /\ Go("removing", "next")
  /\ run' = [run EXCEPT !.box = @ /\ results[Len(results)].killed]

(* docker rm -f, within a deadline of its own.                             *)
Remove ==
  /\ Go("removing", "next")
  /\ run' = [run EXCEPT !.box = FALSE]

RemoveFails ==
  /\ phase = "removing" /\ phase' = "next"
  /\ results' = [results EXCEPT ![Len(results)].left = run.box]
  /\ UNCHANGED <<tests, limit, run, outcome>>

-----------------------------------------------------------------------------
(* The sum: the end of Run, and GradeJob.                                  *)

StatusOf(verdict) ==
  CASE verdict = "accepted"              -> "accepted"
    [] verdict = "time_limit_exceeded"   -> "time_limit_exceded"
    [] verdict = "output_limit_exceeded" -> "memory_limit_exceded"
    [] OTHER                             -> "wrong_answer"

Failed == {i \in DOMAIN results : results[i].verdict # "accepted"}
Score  == ((tests - Cardinality(Failed)) * 100) \div tests

(* Mutant: every testcase overwrites the status.                           *)
StatusLast == StatusOf(results[tests].verdict)

(* The status of the first testcase that is not accepted.                  *)
Status ==
  IF Failed = {} THEN "accepted"
  ELSE StatusOf(results[CHOOSE i \in Failed : \A j \in Failed : i <= j].verdict)

(* Mutant: one system error gives up the verdicts of the others.           *)
NothingRanAny == \E i \in DOMAIN results : results[i].verdict = "system_error"

(* "runner could not execute any testcase".                                *)
NothingRan == tests > 0 /\ \A i \in DOMAIN results : results[i].verdict = "system_error"

(* GradeJob fails, and is tried again, when Run fails and when there is no *)
(* result to store.                                                        *)
Grade ==
  /\ phase = "next" /\ Len(results) = tests
  /\ phase' = "done"
  /\ outcome' = IF NothingRan \/ tests = 0 THEN [status |-> "error", score |-> 0]
                                           ELSE [status |-> Status, score |-> Score]
  /\ UNCHANGED <<tests, limit, run, results>>

-----------------------------------------------------------------------------
RunnerStep == NextTest \/ PrepareFails \/ Start \/ Judge \/ Remove \/ RemoveFails \/ Grade
DockerStep == DockerFails \/ Launch \/ DockerReturns
Program    == (\E n \in Chunks : Emit(n)) \/ (\E c \in Codes : Exit(c))
TimeStep   == TimesOut \/ Deadline \/ Tick

Next == RunnerStep \/ DockerStep \/ Program \/ TimeStep

Spec == Init /\ [][Next]_vars

(* The code of the runner runs, time passes and the timers fire; nothing   *)
(* is assumed of the program or of Docker.                                 *)
FairSpec == Spec /\ WF_vars(RunnerStep) /\ WF_vars(TimeStep)

-----------------------------------------------------------------------------
(* Properties.                                                             *)

(* Types; Capped keeps the limit positive whatever the configuration and   *)
(* the problem say, and no stream keeps more than OutputLimit.             *)
RunnerTypeOK ==
  /\ tests \in 0..MaxTests /\ limit \in 1..Positive(MaxTime, 1)
  /\ phase \in Phases /\ Len(results) <= tests
  /\ run.box \in BOOLEAN /\ run.killed \in BOOLEAN /\ run.broken \in BOOLEAN
  /\ run.added \subseteq Markers /\ run.printed \subseteq Markers
  /\ \A b \in {run.out, run.err} : b.kept \in 0..OutputLimit /\ b.over \in BOOLEAN
  /\ run.age \in 0..limit + Grace /\ run.ran \in 0..limit /\ run.code \in -1..255
  /\ \A i \in DOMAIN results : results[i].verdict \in Verdicts
  /\ outcome.status \in Statuses \cup {"none", "error"} /\ outcome.score \in 0..100

(* Nobody is given a testcase for part of an output: accepted, the program *)
(* ended by itself, with 0 and within its limit, and all it wrote was      *)
(* compared; and output_limit_exceeded, it wrote more than the limit, the  *)
(* wrapper's own bytes included.                                           *)
NoCreditForCutOutput ==
  \A i \in DOMAIN results : LET t == results[i] IN
    /\ t.verdict = "accepted" => t.code = 0 /\ ~t.killed /\ ~t.cut /\ ~t.big
    /\ t.verdict = "output_limit_exceeded" => t.big

(* "Docker startup is outside the contestant's time budget": however slow  *)
(* Docker is, and wherever it fails, a program is told that it exceeded    *)
(* its limit only if it had all of its time or printed the marker itself,  *)
(* and is never told that it failed because Docker took too long.  (Docker *)
(* that fails in time, without an exit code or with one below 125, is      *)
(* charged to the program.)                                                *)
StartupNotCharged ==
  \A i \in DOMAIN results : LET t == results[i] IN
    /\ t.verdict = "time_limit_exceeded" => t.ran = limit \/ t.printed
    /\ t.verdict = "runtime_error" => ~t.killed /\ (t.code \in 1..124 \/ t.broken)

(* removeContainer: a container outlives its testcase only if docker rm    *)
(* failed, also when the CLI was killed by the outer deadline.             *)
ContainerGone ==
  phase \in {"next", "done"} /\ results # <<>> => (run.box => results[Len(results)].left)

(* A graded job has the full score if and only if it is accepted, so that  *)
(* a rejected one never counts as solved for the leaderboard.              *)
FullScoreIfAccepted ==
  phase = "done" /\ outcome.status \in Statuses =>
    ((outcome.score = 100) <=> (outcome.status = "accepted"))

(* A job is given back to the queue to be tried again only if no docker    *)
(* command of it came back in time with an exit code below 125, which is   *)
(* how the answer of a program is told from a failure of Docker.           *)
RetriedIfNothingRan ==
  phase = "done" /\ outcome.status = "error" =>
    \A i \in DOMAIN results : results[i].killed \/ results[i].code \notin 0..124

(* A stuck Docker command does not hang forever: every job gets an outcome.*)
RunReturns == <>(phase = "done")
=============================================================================
