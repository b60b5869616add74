# A formal model of ddp0_grader

ddp0_grader is the service that grades Python submissions: an HTTP API accepts a
submission, stores it, and puts a job into a Redis stream; worker goroutines take
jobs from the stream, run the program once per testcase in a Docker container,
and store results, best score and verdict in PostgreSQL. Administrators edit the
problems, their testcases and their thumbnails through the same API, and a few
commands import users and seed problems. This directory holds TLA+ models of the
parts of it that are hard to test, the TLC instances that check them, and TLAPS
proofs that do not depend on the size of an instance.

## The system

| Component | State it keeps | Operations | Talks to |
|---|---|---|---|
| Job queue (`pkg/queue/queue.go`) | Redis: stream, consumer group with its pending list (PEL), retry sorted set, dead-letter stream; per worker: the message in hand, the loop it is in | `Enqueue`, `WorkNWithExhaustedHandler` (`work`, `handleMessage`, `retryOrDeadLetter`, `promoteDueRetries`, `ack`) | calls the handler and the exhausted callback of the grading use case |
| Grading use case (`app/usecase/grading`) | tables `submissions`, `progresses`, `test_case_results` | `Submit`, `GradeJob`, `MarkJobExhausted` | called by requests and by workers; calls the queue, the repositories, the runner |
| Runner (`pkg/runner/runner.go`) | a directory, a container and two limited buffers for the time of one testcase | `New`, `Run`, `RunTestCase`, `removeContainer` | Docker, and in the container the wrapper `pythonEntrypoint` |
| Catalogue (`app/usecase/problem`, `app/usecase/testcase`, their controllers and repositories) | tables `problems`, `test_cases`, row locks | create, update, delete | the thumbnail storage; the seeding commands write the same tables |
| Thumbnails (`thumbnail_storage.go`, `thumbnail.go`) | objects in an S3 bucket, the key in the row of a problem | upload, replace, remove, sign a URL | S3 |
| Rate limiter (`rate_limiter.go`, `limitGrade`) | one Redis counter with a time to live per user | `Allow` | before `Submit`, on one of its two routes |
| Users (`ensureUser`, `user_repository.go`, `cmd/migrate_users`) | table `users` with a unique email | look up, ask Django, store, import | Django |
| Leaderboards (`leaderboard_repositoy.go`) | none: three queries over `users`, `progresses`, `submissions` | reads | |
| Authentication, progress lists, admin review, configuration, health | none | checks and reads of one request | |

One process runs the API and `graderWorkers = 4` workers (`cmd/api/main.go:25`
and `:86`); several such processes share one Redis and one database. The workers'
context is `context.Background()`: they stop only with their process.

Which behaviours are hard:

* **Interleaving.** Between two calls of Redis, the database, Django or S3 of one
  request or worker, any other may act. `XAUTOCLAIM` gives an entry to another
  worker while its owner may still be busy with it. `GradeJob` writes three
  tables in three calls and without a transaction. An update of a problem or a
  testcase saves a row it read earlier, whole.
* **Failure.** A call fails, or takes effect and its reply is lost; the Redis
  client may send a call again; a process dies with messages pending under
  consumer names nobody will use again; Docker does not start, or never returns.
* **Time.** `ClaimIdle` (two minutes) decides that a pending entry is abandoned,
  `RetryDelay` when a failed job runs again; a program has a limit inside the
  container and a longer one outside of it; the counter of the limiter expires.
* **Stale state.** A job carries a snapshot of the submission, saved whole at the
  end of grading; a thumbnail key that was read may be replaced before it is used.

What makes each component correct:

* queue: no accepted job vanishes; every entry stays reachable; jobs settle; a
  job is dead-lettered only after `MaxAttempts` failures and after its callback;
  when handling fits in `ClaimIdle`, one worker handles an entry and one copy of
  a job exists;
* grading: a verdict is visible only with its results and best score; a best
  score is earned and never drops; the status of a row is how its job left the
  queue; one key makes one submission, of one user; accepted submissions settle;
* runner: no credit for an output that was cut, no blame for the time Docker
  takes, no container left behind, an answer whatever hangs, full score exactly for
  accepted jobs;
* catalogue and thumbnails: creations never pass the limit of testcases together,
  a problem names an object that is stored, error paths leave no object behind,
  no transaction keeps its lock;
* limiter and users: a window bounds a burst and ends, `Retry-After` is long
  enough, nobody submits without a stored row, no row of another user is taken;
* leaderboards: the three of them agree, also while gradings are under way.

## Modules

| Module | Models |
|---|---|
| `JobQueue` | `pkg/queue/queue.go`: one action per Redis call |
| `JobDelivery` | what a queue promises its users: each job is accepted, attempted, and let go as done or given up |
| `JobQueueRefinement` | `JobQueue` as an implementation of `JobDelivery` |
| `Grading` | `app/usecase/grading` and the tables it writes, composed with `JobQueue` |
| `Runner` | `Run` of one job with the program, the wrapper, Docker and the clock, and the sum `GradeJob` makes |
| `Catalogue` | concurrent requests on problems, testcases and thumbnails, and the seeding commands |
| `RateLimiter` | the counter, its expiry, and `Retry-After` |
| `ScoreTables` | `progresses` and `submissions` as their readers may count on them: what `Submit`, `GradeJob` and `MarkJobExhausted` do to them in the end |
| `Accounts` | the table `users`, the import, and the leaderboards over the tables of `ScoreTables` |
| `Gateway` | a grading request from its token to `Submit`: composes `RateLimiter` and `Accounts` |
| `…Proofs` | the theorems about the module of that name; those about `JobQueue` are in two, `JobQueueProofs` and `JobQueueCopyProofs`, which builds on the first; `DataLemmas` holds what they need of sums over finite sets |
| `MC…` | the instances for TLC |

`Grading` EXTENDS `JobQueue`, `Gateway` EXTENDS `RateLimiter` and `Accounts`,
`JobQueueRefinement` INSTANCEs `JobDelivery`. The runner meets `Grading` in one
place: `RunGrader` there is any outcome of `Runner`, `RunFails` its `error`.

The gateway meets `Grading` in the tables. `ScoreTables` says what may become of
them; `Accounts` EXTENDS it, and `Grading` implements it (`TablesKept`, checked
by `grading_steal`, proved as `TablesAreKept`). So what is shown of the
leaderboards rests on nothing that is not shown of `GradeJob`, be it that two
workers grade a submission at once or one grades it again. All verdicts but
`accepted` are `rejected` there. `Grading` is about one problem, `ScoreTables`
about any number: no call of `Submit` or `GradeJob` writes the rows of two.

### JobQueue and the code

A stream entry is named by the position of its `XADD`, so ids are ordered as in
Redis. `log` is what each entry holds, `stream` the entries `XDEL` has not
removed, `delivered` the last id the group has delivered, `owner` the PELs,
`idle` the pending entries older than `ClaimIdle`, `retry`/`due` the sorted set
and its members in the past, `dead` the dead-letter stream. `at[w]` is the call
worker `w` makes next, `msg[w]` the entry it is handling, and `loop[w]` which of
the two loops of `work` it returns to.

Each Redis command, `MULTI/EXEC` pipeline or Lua script is one action, whose
guard is the position of the worker in the code:

| Action | Code |
|---|---|
| `Enqueue` | `Enqueue` |
| `EnsureGroup` | `ensureGroup` at the start of `work` |
| `RecoverOwn`, `Recovered` | the first loop of `work` (`XREADGROUP` from 0) |
| `Promote` | `promoteDueRetries` |
| `AutoClaim`, `NothingToClaim` | `XAUTOCLAIM` with `COUNT 1` |
| `ReadNew`, `NothingNew` | `XREADGROUP >` |
| `HandlerOk`, `HandlerErr`, `Exhausted` | the return of the handler, of the exhausted callback |
| `Ack`, `Reschedule`, `Bury` | `ack`, and the two pipelines of `retryOrDeadLetter` |
| `CallFails`, `Reconnect` | an error of any call, and the backoff of `workWithReconnect` |
| `Crash`, `Restart` | the process of some workers dies; the next one has new consumer names |
| `IdleExpires`, `RetryDue` | time passes |

Every call has three outcomes: it takes effect and the worker goes on; it takes
effect and the reply is lost (`ReplyLost`: an error, or, if `Resend`, the client
sends the call again); it does not take effect (`CallFails`). An entry in a
worker's hands becomes idle only if its job is in `SlowJobs`: with
`SlowJobs = {}` handling always fits in `ClaimIdle`, which the comment on
`ClaimIdle` in `New` asks for; with slow jobs the model shows what remains true
when it does not fit.

`ForeignAdd` stands for another producer that writes an entry without a job, the
case that `handleMessage` treats as a poison message.

### Grading and the code

All calls of `Submit` are for one problem; `UserOf` and `KeyOf` give the caller
and the idempotency key of each. A submission is named by the call that may
create it. `req[r]` is the next database or queue call of `Submit`, `stage[w]`
that of `GradeJob` on worker `w`. `HandlerOk`, `HandlerErr` and `Exhausted` of
`JobQueue` happen together with the last call of `GradeJob` or
`MarkJobExhausted`, for the handler returns right after it. `ServedBy` says which
process serves a call: it begins when that process runs, and a crash of it takes
the call along (`Underway`), while those of the other processes go on.

A row is its status, its score and whether it still has its key: `db.Save`
writes every column, and the submission in a job has no key (`json:"-"`). The
statuses `accepted`, `wrong_answer` and the two limits are one value, `graded`:
no code here tells them apart. The lookups of the problem and of the user before
the progress row are reads, or an insert of the same user; their failure is
`SubmitFails`.

### Runner and the code

`phase` is where `Run` is with the testcase `run` describes: its container, what
the program wrote and what the two buffers kept of it, the markers
(`__GRADER_PYTHON_TIMEOUT__` and the one of the run time) the wrapper has added
to stderr and those the program has printed there itself, the time since
`RunTestCase` began and the time the program had, the exit code, whether docker
has failed, and whether the outer deadline had passed when it was done.
`limitedBuffer.Write` is `Written`; bytes are counted, not kept. The comparison
of the tokens is a choice (`Judge`), which only the order of the verdicts
(`Verdict`) decides the use of. `Wrapped` is the end of `pythonEntrypoint`: what
it adds to stderr goes through the same buffer, so a full stderr swallows the
timeout marker. `pythonRuntime` looks for the markers anywhere in stderr, so
`TimedOut` takes those of the program for the wrapper's. `DockerFails` is a CLI
that fails before, while or after the program runs, with an exit code of its own
or without any (it cannot be started, or dies of a signal). `Deadline` kills the CLI and leaves the container, which is why
`removeContainer` runs for every testcase and in a context of its own. Exit
codes from 125 are taken for Docker's, whoever used them (`runner.go:224`).

### Catalogue and the code

A request is one operation of a handler; `req[r].step` is the call it makes
next. `seen` is what the handler read first (the old key, or the testcase) and
`copy` what the use case read again (`GetProblemByID`), so that both stale reads
of the code are there. Of a problem row only the thumbnail key is kept. A fresh
id, of a testcase or an object, is named by the request that makes it.

| Action | Code |
|---|---|
| `Create`, `Edit`, `Reject`, `Look` | the handlers up to their first read |
| `Find`, `Store`, `Write`, `WriteFails`, `WriteLost` | `Update`, `SetThumbnailKey`, `Delete` of the use case |
| `Put`, `PutFails`, `Drop`, `DropFails`, `Cleanup` | the calls of the thumbnail storage and their error paths |
| `Lock`, `Count`, `Insert`, `AddFails` | the transaction of `CreateTestCaseIfUnderLimit` |
| `FindTest`, `SaveTest`, `DeleteTest`, `ChangeFails` | `Update` and `Delete` of a testcase |
| `SeedProblem`, `Upsert` | the transactions of `cmd/seeding_problem`, `cmd/seed` and `cmd/seed_uas` |

`SaveTest` is gorm's `Save`: an UPDATE and, if it finds no row, an INSERT, which
is how an update brings back a testcase deleted under it. Three history
variables name the exceptions the properties make: `revived` (such testcases),
`suspect` (problems whose key came from a stale read or from a save reported as
failed), `leaked` (keys a failing storage leaves, any key once requests overlap).

### Gateway, RateLimiter, Accounts and the code

`step[r]` walks a request through `NewJWTAuthMiddleware`, `limitGrade`,
`gradeSubmission` and `ensureUser` to `Submit`. `LookupUser`, `AskDjango`,
`StoreUser` and `RecheckUser` are the calls of `ensureUser`, between which other
requests and `Import` (`cmd/migrate_users`, one statement for the whole file)
act. `OpenProgress` and `SaveSubmission` are the calls of `Submit` that write
tables; from then on `Grade` may do to the submission, at any time and again,
what `ScoreTables` allows. `Publish` waits there for the best score: in the code
`UpdateBestScore` is called before `SaveSubmission`, and that this is enough is
what `TablesKept` says of `Grading`. `recent` and `wait` are history: what was allowed in the last ticks, and
what is left of the `Retry-After` last given. The leaderboards are the sets of
rows their SQL returns, the grouping of sums and joins included.

## Runs

| Run | Instance | Shows |
|---|---|---|
| `queue_safety` | 2 jobs, 2 processes of one worker, 2 attempts, 3 faults, `MaxId` 4 | types, one copy of a job, one worker per entry, no early burial, runs bounded by attempts and faults |
| `queue_refines` | 1 job, 2 workers of one process, 2 attempts, 2 faults, 1 poison entry, `MaxId` 3 | `JobQueue` implements `JobDelivery` with its fairness; jobs settle; poison leaves for good |
| `grading_safety` | 2 calls with one key, 1 worker, 2 attempts, 1 fault, scores 0 and 100, `MaxId` 4 | best scores are earned, results are duplicated only by failures and faults, the status of a row is how its job left the queue, and is final from then on (`FinishedStays`) |
| `grading_steal` | 1 slow submission, served by the first of 2 processes, 1 attempt, 1 fault, calls sent twice, `MaxId` 3 | what remains true when two workers grade one submission, the promises of `ScoreTables` included (`TablesKept`) |
| `grading_intake` | 3 calls with one key, the third by another user, 1 worker | answers belong to the caller; one row until grading starts |
| `grading_settles` | 2 calls, the first with a key, 1 worker, 2 attempts, failing database calls and gradings, no fault of the queue, `MaxId` 4 | accepted submissions settle, also when the retry set is larger than the batch of a promotion |
| `runner` | 2 testcases at most, a limit of 1 tick, grace of 1, buffers of 1 byte, a marker of 1, writes of 1 or 2, exit codes 0, 1 and 125, a docker that fails with 1, 125 or no code | verdicts, containers, scores and retries, and that every job gets an outcome |
| `catalogue` | 3 overlapping requests, 1 problem, limit 2, 1 old testcase, 1 or 2 seeded ones | the limit, the thumbnails, the bucket, the lock |
| `gateway` | 2 limited requests of a user and a quiz request of another, limit 1 in 3 ticks, 2 ticks to a second, an import that gives one user the email of the other | limiter, users and leaderboards |
| `grading_idempotent` | 2 calls with one key, no fault | violated: see below |
| `grading_recovers` | 2 calls with one key, 1 fault | violated: see below |
| `thumbnails_unavailable` | 2 requests, storage not configured | violated: see below |

### Bounds

`MaxId` bounds the `XADD`s to the stream and `MaxFaults` the faults. Entries are
made by `Enqueue`, by promotions and by calls sent twice, so in each instance
`MaxId` covers what the attempts and faults of the instance can make; the
instances report no deadlock, that is, no worker is ever stopped by the bound.
`MaxAttempts` is 2 where the retry matters (first, middle and last attempt
coincide in two) and 1 where it does not. `PromoteBatch` and `ClaimScan` are 1,
the smallest values, which makes the batches of 100 and 10 of the code overflow
with two jobs. Two workers suffice for theft, races and a survivor of a crash;
two jobs for a job behind another. Symmetry is used only in runs without
liveness properties.

In `grading_settles`, two jobs that both failed once are due together and a
promotion moves one of them. It has no crash and no lost reply: `EveryJobSettles`
has two faults on the queue's side, and what a crash does to the status of a row
is `StatusMatchesQueue`.

In `runner`, a buffer of one byte is filled exactly, crossed by one write and
crossed by the marker alone; the limit asked for is negative, zero, in range or
above the largest one; two testcases are enough for a failure before and after a
success. The program stops writing to a stream once that stream has exceeded the
limit (`Emit`), since all larger amounts are alike. In `catalogue`, three requests are one more
than any race of this code takes; the limit of two is reached by one old
testcase and one creation and passed by a second one, were it not for the lock.
In `gateway`, a window of three ticks has a beginning, a middle and an end and
is not a whole number of seconds, so that rounding shows. The counter of the
limiter stops at one above the limit, where all values are alike.

`runner`, `catalogue` and `thumbnails_unavailable` do not check deadlock, for
their jobs and requests end.

### Fairness

`Fairness` (and `GradingFairness`) is weak fairness of each worker's next step,
of the restart of a process, and of time. A worker's next step is justified by
its loop: every Redis call returns or fails, and `workWithReconnect` calls `work`
again after a backoff; the runner bounds each run by timeouts (`RunReturns`). The
restart is an assumption on the deployment. Nothing is assumed of producers, of
faults (there are finitely many of them in an instance, but none has to happen)
or of the outcome of a handler. Weak fairness suffices, for no other actor can
disable a worker's next step for ever.

`FairSpec` of `Runner` is weak fairness of the code of the runner and of the
clock with its timers: nothing is assumed of Docker or of the program, which is
what `RunReturns` is about. `FairSpec` of `Catalogue` is weak fairness of the
database calls of each request, none of the storage. `FairGatewaySpec` is weak
fairness of time: the counter expires without anybody's help.

### What the violated runs show

* `grading_idempotent`: the job in the queue has lost `IdempotencyKey`
  (`app/models/submission.go:17`, `json:"-"`), and every save of a worker writes
  the whole row (`grading.go:212`, `:263`, `:277`), so the key is erased with the
  verdict. A retry that arrives after grading makes a second submission. While
  no worker has started on the row, the key holds (`OneRowUntilGrading`, proved).
* `grading_recovers`: the row is written before the job is enqueued
  (`grading.go:144`, `:158`). After a crash in between, or when `Enqueue` fails and
  the row cannot be marked (`:166`), the retry with the key is answered with a
  queued submission that no job will ever grade. A third way needs no retry and
  no crash: `SaveSubmission` stores the row and reports an error, the lookup of
  `:148` finds that very row, takes it for the winner's and returns it, and nobody
  enqueues it. `AcceptedSettles` leaves out exactly these submissions: those with
  a key that no call has enqueued.
* `thumbnails_unavailable`: without the S3 variables `main.go` passes a nil
  `*S3ThumbnailStorage` as an interface, which is not nil. The check that should
  answer 503 (`problem_controller.go:142`) never fires; `Upload` panics and gin
  answers 500. The comment at `main.go:72` promises that the endpoint reports
  unavailable storage.

### What else reading the code against its documents showed

* `pkg/README.md:135` says that a message whose handler failed stays pending.
  `retryOrDeadLetter` acknowledges and deletes it and keeps a copy in the retry
  set. `NoJobLost` holds all the same.
* Ten testcases of the longest limit can take 10 x (1 + 10 + 5) = 160 seconds
  with slow containers, more than `ClaimIdle`, which `cmd/api/main.go:42` sets
  to 120.
  `grading_steal` is the instance in which that happens; the properties that
  need handling to fit in `ClaimIdle` are stated for timely jobs.
* `runner_test.go:50` expects an infrastructure error when docker cannot be
  started, and gets it for a binary that is not in the PATH. Every other failure
  of docker is a runtime error, and so a wrong answer of the program, unless the
  CLI exits with 125 or more (`runner.go:219`): an absolute path that does not
  exist, a fork that fails, a CLI that dies of a signal or exits with 1.
  `StartupNotCharged` says what is left: such a verdict is never one of time.
* A program that prints the text of the two markers to stderr is told
  `time_limit_exceeded` although it had time left (`runner.go:277`);
  `StartupNotCharged` names it.
* An exit code of 125 or more is a system error, also when the program chose it,
  and a job all of whose runs end so is tried again (`RetriedIfNothingRan` says
  exactly that).
* The two commands that seed the UAS problem disagree once the weights reach 100
  and the score so far is enough: `expected` (`cmd/seed_uas/main.go:129`) gives
  `Tidak bisa!`, `uasExpected` (`cmd/seeding_problem/main.go:285`) gives `0.00`.
* `SetThumbnailKey` (`usecase/problem/problem.go:100`) is said to update only the
  storage reference; it saves the whole row it has read. In the model that is
  the stale read of `Find` and `Write`.

## Proofs

All theorems hold for any number of jobs, users, keys, workers, processes,
requests, problems and testcases and for any bound, from the named assumptions
on the constants (positive limits, disjoint processes, sentinels that are not
values); TLC evaluates them in the runs. What the timing of `ClaimIdle` decides
is assumed by name where it is needed: `Timely` (`SlowJobs = {}`) and `~Resend`.
Everything else is proved with slow jobs and calls sent twice included.

`DataLemmas`:

* A sum over a finite set is a fold of the community modules, and the provers
  cannot instantiate the library's induction theorems. What the sums here need
  (`TotalTakesAny`, `TotalOfPart`, `TotalShifted`) is proved from a
  smallest counterexample instead: a finite set has a smallest subset with a
  given property (`SmallestSubset`), by the well-foundedness the library proves.

`JobQueueProofs`:

* `TypeCorrect`, `NothingIsStranded`: from the inductive invariant
  `Core == TypeOK /\ EntriesInv /\ HandsInv`. `NothingStranded` alone is not
  inductive: `Ack` keeps it only if the entry in hand has been delivered, which
  `HandsInv` says; `HandsInv` in turn needs that an entry never changes
  (`Growth`) and that owned entries are delivered ones (`EntriesInv`).
* `NoJobIsLost`: `NoJobLost` is preserved by every step from a `Core` state. The
  steps that remove an entry are the interesting ones: at `ack` the job has
  succeeded (`HandsInv`), at `retry` the copy goes into the sorted set in the
  same step, and likewise for `bury`; `Promote` moves a set of loads one to one.

* `BurialIsLate`, from `AttemptInv`: the attempt counter of every copy, in the
  stream and in the retry set, is covered by failures of the handler, so the
  comparison in `retryOrDeadLetter` never runs ahead of them.

`JobQueueCopyProofs`, for timely jobs:

* `HandlingIsExclusive`, from `OwnershipInv`: an entry in the hands of a worker is
  in its PEL and is not idle, so that `XAUTOCLAIM` cannot give it away.
* `OneCopy` and `RunsAreBounded`, without calls sent twice, from `CopyInv` and
  `RunsInv`: a job that is not enqueued yet has no copy; each entry or retry of a
  job has had no more runs than its attempts and the faults so far, plus the one
  under way.
* `QueueInvariant`: all of `QueueInv`.

`JobQueueRefinementProofs`:

* `DeliveryIsSafe`: `Spec => Delivery!Safety`. Each step of the queue maps to a
  `Take`, `Succeed`, `Fail`, `Finish`, `GiveUp` or a stutter of `JobDelivery`, from
  `RefinementInv`; `BuriedInv` (a buried job has no copy left) is what makes a
  second burial and an attempt after the burial impossible. The fairness of
  `JobDelivery` stays with `queue_refines`.

`GradingProofs`:

* `TablesAreKept`: `GradingSpec => TablesKept`, with slow jobs and calls sent
  twice. From `Kept == Indexed /\ RowsInv`, the second of which says that a call
  makes its row once and before it enqueues the job, every step maps to one step
  of `ScoreTables` or to a stutter. `SaveProgress` is a `StartProgress` also when
  its error is reported; what a submission graded again saves over its verdict
  is a `GiveUp`, or a `Publish` for which `InGrading` has the best score.
* `QueueIsRespected`: `GradingSpec => Spec`, so what is proved of the queue holds
  of the whole (`NoSubmissionIsLost`).
* `GradingTypeCorrect`, `VerdictIsBacked`, `BestIsEarned`, `BestScoreNeverDrops`:
  from `Stored == Core /\ GradingTypeOK /\ ScoresInv`. A verdict is backed
  because `GradeJob`, wherever it is, has in the tables what the calls before
  wrote (`InGrading`), results only grow, and best scores never drop; the last
  needs a progress row under every job (`ProgressInv`), hence that every copy in
  Redis is of an enqueued job (`Known`).
* `AnswersAreCallers`, `OneRowPerKey`: from `Indexed == Stored /\ KeysInv`. A row
  has its key until a worker has started on the job (`Started` ties a worker in
  its handler to the job's runs), and the index keeps keyed rows apart.
* `ResultsArePaidFor`, for timely jobs and calls sent once: `ResultsInv` says of
  each job that all of its batches are paid for, unless a worker has stored one
  and not acknowledged yet, or the job has left the queue (`Spent`). Such a worker
  is the only one with the job (`SoleHolder`), and what makes it lose the entry
  without removing it is a failure or a fault (`SpentStays`).
* `StatusIsTold`, for the same: the row says how the job leaves already when the
  worker is about to acknowledge or bury it (`Closing`), nobody else can write it
  then, and nothing brings a job back that has left (`Holdings`).

* `FinishedIsFinal`, for the same: once a job has left the queue and `Submit`
  has returned, no worker holds it and no copy can come back, so no step writes
  its row or results.
* `SubmissionsAreDelivered`: `GradingSpec => Delivery!Safety`, the abstract
  delivery behind the whole system, from `QueueIsRespected` and `DeliveryIsSafe`.

`RunnerProofs`, from `RunInv`:

* `Streams` says of each buffer that it holds all that was written to it or says
  that it does not, the wrapper's bytes included once the CLI succeeds; with what
  each phase knows (`Progress`: the wrapper's timeout marker is there only after
  the whole limit, and a CLI without an exit code was killed or has failed) and
  the order of the verdicts that gives `Says`, which `OutputIsWhole`, `StartupIsFree` and `RetriesAreClean` read off.
* `FullScore` is arithmetic: `((t - f) * 100) \div t = 100` only for `f = 0`
  (`Percent`), and the first failed testcase exists (`LeastNumber`).
* `ContainersGo`, `RunnerTypes`.
* `JobsDescend`: `Rank`, made of the testcases, phases, time and output that are
  left, is a natural number that every step lowers, those of Docker and of the
  program too. So a job has finitely many steps; that it cannot stop before its
  end needs ENABLED and is `RunReturns`.

`CatalogueProofs`, from `CatalogueInv == Typed /\ Reads /\ TestsInv /\ KeysInv`:

* `LimitSafety`: who has counted holds the lock (`Locked`), and who is about to
  insert has left room (`Room`), which no other creation can use up without the
  lock.
* `ThumbnailSafety`: a key belongs to one problem (`Tied`), whoever has read it
  included, and a key that was given up is named by no row again unless the
  problem is `suspect`; so a `Drop` removes only what nothing names.
* `BucketSafety`, from `LeakInv`: as long as no two requests overlapped, every
  object in the bucket that is not in `leaked` is named by a row or is in transit
  of the only request under way (`InTransit`: just put, or given up and not
  dropped yet).
* `CatalogueTypes`, with the foreign key of testcases.

`GatewayProofs`, from `GateInv == LimiterInv /\ AccountsInv /\ RequestInv`:

* `RetryAfterSafety`: rounding up covers the rest of the window when the answer
  is given, and both shrink by the same tick; a new window forgets the promise.
* `SubmitterSafety`, `ImportSafety`: what a request at each step of `ensureUser`
  knows of its user (`Fetching`, `Known`), and that an import only meets requests
  in `Busy` (`Racing`).
* `AcceptedSafety`: an accepted submission has a best score of 100 behind it
  (`Raised`), for `Publish` waits for it and best scores only grow.
* `BurstSafety`, from `Windows`: what was allowed since the key was created is
  bounded by its counter and by the limit, and what was allowed before that and
  lies within the last `Window` ticks, by the limit.
* `BoardsSafety`: emails are unique and a user has one row for a problem, so the
  sum over the leaderboards of the problems is the sum over the rows
  (`BoardsMatch`).

Only model-checked: liveness (`EveryJobSettles`, `PoisonLeaves`,
`AcceptedSettles`, `RunReturns`, `RowUnlocked`, `WindowEnds`) and the fairness of
the refinement, which need ENABLED and are out of the prover's reach.

## Not modelled

* Trimming of the dead-letter stream at about 10,000 entries (`queue.go:295`):
  older dead letters vanish, and no code reads them. Loss of Redis or database
  contents; deletion of a problem while its submissions are graded.
* What becomes of the loser of two first submissions of a user for a problem:
  `SaveProgress` fails on the unique index and `Submit` returns the error
  (`grading.go:129`). `CreateProgress` of `Grading` has the failure, but no
  document says what the user may expect, so no property is about it.
* What the seeding commands compute: generated inputs and expected outputs are
  straight-line functions of constants; and that `Assign` in
  `cmd/seed/main.go:38` skips fields that are zero.
* What docker itself writes to stderr, and a daemon that finishes the creation of
  a container after `docker rm`.
* Reads that change nothing: lists and their filters, progress pages, the paging
  of the admin review, which counts and selects in two statements.
* The parsing of tokens and the admin check, functions of one request; start-up,
  configuration and health; wording, logging, JSON; the signatures of S3
  requests; the values of run times and memory limits.

## Plan

The components named above are modelled, and every safety property the runs
check is proved. What is left to do: larger
instances of `grading_steal` (a third process, or two submissions of one user at
a time), which take TLC longer than the five minutes the others need.
