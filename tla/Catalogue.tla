----------------------------- MODULE Catalogue -----------------------------
(***************************************************************************)
(* Problems, their testcases and their thumbnails: the handlers of         *)
(* problem_controller.go and testcase_controller.go with the use cases and *)
(* repositories they call, and the seeding commands.  Requests run         *)
(* concurrently; every call of the database or of the object storage is a  *)
(* step of its own.                                                        *)
(*                                                                         *)
(* Of a problem row only the thumbnail key is kept, of a testcase only its *)
(* id.  Fresh ids are named by the request that makes them: request r      *)
(* uploads under key r and creates testcase r.                             *)
(***************************************************************************)
EXTENDS Naturals, FiniteSets

CONSTANTS Requests,    \* HTTP requests of administrators, one operation each
          Problems,    \* problem ids; a thumbnail older than the requests has the id of its problem
          OldTests,    \* OldTests[p]: testcases that may exist beforehand
          Seeded,      \* Seeded[p]: the testcases cmd/seed_uas inserts
          FirstSeeded, \* FirstSeeded[p]: those cmd/seeding_problem inserts
          Limit,       \* MaxPerProblem
          Configured,  \* whether the S3 variables are set
          None         \* no key, no lock

Absent == "no row"
Keys == Requests \cup Problems
Ids  == Keys \cup UNION {OldTests[p] \cup Seeded[p] : p \in Problems}

ASSUME CatalogueAssumption ==
  /\ Limit \in Nat \ {0} /\ Configured \in BOOLEAN
  /\ {None, Absent} \cap Ids = {} /\ None # Absent /\ Requests \cap Problems = {}
  /\ \A p \in Problems : FirstSeeded[p] \subseteq Seeded[p] /\ IsFiniteSet(Seeded[p] \cup OldTests[p])

VARIABLES
  row,     \* row[p]: its thumbnail key, None without one, Absent without a row
  tests,   \* tests[p]: ids of its testcases
  objects, \* keys of the objects in the bucket
  lock,    \* lock[p]: the request whose transaction holds SELECT ... FOR UPDATE
  req,     \* req[r]: what request r has read and what it does next
  born,    \* problem ids in use so far
  revived, \* revived[p]: testcases an update inserted again after their deletion
  suspect, \* problems whose key was saved from a stale read, or by a save reported as failed
  leaked   \* keys a failed or unreported call leaves behind: any, once two requests overlap

tables  == <<row, tests, born>>
history == <<revived, suspect, leaked>>
vars    == <<tables, objects, lock, req, history>>

Kinds == {"create", "edit", "remove", "upload", "unset", "addTest", "editTest", "removeTest"}
Steps == {"idle", "find", "put", "write", "drop", "cleanup", "lock", "count", "insert", "change", "done"}
Codes == {0, 200, 201, 204, 400, 404, 500, 502, 503}
Fresh == [kind |-> "create", step |-> "idle", on |-> None, seen |-> None, copy |-> None, code |-> 0]

(* Types, and the foreign key: a testcase has a problem.                   *)
CatalogueTypeOK ==
  /\ \A p \in Problems : row[p] = Absent => tests[p] = {}
  /\ row \in [Problems -> Keys \cup {None, Absent}]
  /\ tests \in [Problems -> SUBSET Ids]
  /\ objects \subseteq Keys /\ leaked \subseteq Keys
  /\ lock \in [Problems -> Requests \cup {None}]
  /\ req \in [Requests -> [kind : Kinds, step : Steps, on : Problems \cup {None},
                           seen : Ids \cup {None}, copy : Keys \cup {None}, code : Codes]]
  /\ suspect \subseteq born /\ born \subseteq Problems
  /\ revived \in [Problems -> SUBSET Ids]

Init ==
  /\ row \in [Problems -> {Absent, None} \cup Problems]
  /\ \A p \in Problems : row[p] \in {Absent, None, p}
  /\ tests \in [Problems -> SUBSET UNION {OldTests[p] : p \in Problems}]
  /\ \A p \in Problems : /\ tests[p] \subseteq OldTests[p] /\ Cardinality(tests[p]) <= Limit
                         /\ row[p] = Absent => tests[p] = {}
  /\ objects = {p \in Problems : row[p] = p}
  /\ lock = [p \in Problems |-> None]
  /\ req = [r \in Requests |-> Fresh]
  /\ born = {p \in Problems : row[p] # Absent}
  /\ revived = [p \in Problems |-> {}] /\ suspect = {} /\ leaked = {}

-----------------------------------------------------------------------------
Idle(r)   == req[r].step = "idle"
Active(r) == req[r].step \notin {"idle", "done"}
At(r, s)  == req[r].step = s
Is(r, k)  == req[r].kind = k
On(r)     == req[r].on

(* Request r starts: it is past the first read of its handler, or refused. *)
Enter(r, kind, p, step, seen) ==
  /\ Idle(r)
  /\ req' = [req EXCEPT ![r] = [Fresh EXCEPT !.kind = kind, !.on = p, !.step = step, !.seen = seen]]
  /\ leaked' = IF \E q \in Requests : Active(q) THEN Keys ELSE leaked

(* The answer, kept only for an upload without a storage.                  *)
Answered(kind, code) ==
  IF kind = "upload" /\ ~Configured
    THEN [Fresh EXCEPT !.kind = kind, !.step = "done", !.code = code]
    ELSE [Fresh EXCEPT !.step = "done"]

AnswerAtOnce(r, kind, code) ==
  /\ Idle(r)
  /\ req' = [req EXCEPT ![r] = Answered(kind, code)]
  /\ leaked' = IF \E q \in Requests : Active(q) THEN Keys ELSE leaked

Go(r, step)  == req' = [req EXCEPT ![r].step = step]
End(r, code) == req' = [req EXCEPT ![r] = Answered(@.kind, code)]

(* The response shows the problem with a signed URL of its thumbnail: with *)
(* a nil *S3ThumbnailStorage that call panics, which gin answers with 500. *)
EndShown(r, code, key) == End(r, IF key # None /\ ~Configured THEN 500 ELSE code)

(* An upload that fails after its object is stored deletes the object.     *)
Abort(r, code) ==
  /\ req' = [req EXCEPT ![r] = IF Is(r, "upload") THEN [@ EXCEPT !.step = "cleanup", !.code = code]
                                                 ELSE Answered(@.kind, code)]

(* "controller.thumbnails == nil": main.go passes a *S3ThumbnailStorage    *)
(* through an interface, which is not nil when the pointer is.             *)
ThumbnailsNil == FALSE

(* A write of a problem row waits for a transaction that has locked it.    *)
Unlocked(p) == lock[p] = None

-----------------------------------------------------------------------------
(* Problems and thumbnails.                                                *)

(* A request whose body or input is refused before any call.  A failure of *)
(* the first read ends a request as this does, with 500.                   *)
Reject(r, k) ==
  /\ k \in {"create", "edit", "addTest", "editTest"}
  /\ AnswerAtOnce(r, k, 400)
  /\ UNCHANGED <<tables, objects, lock, revived, suspect>>

Create(r, p) ==
  /\ p \notin born
  /\ AnswerAtOnce(r, "create", 201)
  /\ row' = [row EXCEPT ![p] = None] /\ born' = born \cup {p}
  /\ UNCHANGED <<tests, objects, lock, revived, suspect>>

Edit(r, p) ==
  /\ Enter(r, "edit", p, "find", None)
  /\ UNCHANGED <<tables, objects, lock, revived, suspect>>

(* The answer after the first GetByID of delete, uploadThumbnail and       *)
(* deleteThumbnail, 0 when the handler goes on.                            *)
Refusal(k, p) ==
  IF k # "remove" /\ ThumbnailsNil    THEN 503
  ELSE IF row[p] = Absent             THEN 404
  ELSE IF k = "unset" /\ row[p] = None THEN 204
  ELSE 0

Look(r, k, p) ==
  /\ k \in {"remove", "upload", "unset"}
  /\ LET next == IF k = "upload" THEN "put" ELSE "find"
     IN  IF Refusal(k, p) # 0
           THEN AnswerAtOnce(r, k, Refusal(k, p))
           ELSE Enter(r, k, p, next, row[p])
  /\ UNCHANGED <<tables, objects, lock, revived, suspect>>

(* ThumbnailStorage.Upload, under a key of its own.                        *)
Put(r) ==
  /\ At(r, "put") /\ Configured
  /\ objects' = objects \cup {r}
  /\ Go(r, "find")
  /\ UNCHANGED <<tables, lock, history>>

(* No image in the form, a failed upload that stored the object or not, or *)
(* the panic of a nil storage.                                             *)
PutFails(r) ==
  /\ At(r, "put")
  /\ \/ End(r, 400) /\ UNCHANGED <<objects, leaked>>
     \/ End(r, IF Configured THEN 502 ELSE 500) /\ UNCHANGED <<objects, leaked>>
     \/ /\ Configured
        /\ End(r, 502)
        /\ objects' = objects \cup {r} /\ leaked' = leaked \cup {r}
  /\ UNCHANGED <<tables, lock, revived, suspect>>

(* GetProblemByID in Update, Delete and SetThumbnailKey.                   *)
Find(r) ==
  /\ At(r, "find")
  /\ IF row[On(r)] = Absent
       THEN Abort(r, 404)
       ELSE /\ req' = [req EXCEPT ![r].copy = row[On(r)], ![r].step = "write"]
  /\ UNCHANGED <<tables, objects, lock, history>>

(* A failed read; the input of an edit is refused after the read.          *)
FindFails(r) ==
  /\ At(r, "find")
  /\ \/ Abort(r, 500)
     \/ Is(r, "edit") /\ row[On(r)] # Absent /\ End(r, 400)
  /\ UNCHANGED <<tables, objects, lock, history>>

NewKey(r) ==
  CASE Is(r, "upload") -> r
    [] Is(r, "unset")  -> None
    [] Is(r, "edit")   -> req[r].copy
    [] Is(r, "remove") -> Absent

(* Mutant: the testcases of a deleted problem stay.                        *)
StoreAlone(r) ==
  /\ Unlocked(On(r))
  /\ row' = [row EXCEPT ![On(r)] = NewKey(r)]
  /\ UNCHANGED <<tests, born, objects, lock, revived>>

(* SaveProblem writes every column and inserts a row that is gone;         *)
(* DeleteProblem takes the testcases along.  An edit puts back the key it  *)
(* has read.                                                               *)
Store(r) ==
  LET p == On(r)
  IN  /\ Unlocked(p)
      /\ row' = [row EXCEPT ![p] = NewKey(r)]
      /\ tests' = [tests EXCEPT ![p] = IF Is(r, "remove") THEN {} ELSE @]
      /\ UNCHANGED <<born, objects, lock, revived>>

Stale(r) == Is(r, "edit") /\ row[On(r)] # req[r].copy

Write(r) ==
  /\ At(r, "write")
  /\ Store(r)
  /\ suspect' = IF Is(r, "edit")
                  THEN IF Stale(r) THEN suspect \cup {On(r)} ELSE suspect
                  ELSE suspect \ {On(r)}
  /\ IF req[r].seen = None
       THEN EndShown(r, IF Is(r, "remove") THEN 204 ELSE 200, IF Is(r, "remove") THEN None ELSE NewKey(r))
       ELSE Go(r, "drop")
  /\ UNCHANGED leaked

(* Mutant: the error of the save is answered without the cleanup.          *)
WriteFailsQuietly(r) ==
  /\ At(r, "write")
  /\ End(r, 500)
  /\ UNCHANGED <<tables, objects, lock, history>>

(* The write fails.                                                        *)
WriteFails(r) ==
  /\ At(r, "write")
  /\ Abort(r, 500)
  /\ UNCHANGED <<tables, objects, lock, history>>

(* The write takes effect and is reported as failed.                       *)
WriteLost(r) ==
  /\ At(r, "write")
  /\ Store(r)
  /\ suspect' = suspect \cup {On(r)}
  /\ leaked' = leaked \cup ({req[r].seen} \ {None})
  /\ Abort(r, 500)

(* Mutant: what the row names now is deleted, not what was read before.    *)
DropCurrent(r) ==
  /\ At(r, "drop") /\ Configured
  /\ objects' = objects \ {row[On(r)]}
  /\ IF Is(r, "upload") THEN EndShown(r, 200, r) ELSE End(r, 204)
  /\ UNCHANGED <<tables, lock, history>>

(* The object the row named when the handler started is deleted.           *)
Drop(r) ==
  /\ At(r, "drop") /\ Configured
  /\ objects' = objects \ {req[r].seen}
  /\ IF Is(r, "upload") THEN EndShown(r, 200, r) ELSE End(r, 204)
  /\ UNCHANGED <<tables, lock, history>>

(* Its failure is only logged; a nil storage panics.                       *)
DropFails(r) ==
  /\ At(r, "drop")
  /\ leaked' = leaked \cup {req[r].seen}
  /\ End(r, IF ~Configured THEN 500 ELSE IF Is(r, "upload") THEN 200 ELSE 204)
  /\ UNCHANGED <<tables, objects, lock, revived, suspect>>

(* The upload that is not referenced is deleted; a failure is only logged. *)
Cleanup(r) ==
  /\ At(r, "cleanup")
  /\ \/ objects' = objects \ {r} /\ UNCHANGED leaked
     \/ leaked' = leaked \cup {r} /\ UNCHANGED objects
  /\ End(r, req[r].code)
  /\ UNCHANGED <<tables, lock, revived, suspect>>

-----------------------------------------------------------------------------
(* Testcases.                                                              *)

AddTest(r, p) ==
  /\ Enter(r, "addTest", p, "lock", None)
  /\ UNCHANGED <<tables, objects, lock, revived, suspect>>

(* Mutant: the problem row is read without FOR UPDATE.                     *)
LockUnlocked(r) ==
  /\ At(r, "lock")
  /\ IF row[On(r)] = Absent THEN End(r, 404) ELSE Go(r, "count")
  /\ UNCHANGED <<tables, objects, lock, history>>

(* SELECT ... FOR UPDATE of the problem row.                               *)
Lock(r) ==
  /\ At(r, "lock") /\ Unlocked(On(r))
  /\ IF row[On(r)] = Absent
       THEN End(r, 404) /\ UNCHANGED lock
       ELSE Go(r, "count") /\ lock' = [lock EXCEPT ![On(r)] = r]
  /\ UNCHANGED <<tables, objects, history>>

Release(r) == lock' = [p \in Problems |-> IF lock[p] = r THEN None ELSE lock[p]]

(* Mutant: the transaction stays open when the limit is reached.           *)
CountHolding(r) ==
  /\ At(r, "count")
  /\ IF Cardinality(tests[On(r)]) >= Limit THEN End(r, 400) ELSE Go(r, "insert")
  /\ UNCHANGED <<tables, objects, lock, history>>

Count(r) ==
  /\ At(r, "count")
  /\ IF Cardinality(tests[On(r)]) >= Limit
       THEN End(r, 400) /\ Release(r)
       ELSE Go(r, "insert") /\ UNCHANGED lock
  /\ UNCHANGED <<tables, objects, history>>

(* The insertion, and the commit.                                          *)
Insert(r) ==
  /\ At(r, "insert")
  /\ tests' = [tests EXCEPT ![On(r)] = @ \cup {r}]
  /\ End(r, 201) /\ Release(r)
  /\ UNCHANGED <<row, born, objects, history>>

(* An error rolls the transaction back.                                    *)
AddFails(r) ==
  /\ req[r].step \in {"lock", "count", "insert"}
  /\ End(r, 500) /\ Release(r)
  /\ UNCHANGED <<tables, objects, history>>

(* GetTestCaseByID in Update and Delete; one that is not found is 404.     *)
FindTest(r, k, p) ==
  /\ k \in {"editTest", "removeTest"}
  /\ \E t \in tests[p] : Enter(r, k, p, "change", t)
  /\ UNCHANGED <<tables, objects, lock, revived, suspect>>

(* SaveTestCase: an UPDATE and, when it finds no row, an INSERT, which     *)
(* needs the problem and waits for its lock.                               *)
SaveTest(r) ==
  /\ At(r, "change") /\ Is(r, "editTest")
  /\ LET p == On(r)
         t == req[r].seen
     IN  \/ /\ t \in tests[p]
            /\ End(r, 200) /\ UNCHANGED <<tests, revived>>
         \/ /\ t \notin tests[p] /\ row[p] # Absent /\ Unlocked(p)
            /\ tests' = [tests EXCEPT ![p] = @ \cup {t}] /\ revived' = [revived EXCEPT ![p] = @ \cup {t}]
            /\ End(r, 200)
  /\ UNCHANGED <<row, born, objects, lock, suspect, leaked>>

DeleteTest(r) ==
  /\ At(r, "change") /\ Is(r, "removeTest")
  /\ tests' = [tests EXCEPT ![On(r)] = @ \ {req[r].seen}]
  /\ revived' = [revived EXCEPT ![On(r)] = @ \ {req[r].seen}]
  /\ End(r, 204)
  /\ UNCHANGED <<row, born, objects, lock, suspect, leaked>>

(* The call fails; so does the insertion when the problem is gone.         *)
ChangeFails(r) ==
  /\ At(r, "change")
  /\ End(r, 500)
  /\ UNCHANGED <<tables, objects, lock, history>>

-----------------------------------------------------------------------------
(* The seeding commands, one transaction each.                             *)

SeedRow(p) ==
  /\ Unlocked(p)
  /\ row' = [row EXCEPT ![p] = IF @ = Absent THEN None ELSE @]
  /\ born' = born \cup {p}
  /\ UNCHANGED <<objects, lock, req, revived, suspect, leaked>>

(* seedProblem: the testcases are replaced.                                *)
SeedProblem(p) ==
  /\ SeedRow(p)
  /\ tests' = [tests EXCEPT ![p] = FirstSeeded[p]]

(* cmd/seed and cmd/seed_uas: testcases are added or updated, none is      *)
(* removed and none counted.                                               *)
Upsert(p) ==
  /\ SeedRow(p)
  /\ tests' = [tests EXCEPT ![p] = @ \cup Seeded[p]]

-----------------------------------------------------------------------------
DatabaseStep(r) ==
  Find(r) \/ FindFails(r) \/ Write(r) \/ WriteFails(r) \/ WriteLost(r)
    \/ Lock(r) \/ Count(r) \/ Insert(r) \/ AddFails(r)
    \/ SaveTest(r) \/ DeleteTest(r) \/ ChangeFails(r)

StorageStep(r) == Put(r) \/ PutFails(r) \/ Drop(r) \/ DropFails(r) \/ Cleanup(r)

Arrive(r) ==
  \E p \in Problems :
    \/ Create(r, p) \/ Edit(r, p) \/ AddTest(r, p)
    \/ \E k \in Kinds : Reject(r, k) \/ Look(r, k, p) \/ FindTest(r, k, p)

Next ==
  \/ \E r \in Requests : Arrive(r) \/ DatabaseStep(r) \/ StorageStep(r)
  \/ \E p \in Problems : SeedProblem(p) \/ Upsert(p)

Spec == Init /\ [][Next]_vars

(* A database call returns or fails; nothing is assumed of the storage.    *)
FairSpec == Spec /\ \A r \in Requests : WF_vars(DatabaseStep(r))

-----------------------------------------------------------------------------
(* Properties.                                                             *)

(* MaxPerProblem: whatever requests overlap, a problem has more testcases  *)
(* than Submit will grade only if cmd/seed_uas put them there or an update *)
(* inserted one again that was deleted under it.                           *)
WithinLimit ==
  \A p \in Problems : Cardinality(tests[p] \ (revived[p] \cup Seeded[p])) <= Limit

(* The object a problem names is in the bucket, whichever uploads,         *)
(* removals and failures overlap, unless an edit saved a key that had been *)
(* replaced meanwhile or a save was reported as failed in error.           *)
ThumbnailStored ==
  \A p \in Problems \ suspect : row[p] \in Keys => row[p] \in objects

(* Requests that do not overlap leave nothing in the bucket that no        *)
(* problem names, on every path of errors, as long as the storage and the  *)
(* reports of the database do not fail.                                    *)
NothingLeaks ==
  (\A r \in Requests : ~Active(r)) =>
    objects \ leaked \subseteq {row[p] : p \in Problems}

(* A transaction does not keep the problem locked, even if the object      *)
(* storage never answers.                                                  *)
RowUnlocked == \A p \in Problems : (lock[p] # None) ~> (lock[p] = None)

(* main.go:72: "Keep the grader available for existing installations,      *)
(* while the upload endpoint clearly reports unavailable storage until the *)
(* S3 variables are configured": an upload without a storage is answered   *)
(* with 503, or refused for the problem or the form.                       *)
UploadSaysUnavailable ==
  ~Configured => \A r \in Requests :
    Is(r, "upload") /\ At(r, "done") => req[r].code \in {400, 404, 503}
=============================================================================
