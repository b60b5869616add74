-------------------------- MODULE CatalogueProofs --------------------------
(***************************************************************************)
(* Proofs about Catalogue, for any number of overlapping requests, any     *)
(* problems, seeds and limit: the types with the foreign key, the limit of *)
(* testcases, and the thumbnails that are stored.                          *)
(***************************************************************************)
EXTENDS Catalogue, FiniteSetTheorems, TLAPS

-----------------------------------------------------------------------------
(* The inductive invariant.                                                *)

ReqRows == [kind : Kinds, step : Steps, on : Problems \cup {None},
            seen : Ids \cup {None}, copy : Keys \cup {None}, code : Codes]

Typed ==
  /\ row \in [Problems -> Keys \cup {None, Absent}] /\ tests \in [Problems -> SUBSET Ids]
  /\ objects \subseteq Keys /\ leaked \subseteq Keys
  /\ lock \in [Problems -> Requests \cup {None}]
  /\ req \in [Requests -> ReqRows]
  /\ suspect \subseteq born /\ born \subseteq Problems
  /\ revived \in [Problems -> SUBSET Ids]
  /\ \A p \in Problems : row[p] # Absent => p \in born

(* What a request has read, at every step.                                 *)
ReadsOf(x) ==
  /\ x.step \notin {"idle", "done"} => x.on \in Problems
  /\ x.step \in {"idle", "done"} => x.seen = None /\ x.copy = None
  /\ x.step \in {"find", "put", "write", "drop", "cleanup"} => x.seen \in Keys \cup {None}
  /\ x.step = "drop" => x.seen # None
  /\ x.step = "change" => x.seen # None
  /\ x.step \in {"change", "lock", "count", "insert"} => x.copy = None
  /\ x.step \in {"find", "write"} => x.kind \in {"edit", "remove", "upload", "unset"}
  /\ x.step \in {"find", "write"} /\ x.kind = "edit" => x.seen = None
  /\ x.step \in {"put", "cleanup"} => x.kind = "upload"

Reads == \A r \in Requests : ReadsOf(req[r]) /\ (At(r, "write") => On(r) \in born)

(* The transaction of a creation.                                          *)
Counted(p) == tests[p] \ (revived[p] \cup Seeded[p])

Locked == \A r \in Requests : req[r].step \in {"count", "insert"} => lock[On(r)] = r /\ row[On(r)] # Absent
Room   == \A r \in Requests : At(r, "insert") => Cardinality(Counted(On(r))) < Limit
Finite == \A p \in Problems : IsFiniteSet(tests[p])
Owned  == \A p \in Problems : row[p] = Absent => tests[p] = {}

(* Keys.  A request gives its key away when it writes the row.             *)
Past(r)     == req[r].step \in {"drop", "cleanup", "done"}
Holds(r, k) == req[r].step # "change" /\ (req[r].seen = k \/ req[r].copy = k)
Uploads(r, k) == r = k /\ Is(r, "upload") /\ req[r].step \in {"put", "find", "write", "drop", "cleanup"}

(* The keys that belong to a problem.                                      *)
Names(p) ==
  {k \in Keys : \/ row[p] = k \/ k = p
                \/ \E r \in Requests : On(r) = p /\ Active(r) /\ (Holds(r, k) \/ Uploads(r, k))}

GivenAway == \A k \in Requests : ~Past(k) =>
               /\ \A p \in Problems : row[p] # k
               /\ \A r \in Requests : ~Holds(r, k)
Tied      == \A p, q \in Problems : p # q => Names(p) \cap Names(q) = {}
Uploaded  == \A r \in Requests : Is(r, "upload") /\ req[r].step \in {"find", "write"} => r \in objects
Dropped   == \A r \in Requests : At(r, "drop") => \A p \in Problems \ suspect : row[p] # req[r].seen
Cleaned   == \A r \in Requests : At(r, "cleanup") => \A p \in Problems \ suspect : row[p] # r

TestsInv == Locked /\ Room /\ Finite /\ Owned /\ WithinLimit
KeysInv  == GivenAway /\ Tied /\ Uploaded /\ Dropped /\ Cleaned /\ ThumbnailStored
CatalogueInv == Typed /\ Reads /\ TestsInv /\ KeysInv

-----------------------------------------------------------------------------
(* What the operators of Catalogue do to the record of a request.          *)

Others(r) == \A q \in Requests \ {r} : req'[q] = req[q]

LEMMA Names1 ==
  /\ None \notin Keys /\ Absent \notin Keys /\ None # Absent
  /\ \A r \in Requests : r \in Keys /\ r # None /\ r # Absent /\ r \notin Problems
  /\ \A p \in Problems : p \in Keys /\ p # None /\ p # Absent
  /\ Keys \subseteq Ids /\ None \notin Ids
  BY CatalogueAssumption DEF Keys, Ids

LEMMA FreshRow ==
  ASSUME NEW kind \in Kinds, NEW code \in Codes
  PROVE  LET x == Answered(kind, code)
         IN  x \in ReqRows /\ x.step = "done" /\ x.seen = None /\ x.copy = None /\ ReadsOf(x)
<1>1. "create" \in Kinds /\ "done" \in Steps /\ 0 \in Codes
  BY DEF Kinds, Steps, Codes
<1>2. Answered(kind, code) = [kind |-> kind, step |-> "done", on |-> None, seen |-> None,
                              copy |-> None, code |-> code]
        \/ Answered(kind, code) = [kind |-> "create", step |-> "done", on |-> None, seen |-> None,
                                    copy |-> None, code |-> 0]
  BY DEF Answered, Fresh
<1> QED
  BY <1>1, <1>2 DEF ReqRows, ReadsOf

LEMMA EndShape ==
  ASSUME Typed, NEW r \in Requests, NEW code \in Codes, End(r, code)
  PROVE  /\ req' \in [Requests -> ReqRows] /\ Others(r) /\ ReadsOf(req'[r])
         /\ req'[r].step = "done" /\ req'[r].seen = None /\ req'[r].copy = None
<1>1. req' = [req EXCEPT ![r] = Answered(req[r].kind, code)] /\ req[r].kind \in Kinds
  BY DEF End, Typed, ReqRows
<1>2. Answered(req[r].kind, code) \in ReqRows
  BY <1>1, FreshRow
<1>3. req' \in [Requests -> ReqRows] /\ Others(r) /\ req'[r] = Answered(req[r].kind, code)
  BY <1>1, <1>2 DEF Typed, Others
<1> QED
  BY <1>1, <1>3, FreshRow

LEMMA AtOnceShape ==
  ASSUME Typed, NEW r \in Requests, NEW kind \in Kinds, NEW code \in Codes, AnswerAtOnce(r, kind, code)
  PROVE  /\ req' \in [Requests -> ReqRows] /\ Others(r) /\ ReadsOf(req'[r])
         /\ req'[r].step = "done" /\ req'[r].seen = None /\ req'[r].copy = None
         /\ req[r].step = "idle" /\ leaked' \subseteq Keys
<1>1. req' = [req EXCEPT ![r] = Answered(kind, code)] /\ req[r].step = "idle"
  BY DEF AnswerAtOnce, Idle
<1>2. Answered(kind, code) \in ReqRows
  BY FreshRow
<1>3. req' \in [Requests -> ReqRows] /\ Others(r) /\ req'[r] = Answered(kind, code)
  BY <1>1, <1>2 DEF Typed, Others
<1>4. leaked' \subseteq Keys
  BY DEF AnswerAtOnce, Typed
<1> QED
  BY <1>1, <1>3, <1>4, FreshRow

LEMMA EnterShape ==
  ASSUME Typed, NEW r \in Requests, NEW kind \in Kinds, NEW p \in Problems, NEW step \in Steps,
         NEW seen \in Ids \cup {None}, Enter(r, kind, p, step, seen)
  PROVE  /\ req' \in [Requests -> ReqRows] /\ Others(r)
         /\ req'[r].step = step /\ req'[r].kind = kind /\ req'[r].on = p /\ req'[r].seen = seen
         /\ req'[r].copy = None /\ req[r].step = "idle" /\ leaked' \subseteq Keys
<1> DEFINE x == [Fresh EXCEPT !.kind = kind, !.on = p, !.step = step, !.seen = seen]
<1>1. req' = [req EXCEPT ![r] = x] /\ req[r].step = "idle"
  BY DEF Enter, Idle
<1>2. /\ x \in ReqRows /\ x.step = step /\ x.kind = kind /\ x.on = p /\ x.seen = seen
      /\ x.copy = None
  BY DEF Fresh, ReqRows, Codes
<1> HIDE DEF x
<1>3. req' \in [Requests -> ReqRows] /\ Others(r) /\ req'[r] = x
  BY <1>1, <1>2 DEF Typed, Others
<1>4. leaked' \subseteq Keys
  BY DEF Enter, Typed
<1> QED
  BY <1>1, <1>2, <1>3, <1>4

LEMMA GoShape ==
  ASSUME Typed, NEW r \in Requests, NEW step \in Steps, Go(r, step)
  PROVE  /\ req' \in [Requests -> ReqRows] /\ Others(r)
         /\ req'[r].step = step /\ req'[r].kind = req[r].kind /\ req'[r].on = req[r].on
         /\ req'[r].seen = req[r].seen /\ req'[r].copy = req[r].copy
<1> DEFINE x == [req[r] EXCEPT !.step = step]
<1>1. req[r] \in ReqRows /\ req' = [req EXCEPT ![r] = x]
  BY DEF Go, Typed
<1>2. /\ x \in ReqRows /\ x.step = step /\ x.kind = req[r].kind /\ x.on = req[r].on
      /\ x.seen = req[r].seen /\ x.copy = req[r].copy
  BY <1>1 DEF ReqRows
<1> HIDE DEF x
<1>3. req' \in [Requests -> ReqRows] /\ Others(r) /\ req'[r] = x
  BY <1>1, <1>2 DEF Typed, Others
<1> QED
  BY <1>2, <1>3

(* Abort: the end, or the cleanup of an upload.                            *)
LEMMA AbortShape ==
  ASSUME Typed, NEW r \in Requests, NEW code \in Codes, Abort(r, code)
  PROVE  /\ req' \in [Requests -> ReqRows] /\ Others(r)
         /\ \/ /\ ReadsOf(req'[r]) /\ ~Is(r, "upload")
               /\ req'[r].step = "done" /\ req'[r].seen = None /\ req'[r].copy = None
            \/ /\ req'[r].step = "cleanup" /\ Is(r, "upload") /\ req'[r].kind = req[r].kind
               /\ req'[r].on = req[r].on /\ req'[r].seen = req[r].seen /\ req'[r].copy = req[r].copy
<1>1. req[r] \in ReqRows /\ req[r].kind \in Kinds
  BY DEF Typed, ReqRows
<1>2. CASE Is(r, "upload")
  <2> DEFINE x == [req[r] EXCEPT !.step = "cleanup", !.code = code]
  <2>1. req' = [req EXCEPT ![r] = x]
    BY <1>2 DEF Abort
  <2>2. /\ x \in ReqRows /\ x.step = "cleanup" /\ x.kind = req[r].kind /\ x.on = req[r].on
        /\ x.seen = req[r].seen /\ x.copy = req[r].copy
    BY <1>1 DEF ReqRows, Steps
  <2> HIDE DEF x
  <2>3. req' \in [Requests -> ReqRows] /\ Others(r) /\ req'[r] = x
    BY <2>1, <2>2 DEF Typed, Others
  <2> QED
    BY <1>2, <2>2, <2>3
<1>3. CASE ~Is(r, "upload")
  <2>1. End(r, code)
    BY <1>3 DEF Abort, End
  <2> QED
    BY <1>3, <2>1, EndShape
<1> QED
  BY <1>2, <1>3

(* One request moves on: what it has read stays in order when its record   *)
(* does, and no problem id is given back.                                  *)
LEMMA ReadsKept ==
  ASSUME Typed, Reads, NEW r \in Requests, Others(r), ReadsOf(req'[r]), born \subseteq born',
         req'[r].step = "write" => req'[r].on \in born'
  PROVE  Reads'
  BY DEF Reads, Others, At, On

-----------------------------------------------------------------------------
(* Types, and what requests have read.                                     *)

(* Requests that arrive; none of them writes more than a new problem row.  *)
LEMMA ArriveTyped ==
  ASSUME Typed, Reads, NEW r \in Requests, Arrive(r)
  PROVE  Typed' /\ Reads' /\ Others(r) /\ req[r].step = "idle"
<1>1. PICK p \in Problems :
        \/ Create(r, p) \/ Edit(r, p) \/ AddTest(r, p)
        \/ \E k \in Kinds : Reject(r, k) \/ Look(r, k, p) \/ FindTest(r, k, p)
  BY DEF Arrive
<1>2. ASSUME UNCHANGED <<tables, objects, lock, revived, suspect>>, leaked' \subseteq Keys,
             req' \in [Requests -> ReqRows]
      PROVE  Typed' /\ born' = born
  BY <1>2 DEF Typed, tables
<1>3. CASE Create(r, p)
  <2>1. "create" \in Kinds /\ 201 \in Codes
    BY DEF Kinds, Codes
  <2>2. /\ req' \in [Requests -> ReqRows] /\ Others(r) /\ ReadsOf(req'[r])
        /\ req'[r].step = "done" /\ req[r].step = "idle" /\ leaked' \subseteq Keys
    BY <1>3, <2>1, AtOnceShape DEF Create
  <2>3. Typed'
    BY <1>3, <2>2 DEF Create, Typed
  <2>4. born \subseteq born'
    BY <1>3 DEF Create
  <2> QED
    BY <2>2, <2>3, <2>4, ReadsKept
<1>4. ASSUME NEW k \in Kinds, NEW step \in {"find", "put", "lock", "change"}, NEW seen \in Ids \cup {None},
             Enter(r, k, p, step, seen), UNCHANGED <<tables, objects, lock, revived, suspect>>,
             step # "change" => seen \in Keys \cup {None}, step = "change" => seen # None,
             step = "find" => k \in {"edit", "remove", "unset"} /\ (k = "edit" => seen = None),
             step = "put" => k = "upload"
      PROVE  Typed' /\ Reads' /\ Others(r) /\ req[r].step = "idle"
  <2>1. step \in Steps
    BY DEF Steps
  <2>2. /\ req' \in [Requests -> ReqRows] /\ Others(r)
        /\ req'[r].step = step /\ req'[r].kind = k /\ req'[r].on = p /\ req'[r].seen = seen
        /\ req'[r].copy = None /\ req[r].step = "idle" /\ leaked' \subseteq Keys
    BY <1>4, <2>1, EnterShape
  <2>3. ReadsOf(req'[r])
    BY <1>4, <2>2 DEF ReadsOf
  <2>4. Typed' /\ born' = born
    BY <1>2, <1>4, <2>2
  <2> QED
    BY <1>4, <2>2, <2>3, <2>4, ReadsKept
<1>5. ASSUME NEW k \in Kinds, NEW code \in Codes, AnswerAtOnce(r, k, code),
             UNCHANGED <<tables, objects, lock, revived, suspect>>
      PROVE  Typed' /\ Reads' /\ Others(r) /\ req[r].step = "idle"
  <2>1. /\ req' \in [Requests -> ReqRows] /\ Others(r) /\ ReadsOf(req'[r])
        /\ req'[r].step = "done" /\ req[r].step = "idle" /\ leaked' \subseteq Keys
    BY <1>5, AtOnceShape
  <2>2. Typed' /\ born' = born
    BY <1>2, <1>5, <2>1
  <2> QED
    BY <2>1, <2>2, ReadsKept
<1>6. CASE Edit(r, p)
  <2>1. "edit" \in Kinds
    BY DEF Kinds
  <2> QED
    BY <1>4, <1>6, <2>1 DEF Edit
<1>7. CASE AddTest(r, p)
  <2>1. "addTest" \in Kinds
    BY DEF Kinds
  <2> QED
    BY <1>4, <1>7, <2>1 DEF AddTest
<1>8. ASSUME NEW k \in Kinds, Reject(r, k)
      PROVE  Typed' /\ Reads' /\ Others(r) /\ req[r].step = "idle"
  <2>1. 400 \in Codes
    BY DEF Codes
  <2> QED
    BY <1>5, <1>8, <2>1 DEF Reject
<1>9. ASSUME NEW k \in Kinds, Look(r, k, p)
      PROVE  Typed' /\ Reads' /\ Others(r) /\ req[r].step = "idle"
  <2>1. Refusal(k, p) \in Codes
    BY DEF Refusal, Codes
  <2>2. CASE Refusal(k, p) # 0
    BY <1>5, <1>9, <2>1, <2>2 DEF Look
  <2>3. CASE Refusal(k, p) = 0
    <3>1. row[p] # Absent
      BY <2>3, <1>9 DEF Refusal, Look, ThumbnailsNil
    <3>2. row[p] \in Keys \cup {None} /\ row[p] \in Ids \cup {None}
      BY <3>1, Names1 DEF Typed
    <3>3. /\ Enter(r, k, p, IF k = "upload" THEN "put" ELSE "find", row[p])
          /\ k \in {"remove", "upload", "unset"} /\ UNCHANGED <<tables, objects, lock, revived, suspect>>
      BY <1>9, <2>3 DEF Look
    <3>4. CASE k = "upload"
      <4>1. Enter(r, k, p, "put", row[p])
        BY <3>3, <3>4
      <4> QED
        BY <1>4, <3>2, <3>3, <3>4, <4>1
    <3>5. CASE k # "upload"
      <4>1. Enter(r, k, p, "find", row[p])
        BY <3>3, <3>5
      <4> QED
        BY <1>4, <3>2, <3>3, <3>5, <4>1
    <3> QED
      BY <3>4, <3>5
  <2> QED
    BY <2>2, <2>3
<1>10. ASSUME NEW k \in Kinds, FindTest(r, k, p)
       PROVE  Typed' /\ Reads' /\ Others(r) /\ req[r].step = "idle"
  <2>1. PICK t \in tests[p] : Enter(r, k, p, "change", t)
    BY <1>10 DEF FindTest
  <2>2. t \in Ids /\ t # None
    BY Names1 DEF Typed
  <2> QED
    BY <1>4, <1>10, <2>1, <2>2 DEF FindTest
<1> QED
  BY <1>1, <1>3, <1>6, <1>7, <1>8, <1>9, <1>10

(* A request that goes on, ends or aborts with only its record changed.    *)
LEMMA RecordTyped ==
  ASSUME Typed, Reads, NEW r \in Requests, UNCHANGED <<tables, revived, suspect>>,
         objects' \subseteq Keys, leaked' \subseteq Keys,
         lock' \in [Problems -> Requests \cup {None}],
         req' \in [Requests -> ReqRows], Others(r), ReadsOf(req'[r]),
         req'[r].step = "write" => req'[r].on \in born
  PROVE  Typed' /\ Reads'
<1>1. Typed' /\ born' = born
  BY DEF Typed, tables
<1> QED
  BY <1>1, ReadsKept

LEMMA EndTyped ==
  ASSUME Typed, Reads, NEW r \in Requests, NEW code \in Codes, End(r, code),
         UNCHANGED <<tables, revived, suspect>>, objects' \subseteq Keys, leaked' \subseteq Keys,
         lock' \in [Problems -> Requests \cup {None}]
  PROVE  Typed' /\ Reads'
<1>1. /\ req' \in [Requests -> ReqRows] /\ Others(r) /\ ReadsOf(req'[r])
      /\ req'[r].step = "done"
  BY EndShape
<1> QED
  BY <1>1, RecordTyped

LEMMA GoTyped ==
  ASSUME Typed, Reads, NEW r \in Requests, NEW step \in Steps, Go(r, step),
         UNCHANGED <<tables, revived, suspect>>, objects' \subseteq Keys, leaked' \subseteq Keys,
         lock' \in [Problems -> Requests \cup {None}],
         \/ At(r, "put") /\ step = "find"
         \/ At(r, "lock") /\ step = "count"
         \/ At(r, "count") /\ step = "insert"
  PROVE  Typed' /\ Reads'
<1>1. /\ req' \in [Requests -> ReqRows] /\ Others(r)
      /\ req'[r].step = step /\ req'[r].kind = req[r].kind /\ req'[r].on = req[r].on
      /\ req'[r].seen = req[r].seen /\ req'[r].copy = req[r].copy
  BY GoShape
<1>2. ReadsOf(req[r])
  BY DEF Reads
<1>3. ReadsOf(req'[r]) /\ req'[r].step # "write"
  BY <1>1, <1>2 DEF ReadsOf, At
<1> QED
  BY <1>1, <1>3, RecordTyped

LEMMA AbortTyped ==
  ASSUME Typed, Reads, NEW r \in Requests, NEW code \in Codes, Abort(r, code), req[r].step \in {"find", "write"},
         UNCHANGED <<tables, revived, suspect, objects, lock>>, leaked' \subseteq Keys
  PROVE  Typed' /\ Reads'
<1>1. req' \in [Requests -> ReqRows] /\ Others(r)
  BY AbortShape
<1>2. ReadsOf(req[r])
  BY DEF Reads
<1>3. CASE ReadsOf(req'[r]) /\ req'[r].step = "done"
  BY <1>1, <1>3, RecordTyped DEF Typed
<1>4. CASE /\ req'[r].step = "cleanup" /\ Is(r, "upload") /\ req'[r].kind = req[r].kind
           /\ req'[r].on = req[r].on /\ req'[r].seen = req[r].seen /\ req'[r].copy = req[r].copy
  <2>1. ReadsOf(req'[r])
    BY <1>2, <1>4 DEF ReadsOf, Is
  <2> QED
    BY <1>1, <1>4, <2>1, RecordTyped DEF Typed
<1> QED
  BY <1>3, <1>4, AbortShape

LEMMA FindShape ==
  ASSUME Typed, Reads, NEW r \in Requests, At(r, "find"), row[On(r)] # Absent,
         req' = [req EXCEPT ![r].copy = row[On(r)], ![r].step = "write"]
  PROVE  /\ req' \in [Requests -> ReqRows] /\ Others(r) /\ On(r) \in Problems
         /\ req'[r].step = "write" /\ req'[r].kind = req[r].kind /\ req'[r].on = req[r].on
         /\ req'[r].seen = req[r].seen /\ req'[r].copy = row[On(r)]
<1> DEFINE x == [req[r] EXCEPT !.copy = row[On(r)], !.step = "write"]
<1>1. req[r] \in ReqRows /\ req' = [req EXCEPT ![r] = x]
  BY DEF Typed
<1>2. On(r) \in Problems
  BY DEF Reads, ReadsOf, At, On
<1>3. row[On(r)] \in Keys \cup {None}
  BY <1>2 DEF Typed
<1>4. /\ x \in ReqRows /\ x.step = "write" /\ x.kind = req[r].kind /\ x.on = req[r].on
      /\ x.seen = req[r].seen /\ x.copy = row[On(r)]
  BY <1>1, <1>3 DEF ReqRows, Steps
<1> HIDE DEF x
<1>5. req' \in [Requests -> ReqRows] /\ Others(r) /\ req'[r] = x
  BY <1>1, <1>4 DEF Typed, Others
<1> QED
  BY <1>2, <1>4, <1>5

(* The write of a problem row.                                             *)
LEMMA NewKeyType ==
  ASSUME Typed, Reads, NEW r \in Requests, At(r, "write")
  PROVE  /\ NewKey(r) \in Keys \cup {None, Absent} /\ On(r) \in Problems /\ On(r) \in born
         /\ req[r].seen \in Keys \cup {None}
         /\ req[r].kind \in {"edit", "remove", "upload", "unset"}
<1>1. ReadsOf(req[r]) /\ req[r] \in ReqRows /\ On(r) \in born
  BY DEF Reads, Typed
<1>2. /\ req[r].kind \in {"edit", "remove", "upload", "unset"} /\ req[r].copy \in Keys \cup {None}
      /\ req[r].seen \in Keys \cup {None} /\ On(r) \in Problems
  BY <1>1 DEF ReadsOf, ReqRows, At, On
<1>3. NewKey(r) \in Keys \cup {None, Absent}
  BY <1>2, Names1 DEF NewKey, Is
<1> QED
  BY <1>1, <1>2, <1>3

LEMMA StoreTyped ==
  ASSUME Typed, Reads, NEW r \in Requests, At(r, "write"), Store(r)
  PROVE  /\ row' \in [Problems -> Keys \cup {None, Absent}] /\ tests' \in [Problems -> SUBSET Ids]
         /\ row'[On(r)] = NewKey(r) /\ (\A p \in Problems \ {On(r)} : row'[p] = row[p])
         /\ \A p \in Problems : row'[p] # Absent => p \in born
         /\ UNCHANGED <<born, objects, lock, revived>>
         /\ tests'[On(r)] = IF Is(r, "remove") THEN {} ELSE tests[On(r)]
         /\ \A p \in Problems \ {On(r)} : tests'[p] = tests[p]
  BY NewKeyType DEF Typed, Store

LEMMA WriteEnds ==
  ASSUME Typed, Reads, NEW r \in Requests, Write(r)
  PROVE  /\ req' \in [Requests -> ReqRows] /\ Others(r) /\ ReadsOf(req'[r])
         /\ \/ /\ req'[r].step = "done" /\ req'[r].seen = None /\ req'[r].copy = None
            \/ /\ req'[r].step = "drop" /\ req'[r].kind = req[r].kind /\ req'[r].on = req[r].on
               /\ req'[r].seen = req[r].seen /\ req'[r].copy = req[r].copy /\ req[r].seen # None
<1>1. At(r, "write") /\ ReadsOf(req[r])
  BY DEF Write, Reads
<1>2. CASE req[r].seen = None
  <2>1. PICK code \in Codes : End(r, code)
    BY <1>2 DEF Write, EndShown, Codes
  <2> QED
    BY <2>1, EndShape
<1>3. CASE req[r].seen # None
  <2>1. Go(r, "drop") /\ "drop" \in Steps
    BY <1>3 DEF Write, Steps
  <2>2. /\ req' \in [Requests -> ReqRows] /\ Others(r)
        /\ req'[r].step = "drop" /\ req'[r].kind = req[r].kind /\ req'[r].on = req[r].on
        /\ req'[r].seen = req[r].seen /\ req'[r].copy = req[r].copy
    BY <2>1, GoShape
  <2>3. ReadsOf(req'[r])
    BY <1>1, <1>3, <2>2 DEF ReadsOf, At
  <2> QED
    BY <1>3, <2>2, <2>3
<1> QED
  BY <1>2, <1>3

LEMMA WriteTyped ==
  ASSUME Typed, Reads, NEW r \in Requests, Write(r)
  PROVE  Typed' /\ Reads'
<1>1. At(r, "write") /\ Store(r) /\ leaked' = leaked
  BY DEF Write
<1>2. On(r) \in born /\ suspect' \subseteq born
  BY <1>1, NewKeyType DEF Write, Typed
<1>3. /\ req' \in [Requests -> ReqRows] /\ Others(r) /\ ReadsOf(req'[r])
      /\ req'[r].step # "write"
  BY WriteEnds
<1>4. Typed' /\ born' = born
  BY <1>1, <1>2, <1>3, StoreTyped DEF Typed
<1> QED
  BY <1>3, <1>4, ReadsKept

LEMMA WriteLostTyped ==
  ASSUME Typed, Reads, NEW r \in Requests, WriteLost(r)
  PROVE  Typed' /\ Reads'
<1>1. At(r, "write") /\ Store(r) /\ Abort(r, 500) /\ 500 \in Codes
  BY DEF WriteLost, Codes
<1>2. On(r) \in born /\ suspect' \subseteq born /\ leaked' \subseteq Keys
  BY <1>1, NewKeyType DEF WriteLost, Typed
<1>3. ReadsOf(req[r])
  BY DEF Reads
<1>4. req' \in [Requests -> ReqRows] /\ Others(r)
  BY <1>1, AbortShape
<1>5. ReadsOf(req'[r]) /\ req'[r].step # "write"
  <2>1. CASE ReadsOf(req'[r]) /\ req'[r].step = "done"
    BY <2>1
  <2>2. CASE /\ req'[r].step = "cleanup" /\ Is(r, "upload") /\ req'[r].kind = req[r].kind
             /\ req'[r].on = req[r].on /\ req'[r].seen = req[r].seen /\ req'[r].copy = req[r].copy
    BY <1>1, <1>3, <2>2 DEF ReadsOf, Is, At
  <2> QED
    BY <1>1, <2>1, <2>2, AbortShape
<1>6. Typed' /\ born' = born
  BY <1>1, <1>2, <1>4, StoreTyped DEF Typed
<1> QED
  BY <1>4, <1>5, <1>6, ReadsKept

LEMMA ReleaseType ==
  ASSUME Typed, NEW r \in Requests, Release(r)
  PROVE  lock' \in [Problems -> Requests \cup {None}]
  BY DEF Release, Typed

LEMMA DatabaseTyped ==
  ASSUME Typed, Reads, NEW r \in Requests, DatabaseStep(r)
  PROVE  Typed' /\ Reads'
<1>1. /\ {200, 201, 204, 400, 404, 500, 502} \subseteq Codes /\ objects \subseteq Keys /\ leaked \subseteq Keys
      /\ lock \in [Problems -> Requests \cup {None}] /\ {"count", "insert", "find"} \subseteq Steps
      /\ ReadsOf(req[r])
  BY DEF Codes, Typed, Steps, Reads
<1>2. CASE Find(r)
  <2>1. At(r, "find") /\ UNCHANGED <<tables, objects, lock, revived, suspect, leaked>>
    BY <1>2 DEF Find, history
  <2>2. CASE row[On(r)] = Absent
    BY <1>1, <1>2, <2>1, <2>2, AbortTyped DEF Find, At
  <2>3. CASE row[On(r)] # Absent
    <3>1. /\ req' \in [Requests -> ReqRows] /\ Others(r) /\ On(r) \in Problems
          /\ req'[r].step = "write" /\ req'[r].kind = req[r].kind /\ req'[r].on = req[r].on
          /\ req'[r].seen = req[r].seen /\ req'[r].copy = row[On(r)]
      BY <1>2, <2>1, <2>3, FindShape DEF Find
    <3>2. ReadsOf(req'[r])
      BY <1>1, <2>1, <3>1 DEF ReadsOf, At
    <3>3. req'[r].on \in born
      BY <2>3, <3>1 DEF Typed, On
    <3> QED
      BY <1>1, <2>1, <3>1, <3>2, <3>3, RecordTyped
  <2> QED
    BY <2>2, <2>3
<1>3. CASE FindFails(r)
  <2>1. At(r, "find") /\ UNCHANGED <<tables, objects, lock, revived, suspect, leaked>>
    BY <1>3 DEF FindFails, history
  <2>2. Abort(r, 500) \/ End(r, 400)
    BY <1>3 DEF FindFails
  <2> QED
    BY <1>1, <2>1, <2>2, AbortTyped, EndTyped DEF At
<1>4. CASE Write(r)
  BY <1>4, WriteTyped
<1>5. CASE WriteFails(r)
  <2>1. At(r, "write") /\ Abort(r, 500) /\ UNCHANGED <<tables, objects, lock, revived, suspect, leaked>>
    BY <1>5 DEF WriteFails, history
  <2> QED
    BY <1>1, <2>1, AbortTyped DEF At
<1>6. CASE WriteLost(r)
  BY <1>6, WriteLostTyped
<1>7. CASE Lock(r)
  <2>1. At(r, "lock") /\ UNCHANGED <<tables, objects, revived, suspect, leaked>>
    BY <1>7 DEF Lock, history
  <2>2. lock' \in [Problems -> Requests \cup {None}]
    BY <1>1, <1>7 DEF Lock
  <2>3. End(r, 404) \/ Go(r, "count")
    BY <1>7 DEF Lock
  <2> QED
    BY <1>1, <2>1, <2>2, <2>3, EndTyped, GoTyped
<1>8. CASE Count(r)
  <2>1. At(r, "count") /\ UNCHANGED <<tables, objects, revived, suspect, leaked>>
    BY <1>8 DEF Count, history
  <2>2. lock' \in [Problems -> Requests \cup {None}]
    BY <1>1, <1>8, ReleaseType DEF Count
  <2>3. End(r, 400) \/ Go(r, "insert")
    BY <1>8 DEF Count
  <2> QED
    BY <1>1, <2>1, <2>2, <2>3, EndTyped, GoTyped
<1>9. CASE Insert(r)
  <2>1. /\ req' \in [Requests -> ReqRows] /\ Others(r) /\ ReadsOf(req'[r]) /\ req'[r].step = "done"
    BY <1>1, <1>9, EndShape DEF Insert
  <2>2. lock' \in [Problems -> Requests \cup {None}]
    BY <1>9, ReleaseType DEF Insert
  <2>3. Typed' /\ born' = born
    BY <1>9, <2>1, <2>2, Names1 DEF Insert, Typed, history
  <2> QED
    BY <2>1, <2>3, ReadsKept
<1>10. CASE AddFails(r)
  <2>1. End(r, 500) /\ Release(r) /\ UNCHANGED <<tables, objects, revived, suspect, leaked>>
    BY <1>10 DEF AddFails, history
  <2> QED
    BY <1>1, <2>1, ReleaseType, EndTyped
<1>11. CASE SaveTest(r)
  <2>1. /\ req' \in [Requests -> ReqRows] /\ Others(r) /\ ReadsOf(req'[r]) /\ req'[r].step = "done"
    BY <1>1, <1>11, EndShape DEF SaveTest
  <2>2. req[r].seen \in Ids
    BY <1>1, <1>11 DEF SaveTest, At, ReadsOf, Typed, ReqRows
  <2>3. Typed' /\ born' = born
    BY <1>11, <2>1, <2>2 DEF SaveTest, Typed
  <2> QED
    BY <2>1, <2>3, ReadsKept
<1>12. CASE DeleteTest(r)
  <2>1. /\ req' \in [Requests -> ReqRows] /\ Others(r) /\ ReadsOf(req'[r]) /\ req'[r].step = "done"
    BY <1>1, <1>12, EndShape DEF DeleteTest
  <2>2. Typed' /\ born' = born
    BY <1>12, <2>1 DEF DeleteTest, Typed
  <2> QED
    BY <2>1, <2>2, ReadsKept
<1>13. CASE ChangeFails(r)
  <2>1. End(r, 500) /\ UNCHANGED <<tables, objects, lock, revived, suspect, leaked>>
    BY <1>13 DEF ChangeFails, history
  <2> QED
    BY <1>1, <2>1, EndTyped
<1> QED
  BY <1>2, <1>3, <1>4, <1>5, <1>6, <1>7, <1>8, <1>9, <1>10, <1>11, <1>12, <1>13 DEF DatabaseStep

LEMMA StorageTyped ==
  ASSUME Typed, Reads, NEW r \in Requests, StorageStep(r)
  PROVE  Typed' /\ Reads'
<1>1. /\ {200, 201, 204, 400, 404, 500, 502} \subseteq Codes /\ objects \subseteq Keys /\ leaked \subseteq Keys
      /\ lock \in [Problems -> Requests \cup {None}] /\ "find" \in Steps /\ r \in Keys
      /\ ReadsOf(req[r]) /\ req[r].code \in Codes
  BY Names1 DEF Codes, Typed, Steps, Reads, ReqRows
<1>2. CASE Put(r)
  <2>1. /\ At(r, "put") /\ Go(r, "find") /\ objects' \subseteq Keys
        /\ UNCHANGED <<tables, lock, revived, suspect, leaked>>
    BY <1>1, <1>2 DEF Put, history
  <2> QED
    BY <1>1, <2>1, GoTyped
<1>3. ASSUME PutFails(r) \/ Drop(r) \/ DropFails(r) \/ Cleanup(r)
      PROVE  Typed' /\ Reads'
  <2>1. PICK code \in Codes : End(r, code)
    BY <1>1, <1>3 DEF PutFails, Drop, DropFails, Cleanup, EndShown
  <2>2. UNCHANGED <<tables, lock, revived, suspect>>
    BY <1>3 DEF PutFails, Drop, DropFails, Cleanup, history
  <2>3. At(r, "drop") => req[r].seen \in Keys
    BY <1>1 DEF ReadsOf, At
  <2>4. objects' \subseteq Keys /\ leaked' \subseteq Keys
    BY <1>1, <1>3, <2>3 DEF PutFails, Drop, DropFails, Cleanup, history
  <2> QED
    BY <1>1, <2>1, <2>2, <2>4, EndTyped
<1> QED
  BY <1>2, <1>3 DEF StorageStep

LEMMA SeedTyped ==
  ASSUME Typed, Reads, NEW p \in Problems, SeedProblem(p) \/ Upsert(p)
  PROVE  Typed' /\ Reads' /\ req' = req
<1>1. SeedRow(p) /\ req' = req
  BY DEF SeedProblem, Upsert, SeedRow
<1>2. FirstSeeded[p] \subseteq Ids /\ Seeded[p] \subseteq Ids
  <2>1. OldTests[p] \cup Seeded[p] \in {OldTests[q] \cup Seeded[q] : q \in Problems}
    OBVIOUS
  <2>2. Seeded[p] \subseteq Ids
    BY <2>1 DEF Ids
  <2> QED
    BY <2>2, CatalogueAssumption
<1>3. tests' \in [Problems -> SUBSET Ids]
  BY <1>2 DEF SeedProblem, Upsert, Typed
<1>4. row' \in [Problems -> Keys \cup {None, Absent}] /\ born' = born \cup {p}
      /\ \A q \in Problems : row'[q] # Absent => q \in born'
  BY <1>1 DEF SeedRow, Typed
<1>5. Typed'
  BY <1>1, <1>3, <1>4 DEF SeedRow, Typed
<1>6. Reads'
  BY <1>1, <1>4 DEF Reads, At, On
<1> QED
  BY <1>1, <1>5, <1>6

-----------------------------------------------------------------------------
(* The testcases and their limit.                                          *)

LEMMA Fewer ==
  ASSUME NEW S, IsFiniteSet(S), NEW T, T \subseteq S
  PROVE  IsFiniteSet(T) /\ Cardinality(T) \in Nat /\ Cardinality(S) \in Nat /\ Cardinality(T) <= Cardinality(S)
  BY FS_Subset, FS_CardinalityType

(* A locked problem keeps its row, and what counts of its testcases does   *)
(* not grow; an unlocked one stays within the limit.                       *)
Quiet(p) ==
  /\ lock[p] # None => (row[p] # Absent => row'[p] # Absent) /\ Counted(p)' \subseteq Counted(p)
  /\ \/ Counted(p)' \subseteq Counted(p)
     \/ Counted(p)' = {}
  /\ IsFiniteSet(tests'[p])
  /\ row'[p] = Absent => tests'[p] = {}

LEMMA QuietKeeps ==
  ASSUME Typed, Reads, TestsInv, lock' = lock, \A p \in Problems : Quiet(p),
         \A q \in Requests : req'[q].step \in {"count", "insert"} =>
                                req[q].step = req'[q].step /\ req[q].on = req'[q].on
  PROVE  TestsInv'
<1>1. Limit \in Nat \ {0}
  BY CatalogueAssumption
<1>2. ASSUME NEW p \in Problems
      PROVE  /\ IsFiniteSet(Counted(p)) /\ Cardinality(Counted(p)) <= Limit
             /\ Cardinality(Counted(p)) \in Nat /\ Cardinality(Counted(p)') \in Nat
             /\ Cardinality(Counted(p)') <= Limit
             /\ Counted(p)' \subseteq Counted(p) => Cardinality(Counted(p)') <= Cardinality(Counted(p))
  <2>1. IsFiniteSet(tests[p]) /\ Counted(p) \subseteq tests[p] /\ Cardinality(Counted(p)) <= Limit
    BY DEF TestsInv, Finite, Counted, WithinLimit
  <2>2. IsFiniteSet(Counted(p)) /\ Cardinality(Counted(p)) \in Nat
    BY <2>1, Fewer
  <2>3. Counted(p)' \subseteq Counted(p) \/ Counted(p)' = {}
    BY DEF Quiet
  <2>4. CASE Counted(p)' \subseteq Counted(p)
    BY <1>1, <2>1, <2>2, <2>4, Fewer
  <2>5. CASE Counted(p)' = {}
    <3>1. Cardinality(Counted(p)') = 0 /\ Counted(p)' \subseteq Counted(p)
      BY <2>5, FS_EmptySet
    <3> QED
      BY <1>1, <2>1, <2>2, <3>1
  <2> QED
    BY <2>3, <2>4, <2>5
<1>3. ASSUME NEW q \in Requests, req'[q].step \in {"count", "insert"}
      PROVE  /\ On(q) \in Problems /\ On(q)' = On(q) /\ lock[On(q)] = q /\ q # None
             /\ row'[On(q)] # Absent
             /\ At(q, "insert")' => Cardinality(Counted(On(q))') < Limit
  <2>1. req[q].step = req'[q].step /\ On(q)' = On(q)
    BY <1>3 DEF On
  <2>2. On(q) \in Problems /\ lock[On(q)] = q /\ q # None /\ row[On(q)] # Absent
    BY <1>3, <2>1, Names1 DEF TestsInv, Locked, Reads, ReadsOf, On
  <2>3. row'[On(q)] # Absent /\ Counted(On(q))' \subseteq Counted(On(q))
    <3>1. Quiet(On(q))
      BY <2>2
    <3> QED
      BY <2>1, <2>2, <3>1 DEF Quiet, Counted
  <2>4. ASSUME At(q, "insert")' PROVE Cardinality(Counted(On(q))') < Limit
    <3>1. Cardinality(Counted(On(q))) < Limit
      BY <2>1, <2>4 DEF TestsInv, Room, At
    <3>2. Cardinality(Counted(On(q))') <= Cardinality(Counted(On(q)))
      <4>1. IsFiniteSet(Counted(On(q)))
        BY <1>2, <2>2
      <4> QED
        BY <2>3, <4>1, Fewer
    <3>3. IsFiniteSet(Counted(On(q))) /\ IsFiniteSet(Counted(On(q))')
      <4>1. IsFiniteSet(Counted(On(q)))
        BY <1>2, <2>2
      <4> QED
        BY <2>3, <4>1, Fewer
    <3>4. Cardinality(Counted(On(q))) \in Nat /\ Cardinality(Counted(On(q))') \in Nat
      BY <3>3, FS_CardinalityType
    <3> QED
      BY <1>1, <3>1, <3>2, <3>4
  <2> QED
    BY <2>1, <2>2, <2>3, <2>4
<1>4. Locked'
  BY <1>3 DEF Locked
<1>5. Room'
  <2> SUFFICES ASSUME NEW q \in Requests, At(q, "insert")' PROVE Cardinality(Counted(On(q))') < Limit
    BY DEF Room
  <2> QED
    BY <1>3 DEF At
<1>6. Finite' /\ Owned'
  BY DEF Quiet, Finite, Owned
<1>7. WithinLimit'
  BY <1>2 DEF WithinLimit, Counted
<1> QED
  BY <1>4, <1>5, <1>6, <1>7 DEF TestsInv

(* Steps that touch neither rows nor testcases.                            *)
LEMMA Untouched ==
  ASSUME TestsInv, UNCHANGED <<row, tests, revived>>
  PROVE  \A p \in Problems : Quiet(p)
<1> SUFFICES ASSUME NEW p \in Problems PROVE Quiet(p)
  OBVIOUS
<1>1. Counted(p)' = Counted(p) /\ tests'[p] = tests[p] /\ row'[p] = row[p]
  BY DEF Counted
<1> QED
  BY <1>1 DEF Quiet, TestsInv, Finite, Owned

LEMMA RecordQuiet ==
  ASSUME Typed, Reads, TestsInv, NEW r \in Requests, Others(r), UNCHANGED <<row, tests, revived, lock>>,
         req'[r].step \notin {"count", "insert"}
  PROVE  TestsInv'
<1>1. \A p \in Problems : Quiet(p)
  BY Untouched
<1> QED
  BY <1>1, QuietKeeps DEF Others

LEMMA ArriveTests ==
  ASSUME Typed, Reads, TestsInv, NEW r \in Requests, Arrive(r)
  PROVE  TestsInv'
<1>1. PICK p \in Problems :
        \/ Create(r, p) \/ Edit(r, p) \/ AddTest(r, p)
        \/ \E k \in Kinds : Reject(r, k) \/ Look(r, k, p) \/ FindTest(r, k, p)
  BY DEF Arrive
<1>2. Typed' /\ Reads' /\ Others(r)
  BY ArriveTyped
<1>3. req'[r].step \notin {"count", "insert"}
  <2>1. ASSUME NEW k, NEW code, AnswerAtOnce(r, k, code) PROVE req'[r].step = "done"
    BY <2>1 DEF AnswerAtOnce, Answered, Fresh, Typed
  <2>2. ASSUME NEW k, NEW q, NEW seen, NEW st \in {"find", "put", "lock", "change"}, Enter(r, k, q, st, seen)
        PROVE  req'[r].step = st
    BY <2>2 DEF Enter, Fresh, Typed
  <2> QED
    BY <1>1, <2>1, <2>2 DEF Create, Edit, AddTest, Reject, Look, FindTest
<1>4. CASE Create(r, p)
  <2>1. row[p] = Absent /\ UNCHANGED <<tests, revived, lock>> /\ row' = [row EXCEPT ![p] = None]
    BY <1>4 DEF Create, Typed
  <2>2. ASSUME NEW q \in Problems PROVE Quiet(q)
    <3>1. Counted(q)' = Counted(q) /\ tests'[q] = tests[q]
      BY <2>1 DEF Counted
    <3>2. row'[q] = row[q] \/ row'[q] # Absent
      BY <2>1, Names1 DEF Typed
    <3> QED
      BY <3>1, <3>2 DEF Quiet, TestsInv, Finite, Owned
  <2> QED
    BY <1>2, <1>3, <2>1, <2>2, QuietKeeps DEF Others
<1>5. CASE ~Create(r, p)
  <2>1. UNCHANGED <<row, tests, revived, lock>>
    BY <1>1, <1>5 DEF Edit, AddTest, Reject, Look, FindTest, tables
  <2> QED
    BY <1>2, <1>3, <2>1, RecordQuiet
<1> QED
  BY <1>4, <1>5

(* The write of a problem row waits for the transaction of a creation.     *)
LEMMA StoreTests ==
  ASSUME Typed, Reads, TestsInv, NEW r \in Requests, At(r, "write"), Store(r), Others(r),
         req'[r].step \notin {"count", "insert"}
  PROVE  TestsInv'
<1>1. /\ row'[On(r)] = NewKey(r) /\ (\A p \in Problems \ {On(r)} : row'[p] = row[p])
      /\ UNCHANGED <<lock, revived>> /\ On(r) \in Problems /\ lock[On(r)] = None
      /\ tests'[On(r)] = IF Is(r, "remove") THEN {} ELSE tests[On(r)]
      /\ \A p \in Problems \ {On(r)} : tests'[p] = tests[p]
  BY StoreTyped, NewKeyType DEF Store, Unlocked
<1>2. NewKey(r) = Absent => Is(r, "remove")
  <2>1. ReadsOf(req[r]) /\ req[r].copy \in Keys \cup {None}
    BY DEF Reads, Typed, ReqRows
  <2> QED
    BY <2>1, NewKeyType, Names1 DEF NewKey, Is
<1>3. ASSUME NEW p \in Problems PROVE Quiet(p)
  <2>1. CASE p # On(r)
    <3>1. Counted(p)' = Counted(p) /\ tests'[p] = tests[p] /\ row'[p] = row[p]
      BY <1>1, <2>1 DEF Counted
    <3> QED
      BY <3>1 DEF Quiet, TestsInv, Finite, Owned
  <2>2. CASE p = On(r)
    <3>1. tests'[p] = {} \/ (tests'[p] = tests[p] /\ row'[p] # Absent)
      BY <1>1, <1>2, <2>2
    <3>2. Counted(p)' \subseteq Counted(p)
      BY <1>1, <3>1 DEF Counted
    <3>3. IsFiniteSet(tests'[p])
      BY <3>1, FS_EmptySet DEF TestsInv, Finite
    <3> QED
      BY <1>1, <2>2, <3>1, <3>2, <3>3 DEF Quiet
  <2> QED
    BY <2>1, <2>2
<1> QED
  BY <1>1, <1>3, QuietKeeps DEF Others

LEMMA LockTests ==
  ASSUME Typed, Reads, TestsInv, NEW r \in Requests, Lock(r)
  PROVE  TestsInv'
<1>1. /\ At(r, "lock") /\ lock[On(r)] = None /\ UNCHANGED <<row, tests, revived>>
      /\ On(r) \in Problems /\ 404 \in Codes /\ "count" \in Steps
  BY DEF Lock, Unlocked, Reads, ReadsOf, At, On, tables, history, Codes, Steps
<1>2. CASE row[On(r)] = Absent
  <2>1. Others(r) /\ req'[r].step = "done" /\ lock' = lock
    BY <1>1, <1>2, EndShape DEF Lock
  <2> QED
    BY <1>1, <2>1, RecordQuiet
<1>3. CASE row[On(r)] # Absent
  <2>1. /\ Others(r) /\ req'[r].step = "count" /\ req'[r].on = req[r].on
        /\ lock' = [lock EXCEPT ![On(r)] = r]
    BY <1>1, <1>3, GoShape DEF Lock
  <2>2. lock'[On(r)] = r /\ \A p \in Problems \ {On(r)} : lock'[p] = lock[p]
    BY <1>1, <2>1 DEF Typed
  <2>3. Locked'
    <3> SUFFICES ASSUME NEW q \in Requests, req'[q].step \in {"count", "insert"}
                 PROVE  lock'[On(q)'] = q /\ row[On(q)'] # Absent
      BY <1>1 DEF Locked
    <3>1. CASE q = r
      BY <1>3, <2>1, <2>2, <3>1 DEF On
    <3>2. CASE q # r
      <4>1. req'[q] = req[q]
        BY <2>1, <3>2 DEF Others
      <4>2. lock[On(q)] = q /\ row[On(q)] # Absent /\ On(q) \in Problems /\ q # None
        BY <4>1, Names1 DEF TestsInv, Locked, Reads, ReadsOf, On
      <4>3. On(q) # On(r) /\ On(q)' = On(q)
        BY <1>1, <4>1, <4>2 DEF On
      <4> QED
        BY <2>2, <4>2, <4>3
    <3> QED
      BY <3>1, <3>2
  <2>4. Room'
    BY <1>1, <2>1 DEF TestsInv, Room, Others, At, On, Counted
  <2> QED
    BY <1>1, <2>3, <2>4 DEF TestsInv, Finite, Owned, WithinLimit
<1> QED
  BY <1>2, <1>3

(* Whoever ends its transaction leaves the others theirs.                  *)
LEMMA ReleaseTests ==
  ASSUME Typed, Reads, TestsInv, NEW r \in Requests, Release(r), Others(r), req'[r].step = "done",
         \A p \in Problems : lock[p] # r => Counted(p)' = Counted(p),
         row' = row, Finite', Owned', WithinLimit'
  PROVE  TestsInv'
<1>1. ASSUME NEW q \in Requests, req'[q].step \in {"count", "insert"}
      PROVE  /\ req'[q] = req[q] /\ q # r /\ lock[On(q)] = q /\ row[On(q)] # Absent /\ On(q) \in Problems
             /\ lock'[On(q)] = q /\ On(q)' = On(q) /\ Counted(On(q))' = Counted(On(q))
  <2>1. q # r /\ req'[q] = req[q]
    BY <1>1 DEF Others
  <2>2. lock[On(q)] = q /\ row[On(q)] # Absent /\ On(q) \in Problems /\ On(q)' = On(q)
    BY <1>1, <2>1 DEF TestsInv, Locked, Reads, ReadsOf, On
  <2>3. lock'[On(q)] = q
    BY <2>1, <2>2 DEF Release
  <2>4. Counted(On(q))' = Counted(On(q))
    BY <2>1, <2>2 DEF Counted
  <2> QED
    BY <2>1, <2>2, <2>3, <2>4
<1>2. Locked'
  BY <1>1 DEF Locked, On
<1>3. Room'
  BY <1>1 DEF Room, TestsInv, At, On, Counted
<1> QED
  BY <1>2, <1>3 DEF TestsInv

LEMMA CountTests ==
  ASSUME Typed, Reads, TestsInv, NEW r \in Requests, Count(r)
  PROVE  TestsInv'
<1>1. /\ At(r, "count") /\ UNCHANGED <<row, tests, revived>> /\ On(r) \in Problems
      /\ 400 \in Codes /\ "insert" \in Steps
  BY DEF Count, Reads, ReadsOf, At, On, tables, history, Codes, Steps
<1>2. CASE Cardinality(tests[On(r)]) >= Limit
  <2>1. Others(r) /\ req'[r].step = "done" /\ Release(r)
    BY <1>1, <1>2, EndShape DEF Count
  <2>2. Finite' /\ Owned' /\ WithinLimit' /\ \A p \in Problems : Counted(p)' = Counted(p)
    BY <1>1 DEF TestsInv, Finite, Owned, WithinLimit, Counted
  <2> QED
    BY <1>1, <2>1, <2>2, ReleaseTests
<1>3. CASE ~(Cardinality(tests[On(r)]) >= Limit)
  <2>1. Others(r) /\ req'[r].step = "insert" /\ req'[r].on = req[r].on /\ lock' = lock
    BY <1>1, <1>3, GoShape DEF Count
  <2>2. Locked'
    BY <1>1, <2>1 DEF TestsInv, Locked, Others, At, On
  <2>3. Cardinality(Counted(On(r))) < Limit
    <3>1. IsFiniteSet(tests[On(r)]) /\ Counted(On(r)) \subseteq tests[On(r)]
      BY <1>1 DEF TestsInv, Finite, Counted
    <3>2. /\ Cardinality(Counted(On(r))) <= Cardinality(tests[On(r)])
          /\ Cardinality(Counted(On(r))) \in Nat /\ Cardinality(tests[On(r)]) \in Nat
      BY <3>1, Fewer
    <3> QED
      BY <1>3, <3>2, CatalogueAssumption
  <2>4. Room'
    BY <1>1, <2>1, <2>3 DEF TestsInv, Room, Others, At, On, Counted
  <2> QED
    BY <1>1, <2>2, <2>4 DEF TestsInv, Finite, Owned, WithinLimit
<1> QED
  BY <1>2, <1>3

LEMMA InsertTests ==
  ASSUME Typed, Reads, TestsInv, NEW r \in Requests, Insert(r)
  PROVE  TestsInv'
<1>1. /\ At(r, "insert") /\ UNCHANGED <<row, revived>> /\ On(r) \in Problems /\ Release(r)
      /\ tests' = [tests EXCEPT ![On(r)] = tests[On(r)] \cup {r}]
      /\ lock[On(r)] = r /\ row[On(r)] # Absent /\ Cardinality(Counted(On(r))) < Limit
  BY DEF Insert, Reads, ReadsOf, At, On, history, TestsInv, Locked, Room
<1>2. Others(r) /\ req'[r].step = "done"
  <2>1. 201 \in Codes
    BY DEF Codes
  <2> QED
    BY <2>1, EndShape DEF Insert
<1>3. /\ tests'[On(r)] = tests[On(r)] \cup {r}
      /\ \A p \in Problems \ {On(r)} : tests'[p] = tests[p]
  BY <1>1 DEF Typed
<1>4. Finite'
  BY <1>3, FS_AddElement DEF TestsInv, Finite
<1>5. Owned'
  BY <1>1, <1>3 DEF TestsInv, Owned
<1>6. WithinLimit'
  <2> SUFFICES ASSUME NEW p \in Problems PROVE Cardinality(Counted(p)') <= Limit
    BY DEF WithinLimit, Counted
  <2>1. CASE p # On(r)
    BY <1>1, <1>3, <2>1 DEF TestsInv, WithinLimit, Counted
  <2>2. CASE p = On(r)
    <3>1. Counted(p)' \subseteq Counted(p) \cup {r}
      BY <1>1, <1>3, <2>2 DEF Counted
    <3>2. IsFiniteSet(Counted(p)) /\ Cardinality(Counted(p)) \in Nat
      BY Fewer DEF TestsInv, Finite, Counted
    <3>3. /\ IsFiniteSet(Counted(p) \cup {r})
          /\ Cardinality(Counted(p) \cup {r}) <= Cardinality(Counted(p)) + 1
      <4>1. /\ IsFiniteSet(Counted(p) \cup {r})
            /\ \/ Cardinality(Counted(p) \cup {r}) = Cardinality(Counted(p))
               \/ Cardinality(Counted(p) \cup {r}) = Cardinality(Counted(p)) + 1
        BY <3>2, FS_AddElement, Zenon
      <4> QED
        BY <3>2, <4>1
    <3>4. /\ Cardinality(Counted(p)') <= Cardinality(Counted(p) \cup {r})
          /\ Cardinality(Counted(p)') \in Nat /\ Cardinality(Counted(p) \cup {r}) \in Nat
      BY <3>1, <3>3, Fewer
    <3> QED
      BY <1>1, <2>2, <3>2, <3>3, <3>4, CatalogueAssumption
  <2> QED
    BY <2>1, <2>2
<1>7. \A p \in Problems : lock[p] # r => Counted(p)' = Counted(p)
  BY <1>1, <1>3 DEF Counted
<1> QED
  BY <1>1, <1>2, <1>4, <1>5, <1>6, <1>7, ReleaseTests

LEMMA AddFailsTests ==
  ASSUME Typed, Reads, TestsInv, NEW r \in Requests, AddFails(r)
  PROVE  TestsInv'
<1>1. UNCHANGED <<row, tests, revived>> /\ Release(r) /\ End(r, 500) /\ 500 \in Codes
  BY DEF AddFails, tables, history, Codes
<1>2. Others(r) /\ req'[r].step = "done"
  BY <1>1, EndShape
<1>3. Finite' /\ Owned' /\ WithinLimit' /\ \A p \in Problems : Counted(p)' = Counted(p)
  BY <1>1 DEF TestsInv, Finite, Owned, WithinLimit, Counted
<1> QED
  BY <1>1, <1>2, <1>3, ReleaseTests

(* An update that inserts a testcase again needs the problem unlocked.     *)
LEMMA SaveTestTests ==
  ASSUME Typed, Reads, TestsInv, NEW r \in Requests, SaveTest(r)
  PROVE  TestsInv'
<1> DEFINE p == On(r)
           t == req[r].seen
<1>1. /\ UNCHANGED <<row, lock>> /\ p \in Problems /\ End(r, 200) /\ 200 \in Codes
      /\ \/ UNCHANGED <<tests, revived>>
         \/ /\ row[p] # Absent /\ lock[p] = None
            /\ tests' = [tests EXCEPT ![p] = tests[p] \cup {t}]
            /\ revived' = [revived EXCEPT ![p] = revived[p] \cup {t}]
  BY DEF SaveTest, Reads, ReadsOf, At, On, Unlocked, Codes
<1>2. Others(r) /\ req'[r].step = "done"
  BY <1>1, EndShape
<1>3. CASE UNCHANGED <<tests, revived>>
  BY <1>1, <1>2, <1>3, RecordQuiet
<1>4. CASE /\ row[p] # Absent /\ lock[p] = None
           /\ tests' = [tests EXCEPT ![p] = tests[p] \cup {t}]
           /\ revived' = [revived EXCEPT ![p] = revived[p] \cup {t}]
  <2>1. /\ tests'[p] = tests[p] \cup {t} /\ revived'[p] = revived[p] \cup {t}
        /\ \A q \in Problems \ {p} : tests'[q] = tests[q] /\ revived'[q] = revived[q]
    BY <1>1, <1>4 DEF Typed
  <2>2. ASSUME NEW q \in Problems PROVE Quiet(q)
    <3>1. Counted(q)' \subseteq Counted(q)
      BY <2>1 DEF Counted
    <3>2. IsFiniteSet(tests'[q])
      <4>1. IsFiniteSet(tests[q]) /\ IsFiniteSet(tests[q] \cup {t})
        BY FS_AddElement DEF TestsInv, Finite
      <4> QED
        BY <2>1, <4>1
    <3>3. row'[q] = row[q] /\ (row[q] = Absent => tests'[q] = {})
      BY <1>1, <1>4, <2>1 DEF TestsInv, Owned
    <3> QED
      BY <3>1, <3>2, <3>3 DEF Quiet
  <2> QED
    BY <1>1, <1>2, <2>2, QuietKeeps DEF Others
<1> QED
  BY <1>1, <1>3, <1>4

LEMMA DeleteTestTests ==
  ASSUME Typed, Reads, TestsInv, NEW r \in Requests, DeleteTest(r)
  PROVE  TestsInv'
<1> DEFINE p == On(r)
           t == req[r].seen
<1>1. /\ UNCHANGED <<row, lock>> /\ p \in Problems /\ End(r, 204) /\ 204 \in Codes
      /\ tests' = [tests EXCEPT ![p] = tests[p] \ {t}]
      /\ revived' = [revived EXCEPT ![p] = revived[p] \ {t}]
  BY DEF DeleteTest, Reads, ReadsOf, At, On, Codes
<1>2. Others(r) /\ req'[r].step = "done"
  BY <1>1, EndShape
<1>3. /\ tests'[p] = tests[p] \ {t} /\ revived'[p] = revived[p] \ {t}
      /\ \A q \in Problems \ {p} : tests'[q] = tests[q] /\ revived'[q] = revived[q]
  BY <1>1 DEF Typed
<1>4. ASSUME NEW q \in Problems PROVE Quiet(q)
  <2>1. Counted(q)' \subseteq Counted(q) /\ tests'[q] \subseteq tests[q]
    BY <1>3 DEF Counted
  <2>2. IsFiniteSet(tests'[q])
    BY <2>1, Fewer DEF TestsInv, Finite
  <2>3. row'[q] = row[q] /\ (row[q] = Absent => tests'[q] = {})
    BY <1>1, <2>1 DEF TestsInv, Owned
  <2> QED
    BY <2>1, <2>2, <2>3 DEF Quiet
<1> QED
  BY <1>1, <1>2, <1>4, QuietKeeps DEF Others

LEMMA DatabaseTests ==
  ASSUME Typed, Reads, TestsInv, NEW r \in Requests, DatabaseStep(r)
  PROVE  TestsInv'
<1>1. {200, 201, 204, 400, 404, 500} \subseteq Codes
  BY DEF Codes
<1>2. CASE Find(r)
  <2>1. At(r, "find") /\ UNCHANGED <<row, tests, lock, revived>>
    BY <1>2 DEF Find, history, tables
  <2>2. Others(r) /\ req'[r].step \notin {"count", "insert"}
    BY <1>1, <1>2, <2>1, AbortShape, FindShape DEF Find
  <2> QED
    BY <2>1, <2>2, RecordQuiet
<1>3. ASSUME FindFails(r) \/ WriteFails(r) \/ ChangeFails(r) PROVE TestsInv'
  <2>1. UNCHANGED <<row, tests, lock, revived>>
    BY <1>3 DEF FindFails, WriteFails, ChangeFails, history, tables
  <2>2. Abort(r, 500) \/ End(r, 400) \/ End(r, 500)
    BY <1>3 DEF FindFails, WriteFails, ChangeFails
  <2>3. Others(r) /\ req'[r].step \notin {"count", "insert"}
    BY <1>1, <2>2, AbortShape, EndShape
  <2> QED
    BY <2>1, <2>3, RecordQuiet
<1>4. CASE Write(r)
  <2>1. Others(r) /\ req'[r].step \notin {"count", "insert"}
    BY <1>4, WriteEnds
  <2> QED
    BY <1>4, <2>1, StoreTests DEF Write
<1>5. CASE WriteLost(r)
  <2>1. Others(r) /\ req'[r].step \notin {"count", "insert"}
    BY <1>1, <1>5, AbortShape DEF WriteLost
  <2> QED
    BY <1>5, <2>1, StoreTests DEF WriteLost
<1> QED
  BY <1>2, <1>3, <1>4, <1>5, LockTests, CountTests, InsertTests, AddFailsTests, SaveTestTests, DeleteTestTests
     DEF DatabaseStep

LEMMA StorageTests ==
  ASSUME Typed, Reads, TestsInv, NEW r \in Requests, StorageStep(r)
  PROVE  TestsInv'
<1>1. UNCHANGED <<row, tests, lock, revived>>
  BY DEF StorageStep, Put, PutFails, Drop, DropFails, Cleanup, tables, history
<1>2. /\ {200, 201, 204, 400, 404, 500, 502} \subseteq Codes /\ req[r].code \in Codes
      /\ "find" \in Steps
  BY DEF Codes, Typed, ReqRows, Steps
<1>3. Others(r) /\ req'[r].step \notin {"count", "insert"}
  <2>1. Go(r, "find") \/ \E code \in Codes : End(r, code)
    BY <1>2 DEF StorageStep, Put, PutFails, Drop, DropFails, Cleanup, EndShown
  <2> QED
    BY <1>2, <2>1, GoShape, EndShape
<1> QED
  BY <1>1, <1>3, RecordQuiet

LEMMA SeedTests ==
  ASSUME Typed, Reads, TestsInv, NEW p \in Problems, SeedProblem(p) \/ Upsert(p)
  PROVE  TestsInv'
<1>1. /\ lock[p] = None /\ UNCHANGED <<lock, req, revived>>
      /\ row' = [row EXCEPT ![p] = IF row[p] = Absent THEN None ELSE row[p]]
  BY DEF SeedProblem, Upsert, SeedRow, Unlocked
<1>2. FirstSeeded[p] \subseteq Seeded[p] /\ IsFiniteSet(Seeded[p])
  <2>1. IsFiniteSet(Seeded[p] \cup OldTests[p])
    BY CatalogueAssumption
  <2> QED
    BY <2>1, Fewer, CatalogueAssumption
<1>3. /\ row'[p] # Absent
      /\ \A q \in Problems \ {p} : row'[q] = row[q] /\ tests'[q] = tests[q]
      /\ tests'[p] = FirstSeeded[p] \/ tests'[p] = tests[p] \cup Seeded[p]
  BY <1>1, Names1 DEF Typed, SeedProblem, Upsert
<1>4. ASSUME NEW q \in Problems PROVE Quiet(q)
  <2>1. CASE q # p
    <3>1. Counted(q)' = Counted(q) /\ tests'[q] = tests[q] /\ row'[q] = row[q]
      BY <1>1, <1>3, <2>1 DEF Counted
    <3> QED
      BY <3>1 DEF Quiet, TestsInv, Finite, Owned
  <2>2. CASE q = p
    <3>1. Counted(p)' \subseteq Counted(p)
      BY <1>1, <1>2, <1>3 DEF Counted
    <3>2. IsFiniteSet(tests'[p])
      <4>1. IsFiniteSet(FirstSeeded[p])
        BY <1>2, Fewer
      <4>2. IsFiniteSet(tests[p] \cup Seeded[p])
        BY <1>2, FS_Union DEF TestsInv, Finite
      <4> QED
        BY <1>3, <4>1, <4>2
    <3> QED
      BY <1>1, <1>3, <2>2, <3>1, <3>2 DEF Quiet
  <2> QED
    BY <2>1, <2>2
<1> QED
  BY <1>1, <1>4, QuietKeeps

-----------------------------------------------------------------------------
(* The thumbnails.                                                         *)

(* How a step may move keys: into a row from the request that writes it,   *)
(* and into a request from the row it reads.                               *)
RowMoves(r) ==
  \A p \in Problems :
    \/ row'[p] = row[p] \/ row'[p] \notin Keys
    \/ p = On(r) /\ Active(r) /\ req[r].step # "change" /\ row'[p] = req[r].copy
    \/ p = On(r) /\ Uploads(r, r) /\ row'[p] = r /\ Past(r)'

RequestMoves(r) ==
  /\ Others(r)
  /\ Past(r) => Past(r)'
  /\ \A k \in Keys : Holds(r, k)' =>
       \/ Active(r) /\ On(r)' = On(r) /\ Holds(r, k)
       \/ On(r)' \in Problems /\ row[On(r)'] = k
  /\ Uploads(r, r)' => Idle(r) \/ (Uploads(r, r) /\ On(r)' = On(r))

LEMMA EndMoves ==
  ASSUME NEW r \in Requests, Others(r),
         req'[r].step = "done", req'[r].seen = None, req'[r].copy = None
  PROVE  RequestMoves(r)
  BY Names1 DEF RequestMoves, Past, Holds, Uploads

LEMMA GoMoves ==
  ASSUME NEW r \in Requests, Others(r), Active(r), req[r].step # "change",
         req'[r].kind = req[r].kind, req'[r].on = req[r].on,
         req'[r].seen = req[r].seen, req'[r].copy = req[r].copy,
         Past(r) => Past(r)',
         req'[r].step \in {"put", "find", "write", "drop", "cleanup"} =>
           req[r].step \in {"put", "find", "write", "drop", "cleanup"}
  PROVE  RequestMoves(r)
<1>1. On(r)' = On(r)
  BY DEF On
<1>2. ASSUME NEW k \in Keys, Holds(r, k)' PROVE Holds(r, k)
  BY <1>2 DEF Holds
<1>3. Uploads(r, r)' => Uploads(r, r)
  BY DEF Uploads, Is
<1> QED
  BY <1>1, <1>2, <1>3 DEF RequestMoves

LEMMA KeysMove ==
  ASSUME GivenAway, Tied, NEW r \in Requests, RowMoves(r), RequestMoves(r)
  PROVE  GivenAway' /\ Tied'
<1>1. GivenAway'
  <2> SUFFICES ASSUME NEW k \in Requests, ~Past(k)'
               PROVE  (\A p \in Problems : row'[p] # k) /\ (\A q \in Requests : ~Holds(q, k)')
    BY DEF GivenAway
  <2>1. ~Past(k)
    BY DEF RequestMoves, Others, Past
  <2>2. (\A p \in Problems : row[p] # k) /\ (\A q \in Requests : ~Holds(q, k)) /\ k \in Keys
    BY <2>1, Names1 DEF GivenAway
  <2>3. ASSUME NEW p \in Problems, row'[p] = k PROVE FALSE
    <3>1. \/ req[r].step # "change" /\ req[r].copy = k
          \/ k = r /\ Past(r)'
      BY <2>2, <2>3 DEF RowMoves
    <3> QED
      BY <2>2, <3>1 DEF Holds
  <2>4. ASSUME NEW q \in Requests, Holds(q, k)' PROVE FALSE
    <3>1. CASE q = r
      BY <2>2, <2>4, <3>1 DEF RequestMoves
    <3>2. CASE q # r
      BY <2>2, <2>4, <3>2 DEF RequestMoves, Others, Holds
    <3> QED
      BY <3>1, <3>2
  <2> QED
    BY <2>3, <2>4
<1>2. ASSUME NEW p \in Problems, NEW k \in Names(p)'
      PROVE  k \in Names(p) \/ (k = r /\ Idle(r) /\ p = On(r)')
  <2>1. k \in Keys
    BY <1>2 DEF Names
  <2>2. CASE row'[p] = k
    <3>1. \/ row[p] = k
          \/ p = On(r) /\ Active(r) /\ Holds(r, k)
          \/ p = On(r) /\ Uploads(r, k)
      BY <2>1, <2>2 DEF RowMoves, Holds
    <3>2. Uploads(r, k) => Active(r)
      BY DEF Uploads, Active
    <3> QED
      BY <2>1, <3>1, <3>2 DEF Names
  <2>3. CASE k = p
    BY <2>1, <2>3 DEF Names
  <2>4. ASSUME NEW q \in Requests, On(q)' = p, Active(q)', Holds(q, k)' \/ Uploads(q, k)'
        PROVE  k \in Names(p) \/ (k = r /\ Idle(r) /\ p = On(r)')
    <3>1. CASE q # r
      <4>1. On(q) = p /\ Active(q) /\ (Holds(q, k) \/ Uploads(q, k))
        BY <2>4, <3>1 DEF RequestMoves, Others, On, Active, Holds, Uploads, Is
      <4> QED
        BY <2>1, <4>1 DEF Names
    <3>2. CASE q = r /\ Holds(q, k)'
      <4>1. \/ Active(r) /\ On(r) = p /\ Holds(r, k)
            \/ row[p] = k
        BY <2>1, <2>4, <3>2 DEF RequestMoves
      <4> QED
        BY <2>1, <4>1 DEF Names
    <3>3. CASE q = r /\ Uploads(q, k)'
      <4>1. k = r
        BY <3>3 DEF Uploads
      <4>2. Idle(r) \/ (Uploads(r, k) /\ On(r) = p)
        BY <2>4, <3>3, <4>1 DEF RequestMoves
      <4>3. Uploads(r, k) => Active(r)
        BY DEF Uploads, Active
      <4> QED
        BY <2>1, <2>4, <3>3, <4>1, <4>2, <4>3 DEF Names
    <3> QED
      BY <2>4, <3>1, <3>2, <3>3
  <2> QED
    BY <1>2, <2>2, <2>3, <2>4 DEF Names
<1>3. ASSUME Idle(r), NEW q \in Problems PROVE r \notin Names(q)
  <2>1. ~Past(r)
    BY <1>3 DEF Idle, Past
  <2>2. row[q] # r /\ r # q /\ \A o \in Requests : ~Holds(o, r)
    BY <2>1, Names1 DEF GivenAway
  <2>3. \A o \in Requests : ~Uploads(o, r)
    BY <1>3 DEF Uploads, Idle
  <2> QED
    BY <2>2, <2>3 DEF Names
<1>4. Tied'
  <2> SUFFICES ASSUME NEW p \in Problems, NEW q \in Problems, p # q,
                      NEW k, k \in Names(p)', k \in Names(q)'
               PROVE  FALSE
    BY DEF Tied
  <2>1. k \in Names(p) \/ (k = r /\ Idle(r) /\ p = On(r)')
    BY <1>2
  <2>2. k \in Names(q) \/ (k = r /\ Idle(r) /\ q = On(r)')
    BY <1>2
  <2>3. ~(k \in Names(p) /\ k \in Names(q))
    BY DEF Tied
  <2> QED
    BY <1>3, <2>1, <2>2, <2>3
<1> QED
  BY <1>1, <1>4

(* A step that gives no new key to a problem that is not suspect, and      *)
(* deletes no object that is needed.                                       *)
LEMMA KeysKept ==
  ASSUME Typed, Reads, KeysInv, NEW r \in Requests, RowMoves(r), RequestMoves(r), suspect \subseteq suspect',
         \A p \in Problems \ suspect' : row'[p] = row[p] \/ row'[p] \notin Keys,
         At(r, "drop")' => At(r, "drop") /\ req'[r].seen = req[r].seen,
         At(r, "cleanup")' => At(r, "cleanup") \/ ~Past(r),
         Is(r, "upload")' /\ req'[r].step \in {"find", "write"} => r \in objects',
         \A k \in objects \ objects' :
           /\ \A q \in Requests \ {r} : ~(q = k /\ Is(q, "upload") /\ req[q].step \in {"find", "write"})
           /\ \A p \in Problems \ suspect : row[p] # k
  PROVE  KeysInv'
<1>1. GivenAway' /\ Tied'
  BY KeysMove DEF KeysInv
<1>2. Others(r)
  BY DEF RequestMoves
<1>3. Dropped'
  <2> SUFFICES ASSUME NEW q \in Requests, At(q, "drop")', NEW p \in Problems \ suspect'
               PROVE  row'[p] # req'[q].seen
    BY DEF Dropped
  <2>1. At(q, "drop") /\ req'[q].seen = req[q].seen
    BY <1>2 DEF Others, At
  <2>2. req[q].seen \in Keys /\ row[p] # req[q].seen
    BY <2>1 DEF KeysInv, Dropped, Reads, ReadsOf, At
  <2> QED
    BY <2>1, <2>2
<1>4. Cleaned'
  <2> SUFFICES ASSUME NEW q \in Requests, At(q, "cleanup")', NEW p \in Problems \ suspect'
               PROVE  row'[p] # q
    BY DEF Cleaned
  <2>1. At(q, "cleanup") \/ ~Past(q)
    BY <1>2 DEF Others, At
  <2>2. row[p] # q /\ q \in Keys
    BY <2>1, Names1 DEF KeysInv, Cleaned, GivenAway
  <2> QED
    BY <2>2
<1>5. Uploaded'
  BY <1>2 DEF KeysInv, Uploaded, Others, Is
<1>6. ThumbnailStored'
  BY DEF KeysInv, ThumbnailStored
<1> QED
  BY <1>1, <1>3, <1>4, <1>5, <1>6 DEF KeysInv

(* Steps that end a request and leave rows and objects alone.              *)
LEMMA EndKeys ==
  ASSUME Typed, Reads, KeysInv, NEW r \in Requests, Others(r),
         req'[r].step = "done", req'[r].seen = None, req'[r].copy = None,
         UNCHANGED suspect, objects \subseteq objects',
         \A p \in Problems : row'[p] = row[p] \/ row'[p] \notin Keys
  PROVE  KeysInv'
<1>1. RequestMoves(r) /\ RowMoves(r)
  BY EndMoves DEF RowMoves
<1> QED
  BY <1>1, KeysKept DEF At

LEMMA ArriveKeys ==
  ASSUME Typed, Reads, KeysInv, NEW r \in Requests, Arrive(r)
  PROVE  KeysInv'
<1>1. PICK p \in Problems :
        \/ Create(r, p) \/ Edit(r, p) \/ AddTest(r, p)
        \/ \E k \in Kinds : Reject(r, k) \/ Look(r, k, p) \/ FindTest(r, k, p)
  BY DEF Arrive
<1>2. Others(r) /\ req[r].step = "idle" /\ ~Past(r) /\ UNCHANGED <<objects, suspect>>
  BY <1>1, ArriveTyped DEF Past, Create, Edit, AddTest, Reject, Look, FindTest
<1>3. \A q \in Problems : row'[q] = row[q] \/ row'[q] \notin Keys
  BY <1>1, Names1 DEF Create, Edit, AddTest, Reject, Look, FindTest, tables, Typed
<1>4. ASSUME NEW k \in Kinds, NEW code \in Codes, AnswerAtOnce(r, k, code) PROVE KeysInv'
  <2>1. req'[r].step = "done" /\ req'[r].seen = None /\ req'[r].copy = None
    BY <1>4, AtOnceShape
  <2> QED
    BY <1>2, <1>3, <2>1, EndKeys
<1>5. ASSUME NEW k \in Kinds, NEW step \in {"find", "put", "lock", "change"}, NEW seen \in Ids \cup {None},
             Enter(r, k, p, step, seen), k # "upload" \/ step # "find",
             step # "change" => seen = None \/ seen = row[p]
      PROVE  KeysInv'
  <2>1. step \in Steps
    BY DEF Steps
  <2>2. /\ req'[r].step = step /\ req'[r].kind = k /\ req'[r].on = p /\ req'[r].seen = seen
        /\ req'[r].copy = None
    BY <1>5, <2>1, EnterShape
  <2>3. ASSUME NEW x \in Keys, Holds(r, x)' PROVE On(r)' \in Problems /\ row[On(r)'] = x
    BY <1>5, <2>2, <2>3, Names1 DEF Holds, On
  <2>4. RequestMoves(r) /\ RowMoves(r)
    BY <1>2, <1>3, <2>3 DEF RequestMoves, RowMoves, Idle
  <2> QED
    BY <1>2, <1>3, <1>5, <2>2, <2>4, KeysKept DEF At, Is
<1>6. CASE Create(r, p)
  <2>1. "create" \in Kinds /\ 201 \in Codes
    BY DEF Kinds, Codes
  <2> QED
    BY <1>4, <1>6, <2>1 DEF Create
<1>7. CASE Edit(r, p) \/ AddTest(r, p)
  <2>1. "edit" \in Kinds /\ "addTest" \in Kinds
    BY DEF Kinds
  <2> QED
    BY <1>5, <1>7, <2>1 DEF Edit, AddTest
<1>8. ASSUME NEW k \in Kinds, Reject(r, k) PROVE KeysInv'
  <2>1. 400 \in Codes
    BY DEF Codes
  <2> QED
    BY <1>4, <1>8, <2>1 DEF Reject
<1>9. ASSUME NEW k \in Kinds, Look(r, k, p) PROVE KeysInv'
  <2>1. Refusal(k, p) \in Codes
    BY DEF Refusal, Codes
  <2>2. CASE Refusal(k, p) # 0
    BY <1>4, <1>9, <2>1, <2>2 DEF Look
  <2>3. CASE Refusal(k, p) = 0
    <3>1. row[p] # Absent
      BY <2>3, <1>9 DEF Refusal, Look, ThumbnailsNil
    <3>2. row[p] \in Ids \cup {None}
      BY <3>1, Names1 DEF Typed
    <3>3. CASE k = "upload"
      <4>1. Enter(r, k, p, "put", row[p])
        BY <1>9, <2>3, <3>3 DEF Look
      <4> QED
        BY <1>5, <3>2, <4>1
    <3>4. CASE k # "upload"
      <4>1. Enter(r, k, p, "find", row[p])
        BY <1>9, <2>3, <3>4 DEF Look
      <4> QED
        BY <1>5, <3>2, <3>4, <4>1
    <3> QED
      BY <3>3, <3>4
  <2> QED
    BY <2>2, <2>3
<1>10. ASSUME NEW k \in Kinds, FindTest(r, k, p) PROVE KeysInv'
  <2>1. PICK t \in tests[p] : Enter(r, k, p, "change", t)
    BY <1>10 DEF FindTest
  <2>2. t \in Ids
    BY DEF Typed
  <2> QED
    BY <1>5, <2>1, <2>2
<1> QED
  BY <1>1, <1>6, <1>7, <1>8, <1>9, <1>10

(* An aborted request: it ends, or goes on to its cleanup.                 *)
LEMMA AbortMoves ==
  ASSUME Typed, NEW r \in Requests, NEW code \in Codes, Abort(r, code), req[r].step \in {"find", "write"}
  PROVE  /\ RequestMoves(r) /\ Others(r) /\ req'[r].step \in {"done", "cleanup"}
         /\ req'[r].step = "cleanup" => Is(r, "upload")
         /\ Is(r, "upload") => Past(r)'
<1>1. CASE req'[r].step = "done" /\ req'[r].seen = None /\ req'[r].copy = None
  BY <1>1, AbortShape, EndMoves DEF Past
<1>2. CASE /\ req'[r].step = "cleanup" /\ Is(r, "upload") /\ req'[r].kind = req[r].kind
           /\ req'[r].on = req[r].on /\ req'[r].seen = req[r].seen /\ req'[r].copy = req[r].copy
  <2>1. Others(r) /\ Active(r) /\ Past(r)'
    BY <1>2, AbortShape DEF Active, Past
  <2> QED
    BY <1>2, <2>1, GoMoves
<1> QED
  BY <1>1, <1>2, AbortShape

LEMMA AbortKeys ==
  ASSUME Typed, Reads, KeysInv, NEW r \in Requests, NEW code \in Codes, Abort(r, code),
         req[r].step \in {"find", "write"}, UNCHANGED <<row, objects, suspect>>
  PROVE  KeysInv'
<1>1. RequestMoves(r) /\ req'[r].step \in {"done", "cleanup"} /\ ~Past(r)
  BY AbortMoves DEF Past
<1>2. RowMoves(r)
  BY DEF RowMoves
<1> QED
  BY <1>1, <1>2, KeysKept DEF At

LEMMA FindKeys ==
  ASSUME Typed, Reads, KeysInv, NEW r \in Requests, Find(r)
  PROVE  KeysInv'
<1>1. At(r, "find") /\ UNCHANGED <<row, objects, suspect>> /\ 404 \in Codes
  BY DEF Find, history, tables, Codes
<1>2. CASE row[On(r)] = Absent
  BY <1>1, <1>2, AbortKeys DEF Find, At
<1>3. CASE row[On(r)] # Absent
  <2>1. /\ Others(r) /\ On(r) \in Problems
        /\ req'[r].step = "write" /\ req'[r].kind = req[r].kind /\ req'[r].on = req[r].on
        /\ req'[r].seen = req[r].seen /\ req'[r].copy = row[On(r)]
    BY <1>1, <1>3, FindShape DEF Find
  <2>2. On(r)' = On(r) /\ Active(r) /\ ~Past(r)
    BY <1>1, <2>1 DEF On, Active, At, Past
  <2>3. ASSUME NEW k \in Keys, Holds(r, k)' PROVE Holds(r, k) \/ row[On(r)] = k
    BY <1>1, <2>1, <2>3 DEF Holds, At
  <2>4. Uploads(r, r)' => Uploads(r, r)
    BY <1>1, <2>1 DEF Uploads, Is, At
  <2>5. RequestMoves(r) /\ RowMoves(r)
    BY <1>1, <2>1, <2>2, <2>3, <2>4 DEF RequestMoves, RowMoves
  <2>6. Is(r, "upload")' => r \in objects'
    BY <1>1, <2>1 DEF KeysInv, Uploaded, Is, At
  <2> QED
    BY <1>1, <2>1, <2>5, <2>6, KeysKept DEF At
<1> QED
  BY <1>2, <1>3

(* A row that is written takes the key of the request that writes it.      *)
LEMMA StoreMoves ==
  ASSUME Typed, Reads, NEW r \in Requests, At(r, "write"), Store(r), Is(r, "upload") => Past(r)'
  PROVE  RowMoves(r)
<1>1. /\ row'[On(r)] = NewKey(r) /\ (\A p \in Problems \ {On(r)} : row'[p] = row[p])
  BY StoreTyped
<1>2. req[r].kind \in {"edit", "remove", "upload", "unset"} /\ Active(r) /\ req[r].step # "change"
  BY NewKeyType DEF Active, At
<1>3. \/ NewKey(r) \notin Keys
      \/ NewKey(r) = req[r].copy
      \/ Uploads(r, r) /\ NewKey(r) = r /\ Past(r)'
  BY <1>2, Names1 DEF NewKey, Is, Uploads, At
<1> QED
  BY <1>1, <1>2, <1>3 DEF RowMoves

LEMMA WriteLostKeys ==
  ASSUME Typed, Reads, KeysInv, NEW r \in Requests, WriteLost(r)
  PROVE  KeysInv'
<1>1. /\ At(r, "write") /\ Store(r) /\ Abort(r, 500) /\ suspect' = suspect \cup {On(r)} /\ 500 \in Codes
      /\ objects' = objects
  BY DEF WriteLost, Codes, Store
<1>2. /\ RequestMoves(r) /\ req'[r].step \in {"done", "cleanup"} /\ ~Past(r)
      /\ Is(r, "upload") => Past(r)'
  BY <1>1, AbortMoves DEF At, Past
<1>3. RowMoves(r)
  BY <1>1, <1>2, StoreMoves
<1>4. \A p \in Problems \ suspect' : row'[p] = row[p]
  BY <1>1, StoreTyped
<1> QED
  BY <1>1, <1>2, <1>3, <1>4, KeysKept DEF At

LEMMA WriteMoves ==
  ASSUME Typed, Reads, NEW r \in Requests, Write(r)
  PROVE  /\ RequestMoves(r) /\ RowMoves(r) /\ ~Past(r) /\ Past(r)' /\ req'[r].step \in {"done", "drop"}
         /\ At(r, "drop")' => req'[r].seen = req[r].seen /\ req[r].seen \in Keys
<1>1. At(r, "write") /\ Store(r)
  BY DEF Write
<1>2. ~Past(r) /\ Active(r) /\ req[r].step # "change" /\ req[r].seen \in Keys \cup {None}
  BY <1>1, NewKeyType DEF At, Past, Active
<1>3. CASE req'[r].step = "done" /\ req'[r].seen = None /\ req'[r].copy = None
  <2>1. RequestMoves(r) /\ Past(r)'
    BY <1>3, WriteEnds, EndMoves DEF Past
  <2> QED
    BY <1>1, <1>2, <1>3, <2>1, StoreMoves DEF At
<1>4. CASE /\ req'[r].step = "drop" /\ req'[r].kind = req[r].kind /\ req'[r].on = req[r].on
           /\ req'[r].seen = req[r].seen /\ req'[r].copy = req[r].copy /\ req[r].seen # None
  <2>1. RequestMoves(r) /\ Past(r)'
    BY <1>1, <1>2, <1>4, WriteEnds, GoMoves DEF Past, At
  <2> QED
    BY <1>1, <1>2, <1>4, <2>1, StoreMoves DEF At
<1> QED
  BY <1>3, <1>4, WriteEnds

LEMMA WriteKeys ==
  ASSUME Typed, Reads, KeysInv, NEW r \in Requests, Write(r)
  PROVE  KeysInv'
<1>1. /\ At(r, "write") /\ Store(r) /\ UNCHANGED objects /\ r \in Keys
      /\ On(r) \in Problems /\ req[r].kind \in {"edit", "remove", "upload", "unset"}
      /\ row'[On(r)] = NewKey(r) /\ (\A p \in Problems \ {On(r)} : row'[p] = row[p])
  BY NewKeyType, StoreTyped, Names1 DEF Write
<1>2. /\ RequestMoves(r) /\ RowMoves(r) /\ ~Past(r) /\ Past(r)' /\ req'[r].step \in {"done", "drop"}
      /\ At(r, "drop")' => req'[r].seen = req[r].seen /\ req[r].seen \in Keys
  BY WriteMoves
<1>3. CASE Is(r, "edit")
  <2>1. req[r].seen = None
    BY <1>1, <1>3 DEF Reads, ReadsOf, At, Is
  <2>2. ~At(r, "drop")' /\ suspect' = IF Stale(r) THEN suspect \cup {On(r)} ELSE suspect
    BY <1>2, <1>3, <2>1, Names1 DEF Write
  <2>3. \A p \in Problems \ suspect' : row'[p] = row[p]
    BY <1>1, <1>3, <2>2 DEF Stale, NewKey, Is
  <2> QED
    BY <1>1, <1>2, <2>2, <2>3, KeysKept DEF At
<1>4. CASE ~Is(r, "edit")
  <2>1. suspect' = suspect \ {On(r)} /\ Others(r)
    BY <1>2, <1>4 DEF Write, RequestMoves
  <2>2. (Is(r, "upload") /\ NewKey(r) = r) \/ NewKey(r) \notin Keys
    BY <1>1, <1>4, Names1 DEF NewKey, Is
  <2>3. \A q \in Requests : ~Holds(q, r)
    BY <1>2 DEF KeysInv, GivenAway
  <2>4. Dropped'
    <3> SUFFICES ASSUME NEW q \in Requests, At(q, "drop")', NEW p \in Problems \ suspect'
                 PROVE  row'[p] # req'[q].seen
      BY DEF Dropped
    <3>1. req'[q].seen = req[q].seen /\ req[q].seen \in Keys /\ req[q].step \in {"drop", "write"}
      BY <1>1, <1>2, <2>1 DEF Others, At, Reads, ReadsOf
    <3>2. Holds(q, req[q].seen)
      BY <3>1 DEF Holds
    <3>3. CASE p = On(r)
      BY <1>1, <2>2, <2>3, <3>1, <3>2, <3>3
    <3>4. CASE p # On(r) /\ q # r
      <4>1. At(q, "drop") /\ p \notin suspect
        BY <2>1, <3>4 DEF Others, At
      <4> QED
        BY <1>1, <3>1, <3>4, <4>1 DEF KeysInv, Dropped
    <3>5. CASE p # On(r) /\ q = r
      <4>1. req[r].seen \in Names(On(r))
        BY <1>1, <3>1, <3>2, <3>5 DEF Names, Active, At
      <4>2. req[r].seen \notin Names(p)
        BY <1>1, <3>5, <4>1 DEF KeysInv, Tied
      <4> QED
        BY <1>1, <3>1, <3>5, <4>2 DEF Names
    <3> QED
      BY <3>3, <3>4, <3>5
  <2>5. Cleaned'
    <3> SUFFICES ASSUME NEW q \in Requests, At(q, "cleanup")', NEW p \in Problems \ suspect'
                 PROVE  row'[p] # q
      BY DEF Cleaned
    <3>1. q # r /\ At(q, "cleanup") /\ q \in Keys
      BY <1>2, <2>1, Names1 DEF Others, At
    <3>2. CASE p = On(r)
      BY <1>1, <2>2, <3>1, <3>2
    <3>3. CASE p # On(r)
      BY <1>1, <2>1, <3>1, <3>3 DEF KeysInv, Cleaned
    <3> QED
      BY <3>2, <3>3
  <2>6. Uploaded'
    BY <1>1, <1>2, <2>1 DEF KeysInv, Uploaded, Others, Is
  <2>7. ThumbnailStored'
    <3> SUFFICES ASSUME NEW p \in Problems \ suspect', row'[p] \in Keys PROVE row'[p] \in objects
      BY <1>1 DEF ThumbnailStored
    <3>1. CASE p = On(r)
      BY <1>1, <2>2, <3>1 DEF KeysInv, Uploaded, At
    <3>2. CASE p # On(r)
      BY <1>1, <2>1, <3>2 DEF KeysInv, ThumbnailStored
    <3> QED
      BY <3>1, <3>2
  <2>8. GivenAway' /\ Tied'
    BY <1>2, KeysMove DEF KeysInv
  <2> QED
    BY <2>4, <2>5, <2>6, <2>7, <2>8 DEF KeysInv
<1> QED
  BY <1>3, <1>4

LEMMA DatabaseKeys ==
  ASSUME Typed, Reads, KeysInv, NEW r \in Requests, DatabaseStep(r)
  PROVE  KeysInv'
<1>1. /\ {200, 201, 204, 400, 404, 500} \subseteq Codes /\ {"count", "insert"} \subseteq Steps
  BY DEF Codes, Steps
<1>2. ASSUME NEW code \in Codes, End(r, code), UNCHANGED <<row, objects, suspect>> PROVE KeysInv'
  <2>1. Others(r) /\ req'[r].step = "done" /\ req'[r].seen = None /\ req'[r].copy = None
    BY <1>2, EndShape
  <2> QED
    BY <1>2, <2>1, EndKeys
<1>3. ASSUME NEW step \in {"count", "insert"}, Go(r, step), req[r].step \in {"lock", "count"},
             UNCHANGED <<row, objects, suspect>>
      PROVE  KeysInv'
  <2>1. /\ Others(r) /\ req'[r].step = step /\ req'[r].kind = req[r].kind /\ req'[r].on = req[r].on
        /\ req'[r].seen = req[r].seen /\ req'[r].copy = req[r].copy
    BY <1>1, <1>3, GoShape
  <2>2. Active(r) /\ ~Past(r)
    BY <1>3 DEF Active, Past
  <2>3. RequestMoves(r)
    BY <1>3, <2>1, <2>2, GoMoves
  <2>4. RowMoves(r)
    BY <1>3 DEF RowMoves
  <2> QED
    BY <1>3, <2>1, <2>3, <2>4, KeysKept DEF At
<1>4. CASE FindFails(r)
  <2>1. At(r, "find") /\ UNCHANGED <<row, objects, suspect>> /\ (Abort(r, 500) \/ End(r, 400))
    BY <1>4 DEF FindFails, tables, history
  <2> QED
    BY <1>1, <1>2, <2>1, AbortKeys DEF At
<1>5. CASE WriteFails(r)
  <2>1. At(r, "write") /\ UNCHANGED <<row, objects, suspect>> /\ Abort(r, 500)
    BY <1>5 DEF WriteFails, tables, history
  <2> QED
    BY <1>1, <2>1, AbortKeys DEF At
<1>6. CASE Lock(r)
  <2>1. /\ UNCHANGED <<row, objects, suspect>> /\ (End(r, 404) \/ Go(r, "count"))
        /\ req[r].step = "lock"
    BY <1>6 DEF Lock, tables, history, At
  <2> QED
    BY <1>1, <1>2, <1>3, <2>1
<1>7. CASE Count(r)
  <2>1. /\ UNCHANGED <<row, objects, suspect>> /\ (End(r, 400) \/ Go(r, "insert"))
        /\ req[r].step = "count"
    BY <1>7 DEF Count, tables, history, At
  <2> QED
    BY <1>1, <1>2, <1>3, <2>1
<1>8. ASSUME Insert(r) \/ AddFails(r) \/ SaveTest(r) \/ DeleteTest(r) \/ ChangeFails(r) PROVE KeysInv'
  <2>1. UNCHANGED <<row, objects, suspect>>
    BY <1>8 DEF Insert, AddFails, SaveTest, DeleteTest, ChangeFails, tables, history
  <2>2. End(r, 201) \/ End(r, 500) \/ End(r, 200) \/ End(r, 204)
    BY <1>8 DEF Insert, AddFails, SaveTest, DeleteTest, ChangeFails
  <2> QED
    BY <1>1, <1>2, <2>1, <2>2
<1> QED
  BY <1>4, <1>5, <1>6, <1>7, <1>8, FindKeys, WriteKeys, WriteLostKeys DEF DatabaseStep

LEMMA StorageKeys ==
  ASSUME Typed, Reads, KeysInv, NEW r \in Requests, StorageStep(r)
  PROVE  KeysInv'
<1>1. /\ {200, 201, 204, 400, 404, 500, 502} \subseteq Codes /\ req[r].code \in Codes /\ "find" \in Steps
  BY DEF Codes, Typed, ReqRows, Steps
<1>2. UNCHANGED <<row, suspect>>
  BY DEF StorageStep, Put, PutFails, Drop, DropFails, Cleanup, tables, history
<1>3. RowMoves(r)
  BY <1>2 DEF RowMoves
<1>4. CASE Put(r)
  <2>1. At(r, "put") /\ Go(r, "find") /\ objects' = objects \cup {r}
    BY <1>4 DEF Put
  <2>2. /\ Others(r) /\ req'[r].step = "find" /\ req'[r].kind = req[r].kind /\ req'[r].on = req[r].on
        /\ req'[r].seen = req[r].seen /\ req'[r].copy = req[r].copy
    BY <1>1, <2>1, GoShape
  <2>3. Active(r) /\ ~Past(r)
    BY <2>1 DEF Active, Past, At
  <2>4. RequestMoves(r)
    BY <2>1, <2>2, <2>3, GoMoves DEF At
  <2> QED
    BY <1>2, <1>3, <2>1, <2>2, <2>4, KeysKept DEF At
<1>5. ASSUME PutFails(r) \/ Drop(r) \/ DropFails(r) \/ Cleanup(r)
      PROVE  /\ Others(r) /\ req'[r].step = "done" /\ req'[r].seen = None /\ req'[r].copy = None
             /\ RequestMoves(r)
  <2>1. PICK code \in Codes : End(r, code)
    BY <1>1, <1>5 DEF PutFails, Drop, DropFails, Cleanup, EndShown
  <2> QED
    BY <2>1, EndShape, EndMoves
<1>6. CASE PutFails(r) \/ DropFails(r)
  <2>1. objects \subseteq objects'
    BY <1>6 DEF PutFails, DropFails
  <2> QED
    BY <1>2, <1>5, <1>6, <2>1, EndKeys
<1>7. CASE Drop(r)
  <2>1. At(r, "drop") /\ objects' = objects \ {req[r].seen}
    BY <1>7 DEF Drop
  <2>2. ASSUME NEW q \in Requests \ {r}, q = req[r].seen, req[q].step \in {"find", "write"} PROVE FALSE
    <3>1. Holds(r, q) /\ ~Past(q)
      BY <2>1, <2>2 DEF Holds, At, Past
    <3> QED
      BY <3>1 DEF KeysInv, GivenAway
  <2>3. \A p \in Problems \ suspect : row[p] # req[r].seen
    BY <2>1 DEF KeysInv, Dropped
  <2> QED
    BY <1>2, <1>3, <1>5, <1>7, <2>1, <2>2, <2>3, KeysKept DEF At
<1>8. CASE Cleanup(r)
  <2>1. At(r, "cleanup") /\ objects \ objects' \subseteq {r}
    BY <1>8 DEF Cleanup
  <2>2. \A p \in Problems \ suspect : row[p] # r
    BY <2>1 DEF KeysInv, Cleaned
  <2> QED
    BY <1>2, <1>3, <1>5, <1>8, <2>1, <2>2, KeysKept DEF At
<1> QED
  BY <1>4, <1>6, <1>7, <1>8 DEF StorageStep

(* A seeding command names no thumbnail and knows no request.              *)
LEMMA SeedKeys ==
  ASSUME Typed, Reads, KeysInv, NEW p \in Problems, SeedProblem(p) \/ Upsert(p)
  PROVE  KeysInv'
<1>1. /\ UNCHANGED <<objects, req, suspect>>
      /\ \A q \in Problems : row'[q] = row[q] \/ row'[q] = None
  BY DEF SeedProblem, Upsert, SeedRow, Typed
<1>2. \A q \in Problems : row'[q] = row[q] \/ row'[q] \notin Keys
  BY <1>1, Names1
<1>3. \A q \in Problems : Names(q)' \subseteq Names(q)
  BY <1>1, <1>2 DEF Names, Holds, Uploads, Active, On, Is
<1>4. GivenAway'
  BY <1>1, <1>2, Names1 DEF KeysInv, GivenAway, Past, Holds
<1>5. Tied'
  BY <1>3 DEF KeysInv, Tied
<1>6. Uploaded' /\ ThumbnailStored'
  BY <1>1, <1>2 DEF KeysInv, Uploaded, ThumbnailStored, Is
<1>7. Dropped'
  <2>1. \A q \in Requests : At(q, "drop") => req[q].seen \in Keys
    BY DEF Reads, ReadsOf, At
  <2> QED
    BY <1>1, <1>2, <2>1 DEF KeysInv, Dropped, At
<1>8. Cleaned'
  BY <1>1, <1>2, Names1 DEF KeysInv, Cleaned, At
<1> QED
  BY <1>4, <1>5, <1>6, <1>7, <1>8 DEF KeysInv

-----------------------------------------------------------------------------
(* The whole catalogue.                                                    *)

LEMMA CatalogueStarts == Init => CatalogueInv
<1> SUFFICES ASSUME Init PROVE CatalogueInv
  OBVIOUS
<1>1. /\ \A p \in Problems : row[p] \in {Absent, None, p} /\ tests[p] \subseteq OldTests[p]
      /\ \A p \in Problems : Cardinality(tests[p]) <= Limit /\ (row[p] = Absent => tests[p] = {})
      /\ \A r \in Requests : req[r] = Fresh
      /\ \A p \in Problems : lock[p] = None /\ revived[p] = {}
  BY DEF Init
<1>2. Typed
  <2>1. row \in [Problems -> Keys \cup {None, Absent}]
    BY Names1 DEF Init
  <2>2. tests \in [Problems -> SUBSET Ids]
    <3>1. ASSUME NEW p \in Problems PROVE OldTests[p] \subseteq Ids
      <4>1. OldTests[p] \cup Seeded[p] \in {OldTests[q] \cup Seeded[q] : q \in Problems}
        OBVIOUS
      <4> QED
        BY <4>1 DEF Ids
    <3>2. DOMAIN tests = Problems /\ tests = [p \in Problems |-> tests[p]]
      BY DEF Init
    <3> QED
      BY <1>1, <3>1, <3>2
  <2>3. Fresh \in ReqRows
    BY DEF Fresh, ReqRows, Kinds, Steps, Codes
  <2>4. req \in [Requests -> ReqRows] /\ lock \in [Problems -> Requests \cup {None}]
        /\ revived \in [Problems -> SUBSET Ids]
    BY <2>3 DEF Init
  <2> QED
    BY <2>1, <2>2, <2>4, Names1 DEF Init, Typed
<1>3. Reads
  BY <1>1 DEF Reads, ReadsOf, Fresh, At
<1>4. TestsInv
  <2>1. Locked /\ Room /\ Owned
    BY <1>1 DEF Locked, Room, Owned, Fresh, At
  <2>2. ASSUME NEW p \in Problems
        PROVE  IsFiniteSet(tests[p]) /\ Cardinality(tests[p] \ (revived[p] \cup Seeded[p])) <= Limit
    <3>1. IsFiniteSet(Seeded[p] \cup OldTests[p]) /\ tests[p] \subseteq Seeded[p] \cup OldTests[p]
      BY <1>1, CatalogueAssumption
    <3>2. IsFiniteSet(tests[p])
      BY <3>1, Fewer
    <3>3. /\ Cardinality(tests[p] \ (revived[p] \cup Seeded[p])) <= Cardinality(tests[p])
          /\ Cardinality(tests[p]) \in Nat
          /\ Cardinality(tests[p] \ (revived[p] \cup Seeded[p])) \in Nat
      BY <3>2, Fewer
    <3> QED
      BY <1>1, <3>2, <3>3, CatalogueAssumption
  <2> QED
    BY <2>1, <2>2 DEF TestsInv, Finite, WithinLimit
<1>5. KeysInv
  <2>1. \A r \in Requests : ~Active(r) /\ req[r].step = "idle" /\ req[r].seen = None /\ req[r].copy = None
    BY <1>1 DEF Active, Fresh
  <2>2. GivenAway
    BY <1>1, <2>1, Names1 DEF GivenAway, Holds
  <2>3. \A p \in Problems : Names(p) \subseteq {p}
    BY <1>1, <2>1, Names1 DEF Names
  <2>4. Tied
    BY <2>3 DEF Tied
  <2>5. Uploaded /\ Dropped /\ Cleaned
    BY <2>1 DEF Uploaded, Dropped, Cleaned, At
  <2>6. ThumbnailStored
    <3> SUFFICES ASSUME NEW p \in Problems, row[p] \in Keys PROVE row[p] \in objects
      BY DEF ThumbnailStored
    <3>1. row[p] = p
      BY <1>1, Names1
    <3> QED
      BY <3>1 DEF Init
  <2> QED
    BY <2>2, <2>4, <2>5, <2>6 DEF KeysInv
<1> QED
  BY <1>2, <1>3, <1>4, <1>5 DEF CatalogueInv

LEMMA CatalogueKept == CatalogueInv /\ [Next]_vars => CatalogueInv'
<1> SUFFICES ASSUME CatalogueInv, [Next]_vars PROVE CatalogueInv'
  OBVIOUS
<1> USE DEF CatalogueInv
<1>1. ASSUME NEW r \in Requests, Arrive(r) PROVE CatalogueInv'
  BY <1>1, ArriveTyped, ArriveTests, ArriveKeys
<1>2. ASSUME NEW r \in Requests, DatabaseStep(r) PROVE CatalogueInv'
  BY <1>2, DatabaseTyped, DatabaseTests, DatabaseKeys
<1>3. ASSUME NEW r \in Requests, StorageStep(r) PROVE CatalogueInv'
  BY <1>3, StorageTyped, StorageTests, StorageKeys
<1>4. ASSUME NEW p \in Problems, SeedProblem(p) \/ Upsert(p) PROVE CatalogueInv'
  BY <1>4, SeedTyped, SeedTests, SeedKeys
<1>5. CASE UNCHANGED vars
  <2>1. UNCHANGED <<row, tests, born, objects, lock, req, revived, suspect, leaked>>
    BY <1>5 DEF vars, tables, history
  <2>2. Typed' /\ Reads'
    BY <2>1 DEF Typed, Reads, At, On
  <2>3. TestsInv'
    BY <2>1 DEF TestsInv, Locked, Room, Finite, Owned, WithinLimit, Counted, At, On
  <2>4. GivenAway' /\ Tied'
    BY <2>1 DEF KeysInv, GivenAway, Tied, Names, Past, Holds, Uploads, Active, Is, On
  <2>5. Uploaded' /\ Dropped' /\ Cleaned' /\ ThumbnailStored'
    BY <2>1 DEF KeysInv, Uploaded, Dropped, Cleaned, ThumbnailStored, Is, At
  <2> QED
    BY <2>2, <2>3, <2>4, <2>5 DEF KeysInv
<1> QED
  BY <1>1, <1>2, <1>3, <1>4, <1>5 DEF Next

THEOREM CatalogueInvariant == Spec => []CatalogueInv
  BY CatalogueStarts, CatalogueKept, PTL DEF Spec

(* Rows, keys and requests have their types, and no testcase is without    *)
(* its problem, whichever deletions, creations and seeds overlap.          *)
THEOREM CatalogueTypes == Spec => []CatalogueTypeOK
<1>1. CatalogueInv => CatalogueTypeOK
  BY DEF CatalogueInv, Typed, TestsInv, Owned, CatalogueTypeOK, ReqRows
<1> QED
  BY <1>1, CatalogueInvariant, PTL

(* MaxPerProblem holds for any number of creations at once.                *)
THEOREM LimitSafety == Spec => []WithinLimit
<1>1. CatalogueInv => WithinLimit
  BY DEF CatalogueInv, TestsInv
<1> QED
  BY <1>1, CatalogueInvariant, PTL

(* The object that a problem names is stored, for any number of requests.  *)
THEOREM ThumbnailSafety == Spec => []ThumbnailStored
<1>1. CatalogueInv => ThumbnailStored
  BY DEF CatalogueInv, KeysInv
<1> QED
  BY <1>1, CatalogueInvariant, PTL

-----------------------------------------------------------------------------
(* What is left in the bucket while requests do not overlap.               *)

Alone == \A q, r \in Requests : Active(q) /\ Active(r) => q = r

(* What a request has read is still so.                                    *)
CurrentOf(r) ==
  /\ req[r].step \in {"put", "find", "write"} /\ ~Is(r, "edit") => row[On(r)] = req[r].seen
  /\ At(r, "write") /\ Is(r, "edit") => row[On(r)] = req[r].copy

(* The object k that request r has put, or is about to delete.             *)
InTransit(r, k) ==
  \/ k = r /\ Is(r, "upload") /\ req[r].step \in {"find", "write", "cleanup"}
  \/ k = req[r].seen /\ At(r, "drop")

Named(k) == \E p \in Problems : row[p] = k

Accounted == \A k \in objects \ leaked : Named(k) \/ \E r \in Requests : InTransit(r, k)

LeakInv == leaked = Keys \/ (Alone /\ (\A r \in Requests : CurrentOf(r)) /\ Accounted)

LEMMA ActiveIn ==
  ASSUME NEW r \in Requests, NEW k
  PROVE  /\ InTransit(r, k) => Active(r)
         /\ req[r].step \in {"put", "find", "write"} => Active(r)
  BY DEF InTransit, Active, At

(* The step of the only request that is under way.                         *)
LEMMA LeakMoves ==
  ASSUME Alone, \A r \in Requests : CurrentOf(r), NEW r \in Requests, Active(r), Others(r),
         CurrentOf(r)', \A k \in objects' \ leaked' : Named(k)' \/ InTransit(r, k)'
  PROVE  LeakInv'
<1>1. \A q \in Requests \ {r} : ~Active(q) /\ ~Active(q)' /\ req'[q] = req[q]
  BY DEF Alone, Others, Active
<1>2. Alone'
  BY <1>1 DEF Alone
<1>3. \A q \in Requests \ {r} : req'[q].step \notin {"put", "find", "write"}
  BY <1>1 DEF Active
<1>4. \A q \in Requests : CurrentOf(q)'
  BY <1>3 DEF CurrentOf, At
<1> QED
  BY <1>2, <1>4 DEF LeakInv, Accounted

(* Of an object in the bucket, what the only request has to do with it.    *)
LEMMA AloneAccounts ==
  ASSUME Alone, Accounted, NEW r \in Requests, Active(r), NEW k \in objects \ leaked
  PROVE  Named(k) \/ InTransit(r, k)
  BY ActiveIn DEF Alone, Accounted

(* The request ends, with nothing of its own in the bucket.                *)
LEMMA LeakEnds ==
  ASSUME Typed, LeakInv, leaked # Keys, NEW r \in Requests, Active(r), NEW code \in Codes, End(r, code),
         \A k \in objects' \ leaked' : Named(k)'
  PROVE  LeakInv'
<1>1. Others(r) /\ req'[r].step = "done"
  BY EndShape
<1>2. CurrentOf(r)'
  BY <1>1 DEF CurrentOf, At
<1> QED
  BY <1>1, <1>2, LeakMoves DEF LeakInv

LEMMA LeakAborts ==
  ASSUME Typed, LeakInv, leaked # Keys, NEW r \in Requests, req[r].step \in {"find", "write"},
         NEW code \in Codes, Abort(r, code),
         \A k \in objects' \ leaked' : Named(k)' \/ InTransit(r, k)
  PROVE  LeakInv'
<1>1. Active(r)
  BY DEF Active
<1>2. Others(r)
  BY AbortShape
<1>3. CASE ~Is(r, "upload") /\ req'[r].step = "done"
  <2>1. \A k : ~InTransit(r, k)
    BY <1>3 DEF InTransit, At
  <2>2. CurrentOf(r)'
    BY <1>3 DEF CurrentOf, At
  <2> QED
    BY <1>1, <1>2, <2>1, <2>2, LeakMoves DEF LeakInv
<1>4. CASE Is(r, "upload") /\ req'[r].step = "cleanup" /\ req'[r].kind = req[r].kind
  <2>1. \A k : InTransit(r, k) => InTransit(r, k)'
    BY <1>4 DEF InTransit, At, Is
  <2>2. CurrentOf(r)'
    BY <1>4 DEF CurrentOf, At
  <2> QED
    BY <1>1, <1>2, <2>1, <2>2, LeakMoves DEF LeakInv
<1> QED
  BY <1>3, <1>4, AbortShape

(* Nothing is taken out of leaked.                                         *)
LEMMA LeakedGrows ==
  ASSUME Typed, NEW r \in Requests, Arrive(r) \/ DatabaseStep(r) \/ StorageStep(r)
  PROVE  leaked \subseteq leaked'
<1>1. leaked \subseteq Keys
  BY DEF Typed
<1>2. ASSUME Arrive(r) PROVE leaked \subseteq leaked'
  BY <1>1, <1>2 DEF Arrive, Create, Edit, AddTest, Reject, Look, FindTest, AnswerAtOnce, Enter
<1>3. ASSUME DatabaseStep(r) PROVE leaked \subseteq leaked'
  BY <1>3 DEF DatabaseStep, Find, FindFails, Write, WriteFails, WriteLost, Lock, Count, Insert, AddFails,
              SaveTest, DeleteTest, ChangeFails, history
<1>4. ASSUME StorageStep(r) PROVE leaked \subseteq leaked'
  BY <1>4 DEF StorageStep, Put, PutFails, Drop, DropFails, Cleanup, history
<1> QED
  BY <1>2, <1>3, <1>4

LEMMA ArriveLeaks ==
  ASSUME Typed, Reads, LeakInv, leaked # Keys, NEW r \in Requests, Arrive(r)
  PROVE  LeakInv'
<1>1. /\ Others(r) /\ req[r].step = "idle"
      /\ objects' = objects /\ (leaked' = Keys \/ (leaked' = leaked /\ \A q \in Requests : ~Active(q)))
  BY ArriveTyped DEF Arrive, Create, Edit, AddTest, Reject, Look, FindTest, AnswerAtOnce, Enter
<1>2. CASE leaked' = Keys
  BY <1>2 DEF LeakInv
<1>3. CASE leaked' = leaked /\ \A q \in Requests : ~Active(q)
  <2>1. \A k \in objects \ leaked : Named(k)
    BY <1>3, ActiveIn DEF LeakInv, Accounted
  <2>2. \A p \in Problems : row[p] \in Keys => row'[p] = row[p]
    <3>1. \A p \in Problems : p \notin born => row[p] = Absent
      BY DEF Typed
    <3>2. \A p \in Problems : row'[p] = row[p] \/ row[p] = Absent
      BY <3>1 DEF Arrive, Create, Edit, AddTest, Reject, Look, FindTest, tables, Typed
    <3> QED
      BY <3>2, Names1
  <2>3. objects \subseteq Keys
    BY DEF Typed
  <2>4. \A k \in objects' \ leaked' : Named(k)'
    BY <1>1, <1>3, <2>1, <2>2, <2>3 DEF Named
  <2>5. CurrentOf(r)'
    <3>1. PICK p \in Problems :
            \/ Create(r, p) \/ Edit(r, p) \/ AddTest(r, p)
            \/ \E k \in Kinds : Reject(r, k) \/ Look(r, k, p) \/ FindTest(r, k, p)
      BY DEF Arrive
    <3>2. ASSUME NEW k \in Kinds, NEW code \in Codes, AnswerAtOnce(r, k, code) PROVE CurrentOf(r)'
      BY <3>2, AtOnceShape DEF CurrentOf, At
    <3>3. {0, 200, 201, 204, 400, 404, 500, 502, 503} = Codes
      BY DEF Codes
    <3>4. CASE Create(r, p) \/ \E k \in Kinds : Reject(r, k)
      BY <3>2, <3>3, <3>4 DEF Create, Reject, Kinds
    <3>5. CASE Edit(r, p) \/ AddTest(r, p)
      <4>1. PICK k \in {"edit", "addTest"}, step \in {"find", "lock"} :
              Enter(r, k, p, step, None) /\ (step = "find" => k = "edit")
        BY <3>5 DEF Edit, AddTest
      <4>2. req'[r].step = step /\ req'[r].kind = k
        BY <4>1, EnterShape DEF Kinds, Steps
      <4> QED
        BY <4>1, <4>2 DEF CurrentOf, At, Is
    <3>6. CASE \E k \in Kinds : FindTest(r, k, p)
      <4>1. PICK k \in Kinds, t \in tests[p] : Enter(r, k, p, "change", t)
        BY <3>6 DEF FindTest
      <4>2. t \in Ids
        BY DEF Typed
      <4>3. req'[r].step = "change"
        BY <4>1, <4>2, EnterShape DEF Steps
      <4> QED
        BY <4>3 DEF CurrentOf, At
    <3>7. ASSUME NEW k \in Kinds, Look(r, k, p) PROVE CurrentOf(r)'
      <4>1. Refusal(k, p) \in Codes
        BY DEF Refusal, Codes
      <4>2. CASE Refusal(k, p) # 0
        BY <3>2, <3>7, <4>1, <4>2 DEF Look
      <4>3. CASE Refusal(k, p) = 0
        <5>1. row[p] # Absent
          BY <3>7, <4>3 DEF Refusal, Look, ThumbnailsNil
        <5>2. row[p] \in Ids \cup {None} /\ row' = row
          BY <3>7, <5>1, Names1 DEF Typed, Look, tables
        <5>3. PICK step \in {"put", "find"} : Enter(r, k, p, step, row[p])
          BY <3>7, <4>3 DEF Look
        <5>4. req'[r].on = p /\ req'[r].seen = row[p] /\ req'[r].kind = k /\ req'[r].step = step
          BY <5>2, <5>3, EnterShape DEF Steps
        <5> QED
          BY <5>2, <5>4 DEF CurrentOf, At, Is, On
      <4> QED
        BY <4>2, <4>3
    <3> QED
      BY <3>1, <3>4, <3>5, <3>6, <3>7
  <2>6. Alone' /\ \A q \in Requests : CurrentOf(q)'
    <3>1. \A q \in Requests \ {r} : ~Active(q)' /\ req'[q].step \notin {"put", "find", "write"}
      BY <1>1, <1>3 DEF Others, Active
    <3> QED
      BY <2>5, <3>1 DEF Alone, CurrentOf, At
  <2> QED
    BY <2>4, <2>6 DEF LeakInv, Accounted
<1> QED
  BY <1>1, <1>2, <1>3

LEMMA FindLeaks ==
  ASSUME Typed, Reads, LeakInv, leaked # Keys, NEW r \in Requests, Find(r) \/ FindFails(r) \/ WriteFails(r)
  PROVE  LeakInv'
<1>1. /\ UNCHANGED <<row, objects, leaked>> /\ req[r].step \in {"find", "write"}
      /\ {404, 500, 400} \subseteq Codes
  BY DEF Find, FindFails, WriteFails, tables, history, At, Codes
<1>2. Active(r) /\ Alone /\ CurrentOf(r) /\ Accounted
  BY <1>1 DEF Active, LeakInv
<1>3. \A k \in objects' \ leaked' : Named(k)' \/ InTransit(r, k)
  BY <1>1, <1>2, AloneAccounts DEF Named
<1>4. ASSUME NEW code \in {404, 500}, Abort(r, code) PROVE LeakInv'
  BY <1>1, <1>3, <1>4, LeakAborts
<1>5. ASSUME Is(r, "edit"), End(r, 400) PROVE LeakInv'
  <2>1. \A k : ~InTransit(r, k)
    BY <1>1, <1>5 DEF InTransit, At, Is
  <2> QED
    BY <1>1, <1>2, <1>3, <1>5, <2>1, LeakEnds DEF LeakInv
<1>6. CASE At(r, "find") /\ req' = [req EXCEPT ![r].copy = row[On(r)], ![r].step = "write"]
  <2>1. /\ Others(r) /\ req'[r].step = "write" /\ req'[r].copy = row[On(r)]
        /\ req'[r].seen = req[r].seen /\ req'[r].kind = req[r].kind /\ req'[r].on = req[r].on
    BY <1>6 DEF Typed, ReqRows, Others
  <2>2. CurrentOf(r)'
    BY <1>1, <1>2, <1>6, <2>1 DEF CurrentOf, At, Is, On
  <2>3. \A k : InTransit(r, k) => InTransit(r, k)'
    BY <1>6, <2>1 DEF InTransit, At, Is
  <2> QED
    BY <1>2, <1>3, <2>1, <2>2, <2>3, LeakMoves DEF LeakInv
<1> QED
  BY <1>4, <1>5, <1>6 DEF Find, FindFails, WriteFails

(* The row changes: what it named before is in transit, or lost.           *)
LEMMA StoreLeaks ==
  ASSUME Typed, Reads, NEW r \in Requests, At(r, "write"), Store(r), CurrentOf(r),
         NEW k \in Keys, Named(k) \/ InTransit(r, k)
  PROVE  Named(k)' \/ (k = req[r].seen /\ ~Is(r, "edit"))
<1>1. On(r) \in Problems /\ row' = [row EXCEPT ![On(r)] = NewKey(r)] /\ DOMAIN row = Problems
  BY DEF Store, Reads, ReadsOf, At, On, Typed
<1>2. CASE InTransit(r, k)
  <2>1. k = r /\ NewKey(r) = r
    BY <1>2 DEF InTransit, At, NewKey, Is
  <2> QED
    BY <1>1, <2>1 DEF Named
<1>3. CASE Named(k)
  <2>1. PICK p \in Problems : row[p] = k
    BY <1>3 DEF Named
  <2>2. CASE p # On(r)
    BY <1>1, <2>1, <2>2 DEF Named
  <2>3. CASE p = On(r) /\ Is(r, "edit")
    <3>1. NewKey(r) = k
      BY <2>1, <2>3 DEF CurrentOf, NewKey, Is
    <3> QED
      BY <1>1, <3>1 DEF Named
  <2>4. CASE p = On(r) /\ ~Is(r, "edit")
    BY <2>1, <2>4 DEF CurrentOf, At
  <2> QED
    BY <2>2, <2>3, <2>4
<1> QED
  BY <1>2, <1>3

LEMMA WriteLeaks ==
  ASSUME Typed, Reads, LeakInv, leaked # Keys, NEW r \in Requests, Write(r) \/ WriteLost(r)
  PROVE  LeakInv'
<1>1. At(r, "write") /\ Store(r) /\ objects' = objects /\ objects \subseteq Keys /\ 500 \in Codes
  BY DEF Write, WriteLost, Store, Typed, Codes
<1>2. Active(r) /\ Alone /\ CurrentOf(r) /\ Accounted
  BY <1>1 DEF Active, LeakInv, At
<1>3. \A k \in objects \ leaked : Named(k)' \/ (k = req[r].seen /\ ~Is(r, "edit"))
  BY <1>1, <1>2, AloneAccounts, StoreLeaks
<1>4. CASE WriteLost(r)
  <2>1. Abort(r, 500) /\ leaked' = leaked \cup ({req[r].seen} \ {None})
    BY <1>4 DEF WriteLost
  <2>2. \A k \in objects' \ leaked' : Named(k)'
    BY <1>1, <1>3, <2>1, Names1
  <2> QED
    BY <1>1, <2>1, <2>2, LeakAborts DEF At
<1>5. CASE Write(r) /\ req[r].seen = None
  <2>1. PICK code \in Codes : End(r, code)
    BY <1>5 DEF Write, EndShown, Codes
  <2>2. \A k \in objects' \ leaked' : Named(k)'
    BY <1>1, <1>3, <1>5, Names1 DEF Write
  <2> QED
    BY <1>2, <2>1, <2>2, LeakEnds
<1>6. CASE Write(r) /\ req[r].seen # None
  <2>1. Go(r, "drop") /\ leaked' = leaked
    BY <1>6 DEF Write
  <2>2. Others(r) /\ req'[r].step = "drop" /\ req'[r].seen = req[r].seen
    BY <2>1, GoShape DEF Steps
  <2>3. CurrentOf(r)'
    BY <2>2 DEF CurrentOf, At
  <2>4. \A k \in objects' \ leaked' : Named(k)' \/ InTransit(r, k)'
    BY <1>1, <1>3, <2>1, <2>2 DEF InTransit, At
  <2> QED
    BY <1>2, <2>2, <2>3, <2>4, LeakMoves DEF LeakInv
<1> QED
  BY <1>4, <1>5, <1>6

(* Testcases have nothing to do with the bucket.                           *)
LEMMA TestLeaks ==
  ASSUME Typed, LeakInv, leaked # Keys, NEW r \in Requests,
         Lock(r) \/ Count(r) \/ Insert(r) \/ AddFails(r) \/ SaveTest(r) \/ DeleteTest(r) \/ ChangeFails(r)
  PROVE  LeakInv'
<1>1. /\ UNCHANGED <<row, objects, leaked>> /\ req[r].step \in {"lock", "count", "insert", "change"}
      /\ \/ \E code \in {200, 201, 204, 400, 404, 500} : End(r, code)
         \/ \E step \in {"count", "insert"} : Go(r, step)
  BY DEF Lock, Count, Insert, AddFails, SaveTest, DeleteTest, ChangeFails, tables, history, At
<1>2. Active(r) /\ Alone /\ Accounted
  BY <1>1 DEF Active, LeakInv
<1>3. \A k : ~InTransit(r, k)
  BY <1>1 DEF InTransit, At
<1>4. \A k \in objects' \ leaked' : Named(k)'
  BY <1>1, <1>2, <1>3, AloneAccounts DEF Named
<1>5. ASSUME NEW code \in {200, 201, 204, 400, 404, 500}, End(r, code) PROVE LeakInv'
  BY <1>2, <1>4, <1>5, LeakEnds DEF Codes
<1>6. ASSUME NEW step \in {"count", "insert"}, Go(r, step) PROVE LeakInv'
  <2>1. Others(r) /\ req'[r].step = step
    BY <1>6, GoShape DEF Steps
  <2>2. CurrentOf(r)'
    BY <2>1 DEF CurrentOf, At
  <2> QED
    BY <1>2, <1>4, <2>1, <2>2, LeakMoves DEF LeakInv
<1> QED
  BY <1>1, <1>5, <1>6

LEMMA StorageLeaks ==
  ASSUME Typed, Reads, LeakInv, leaked # Keys, NEW r \in Requests, StorageStep(r)
  PROVE  LeakInv'
<1>1. /\ row' = row /\ req[r].step \in {"put", "drop", "cleanup"} /\ req[r].code \in Codes
      /\ {200, 204, 400, 500, 502} \subseteq Codes
  BY DEF StorageStep, Put, PutFails, Drop, DropFails, Cleanup, tables, At, Typed, ReqRows, Codes
<1>2. Active(r) /\ Alone /\ CurrentOf(r) /\ Accounted
  BY <1>1 DEF Active, LeakInv
<1>3. \A k \in objects \ leaked : Named(k) \/ InTransit(r, k)
  BY <1>2, AloneAccounts
<1>4. CASE Put(r)
  <2>1. At(r, "put") /\ Go(r, "find") /\ objects' = objects \cup {r} /\ leaked' = leaked
    BY <1>4 DEF Put, history
  <2>2. /\ Others(r) /\ req'[r].step = "find" /\ req'[r].kind = req[r].kind /\ req'[r].on = req[r].on
        /\ req'[r].seen = req[r].seen
    BY <2>1, GoShape DEF Steps
  <2>3. Is(r, "upload") /\ \A k : ~InTransit(r, k)
    BY <2>1 DEF Reads, ReadsOf, At, Is, InTransit
  <2>4. CurrentOf(r)'
    BY <1>1, <1>2, <2>1, <2>2, <2>3 DEF CurrentOf, At, Is, On
  <2>5. InTransit(r, r)'
    BY <2>2, <2>3 DEF InTransit, Is
  <2>6. \A k \in objects' \ leaked' : Named(k)' \/ InTransit(r, k)'
    BY <1>1, <1>3, <2>1, <2>3, <2>5 DEF Named
  <2> QED
    BY <1>2, <2>2, <2>4, <2>6, LeakMoves DEF LeakInv
<1>5. ASSUME PutFails(r) \/ Drop(r) \/ DropFails(r) \/ Cleanup(r) PROVE LeakInv'
  <2>1. PICK code \in Codes : End(r, code)
    BY <1>1, <1>5 DEF PutFails, Drop, DropFails, Cleanup, EndShown
  <2>2. ASSUME NEW k \in objects' \ leaked' PROVE Named(k)'
    <3>1. CASE PutFails(r)
      <4>1. /\ At(r, "put") /\ leaked \subseteq leaked' /\ objects' \ objects \subseteq leaked'
        BY <3>1 DEF PutFails
      <4>2. ~InTransit(r, k) /\ k \in objects \ leaked
        BY <2>2, <4>1 DEF InTransit, At
      <4> QED
        BY <1>1, <1>3, <4>2 DEF Named
    <3>2. CASE Drop(r) \/ DropFails(r)
      <4>1. At(r, "drop") /\ objects' \ leaked' \subseteq (objects \ leaked) \ {req[r].seen}
        BY <3>2 DEF Drop, DropFails, history
      <4>2. ~InTransit(r, k) /\ k \in objects \ leaked
        BY <2>2, <4>1 DEF InTransit, At
      <4> QED
        BY <1>1, <1>3, <4>2 DEF Named
    <3>3. CASE Cleanup(r)
      <4>1. At(r, "cleanup") /\ objects' \ leaked' \subseteq (objects \ leaked) \ {r}
        BY <3>3 DEF Cleanup
      <4>2. ~InTransit(r, k) /\ k \in objects \ leaked
        BY <2>2, <4>1 DEF InTransit, At
      <4> QED
        BY <1>1, <1>3, <4>2 DEF Named
    <3> QED
      BY <1>5, <3>1, <3>2, <3>3
  <2> QED
    BY <1>2, <2>1, <2>2, LeakEnds
<1> QED
  BY <1>4, <1>5 DEF StorageStep

LEMMA SeedLeaks ==
  ASSUME Typed, Reads, LeakInv, leaked # Keys, NEW p \in Problems, SeedProblem(p) \/ Upsert(p)
  PROVE  LeakInv'
<1>1. /\ UNCHANGED <<objects, req, leaked>>
      /\ \A q \in Problems : row'[q] = row[q] \/ row[q] = Absent
  BY DEF SeedProblem, Upsert, SeedRow, Typed
<1>2. Alone' /\ Alone /\ Accounted /\ objects \subseteq Keys
  BY <1>1 DEF LeakInv, Alone, Active, Typed
<1>3. \A k \in Keys : Named(k) => Named(k)'
  BY <1>1, Names1 DEF Named
<1>4. Accounted'
  BY <1>1, <1>2, <1>3 DEF Accounted, InTransit, At, Is
<1>5. ASSUME NEW r \in Requests PROVE CurrentOf(r)'
  <2>1. CurrentOf(r) /\ ReadsOf(req[r])
    BY DEF LeakInv, Reads
  <2>2. /\ req[r].step \in {"put", "find", "write"} => req[r].seen \in Keys \cup {None} /\ On(r) \in Problems
        /\ req[r].copy \in Keys \cup {None}
    BY <2>1 DEF ReadsOf, On, Typed, ReqRows
  <2>3. \A k \in Keys \cup {None} : k # Absent
    BY Names1
  <2> QED
    BY <1>1, <2>1, <2>2, <2>3 DEF CurrentOf, At, Is, On
<1> QED
  BY <1>2, <1>4, <1>5 DEF LeakInv

(* Error paths leave nothing in the bucket, whatever fails, but for what   *)
(* the storage or a false report of the database did.                      *)
THEOREM BucketSafety == Spec => []NothingLeaks
<1>1. Init => LeakInv
  BY DEF Init, LeakInv, Alone, Active, Fresh, CurrentOf, Accounted, Named, At
<1>2. CatalogueInv /\ CatalogueInv' /\ LeakInv /\ [Next]_vars => LeakInv'
  <2> SUFFICES ASSUME CatalogueInv, CatalogueInv', LeakInv, [Next]_vars PROVE LeakInv'
    OBVIOUS
  <2>1. Typed /\ Reads /\ leaked' \subseteq Keys
    BY DEF CatalogueInv, Typed
  <2>2. CASE leaked = Keys
    <3>1. leaked \subseteq leaked'
      BY <2>1, LeakedGrows DEF Next, SeedProblem, Upsert, SeedRow, vars, history
    <3> QED
      BY <2>1, <2>2, <3>1 DEF LeakInv
  <2>3. CASE leaked # Keys
    <3>1. ASSUME NEW r \in Requests, Arrive(r) PROVE LeakInv'
      BY <2>1, <2>3, <3>1, ArriveLeaks
    <3>2. ASSUME NEW r \in Requests, DatabaseStep(r) PROVE LeakInv'
      BY <2>1, <2>3, <3>2, FindLeaks, WriteLeaks, TestLeaks DEF DatabaseStep
    <3>3. ASSUME NEW r \in Requests, StorageStep(r) PROVE LeakInv'
      BY <2>1, <2>3, <3>3, StorageLeaks
    <3>4. ASSUME NEW p \in Problems, SeedProblem(p) \/ Upsert(p) PROVE LeakInv'
      BY <2>1, <2>3, <3>4, SeedLeaks
    <3>5. CASE UNCHANGED vars
      <4>1. UNCHANGED <<row, objects, req, leaked>>
        BY <3>5 DEF vars, tables, history
      <4> QED
        BY <4>1 DEF LeakInv, Alone, Active, CurrentOf, Accounted, Named, InTransit, At, Is, On
    <3> QED
      BY <3>1, <3>2, <3>3, <3>4, <3>5 DEF Next
  <2> QED
    BY <2>2, <2>3
<1>3. CatalogueInv /\ LeakInv => NothingLeaks
  <2> SUFFICES ASSUME CatalogueInv, LeakInv, \A r \in Requests : ~Active(r), NEW k \in objects \ leaked
               PROVE  k \in {row[p] : p \in Problems}
    BY DEF NothingLeaks
  <2>1. leaked # Keys
    BY DEF CatalogueInv, Typed
  <2>2. Named(k)
    BY <2>1, ActiveIn DEF LeakInv, Accounted
  <2> QED
    BY <2>2 DEF Named
<1> QED
  BY <1>1, <1>2, <1>3, CatalogueInvariant, PTL DEF Spec
=============================================================================
