------------------------------ MODULE Gateway ------------------------------
(***************************************************************************)
(* A grading request on its way through the API: authentication, the rate  *)
(* limiter, the form, ensureUser, and Submit.  Every call of Redis, of the *)
(* database or of Django is a step of its own.  Quiz requests are not      *)
(* limited.  A client may send again a request that was refused or failed. *)
(***************************************************************************)
EXTENDS RateLimiter, Accounts

CONSTANT Quiz \* requests of /quiz/submissions/grade

ASSUME GatewayAssumption == Accts = Users /\ Quiz \subseteq Requests

VARIABLES step,    \* step[r]: what request r does next
          fetched  \* fetched[r]: the user Django answered with

gateVars == <<limiter, accounts, step, fetched>>

GateSteps == {"new", "form", "lookup", "identity", "store", "recheck", "submit", "save", "done",
              "failed"}

GatewayTypeOK ==
  /\ LimiterTypeOK /\ AccountsTypeOK
  /\ step \in [Requests -> GateSteps]
  /\ fetched \in [Requests -> Users \cup {NoRow}]

GatewayInit ==
  /\ LimiterInit /\ AccountsInit
  /\ step = [r \in Requests |-> "new"]
  /\ fetched = [r \in Requests |-> NoRow]

Goto(r, s) == step' = [step EXCEPT ![r] = s] /\ UNCHANGED fetched

-----------------------------------------------------------------------------
(* The middleware and the form.                                            *)

(* No valid access token: the request is refused before it is counted.     *)
Unauthorized(r) ==
  /\ step[r] = "new"
  /\ Goto(r, "failed")
  /\ UNCHANGED <<limiter, accounts>>

LimitGrade(r) ==
  /\ step[r] = "new" /\ r \notin Quiz
  /\ \/ Allow(ByUser[r]) /\ Goto(r, "form")
     \/ TooMany(ByUser[r]) /\ UNCHANGED <<step, fetched>>
     \/ CountLost(ByUser[r]) /\ UNCHANGED <<step, fetched>>
  /\ UNCHANGED accounts

GradeQuiz(r) ==
  /\ step[r] = "new" /\ r \in Quiz
  /\ Goto(r, "form")
  /\ UNCHANGED <<limiter, accounts>>

(* The form of gradeSubmission: a request may be refused for what it lacks.*)
GradeSubmission(r) ==
  /\ step[r] = "form"
  /\ Goto(r, "lookup") \/ Goto(r, "failed")
  /\ UNCHANGED <<limiter, accounts>>

-----------------------------------------------------------------------------
(* ensureUser.                                                             *)

(* Mutant: a user that is known is stored again.                           *)
LookupUserUnused(r) ==
  /\ step[r] = "lookup"
  /\ Goto(r, "identity")
  /\ UNCHANGED <<limiter, accounts>>

LookupUser(r) ==
  /\ step[r] = "lookup"
  /\ Goto(r, IF HasUser(ByUser[r]) THEN "submit" ELSE "identity")
  /\ UNCHANGED <<limiter, accounts>>

(* Mutant: whoever Django answers with is stored.                          *)
AskDjangoTrusting(r) ==
  /\ step[r] = "identity"
  /\ \E u \in Users : fetched' = [fetched EXCEPT ![r] = u]
  /\ step' = [step EXCEPT ![r] = "store"]
  /\ UNCHANGED <<limiter, accounts>>

(* GetUser, and the comparison of the id.                                  *)
AskDjango(r) ==
  /\ step[r] = "identity"
  /\ \E u \in Users :
       IF u = ByUser[r]
         THEN /\ fetched' = [fetched EXCEPT ![r] = u]
              /\ step' = [step EXCEPT ![r] = "store"]
         ELSE Goto(r, "failed")
  /\ UNCHANGED <<limiter, accounts>>

StoreUser(r) ==
  /\ step[r] = "store"
  /\ SaveUser(fetched[r])
  /\ Goto(r, "submit") \/ Goto(r, "recheck")
  /\ UNCHANGED limiter

(* The email is another user's, or the database fails.                     *)
StoreUserFails(r) ==
  /\ step[r] = "store"
  /\ Goto(r, "recheck")
  /\ UNCHANGED <<limiter, accounts>>

RecheckUser(r) ==
  /\ step[r] = "recheck"
  /\ Goto(r, IF HasUser(ByUser[r]) THEN "submit" ELSE "failed")
  /\ UNCHANGED <<limiter, accounts>>

(* A failed read, or no answer of Django.                                  *)
EnsureUserFails(r) ==
  /\ step[r] \in {"lookup", "identity", "recheck"}
  /\ Goto(r, "failed")
  /\ UNCHANGED <<limiter, accounts>>

Busy == {ByUser[r] : r \in {q \in Requests : step[q] \in {"identity", "store"}}}

-----------------------------------------------------------------------------
(* Submit, up to the job: every call may fail.                             *)

(* GetProgressByProblemAndUser, and SaveProgress if there is no row.       *)
OpenProgress(r) ==
  /\ step[r] = "submit"
  /\ \/ Best(r) # NoRow /\ Goto(r, "save") /\ UNCHANGED tables
     \/ StartProgress(r) /\ (Goto(r, "save") \/ Goto(r, "failed"))
     \/ Goto(r, "failed") /\ UNCHANGED tables
  /\ UNCHANGED <<limiter, people>>

(* SaveSubmission.  The request is done with once the row is there, even   *)
(* if it was told otherwise: a retry makes another row, or finds this one. *)
SaveSubmission(r) ==
  /\ step[r] = "save"
  /\ \/ EnterRow(r) /\ Goto(r, "done")
     \/ Goto(r, "failed") /\ UNCHANGED tables
  /\ UNCHANGED <<limiter, people>>

(* The client sends a request that failed again.                           *)
Resend(r) ==
  /\ step[r] = "failed"
  /\ step' = [step EXCEPT ![r] = "new"] /\ fetched' = [fetched EXCEPT ![r] = NoRow]
  /\ UNCHANGED <<limiter, accounts>>

Handle(r) ==
  Unauthorized(r) \/ LimitGrade(r) \/ GradeQuiz(r) \/ GradeSubmission(r) \/ LookupUser(r)
    \/ AskDjango(r) \/ StoreUser(r) \/ StoreUserFails(r) \/ RecheckUser(r) \/ EnsureUserFails(r)
    \/ OpenProgress(r) \/ SaveSubmission(r) \/ Resend(r)

(* The workers, at any time.                                               *)
Grade(r) == GradeRow(r) /\ UNCHANGED <<limiter, people, step, fetched>>

ImportUsers == Import(Busy) /\ UNCHANGED <<limiter, step, fetched>>

Time == Tick /\ UNCHANGED <<accounts, step, fetched>>

GatewayNext == (\E r \in Requests : Handle(r) \/ Grade(r)) \/ ImportUsers \/ Time

GatewaySpec == GatewayInit /\ [][GatewayNext]_gateVars

(* Time passes; nothing is assumed of clients.                             *)
FairGatewaySpec == GatewaySpec /\ WF_gateVars(Time)
=============================================================================
