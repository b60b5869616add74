------------------------------ MODULE Accounts ------------------------------
(***************************************************************************)
(* The users and the scores shown of them: ensureUser, the import of       *)
(* cmd/migrate_users, and the leaderboards over the progress and the       *)
(* submission rows of ScoreTables.                                         *)
(***************************************************************************)
EXTENDS ScoreTables, FiniteSets, FiniteSetsExt

CONSTANTS EmailOf,  \* EmailOf[u]: the email Django knows
          File,     \* File[u]: the email of u in the file of the import
          Imported  \* the score all have in that file

AllEmails == {EmailOf[u] : u \in Accts} \cup {File[u] : u \in DOMAIN File}
UserRow   == [email : AllEmails, score : {0, Imported}]

ASSUME AccountsAssumption ==
  /\ ByUser \in [Requests -> Accts] /\ IsFiniteSet(Requests)
  /\ Imported \in Nat \ {0} /\ DOMAIN File \subseteq Accts
  /\ Scores \subseteq 0..100
  /\ NoRow \notin UserRow /\ NoRow \notin 0..100 /\ NoRow \notin Statuses
  /\ \A u, v \in DOMAIN File : u # v => File[u] # File[v]

VARIABLES
  user,     \* user[u]: its row, with email and score, or NoRow
  imported, \* users the import has stored
  raced     \* of those, the ones whose first submission was under way

people   == <<user, imported, raced>>
accounts == <<people, tables>>

AccountsInit ==
  /\ TablesInit
  /\ user = [u \in Accts |-> NoRow]
  /\ imported = {} /\ raced = {}

HasUser(u) == user[u] # NoRow

(* Rows that would break the unique index on email.                        *)
Clash(u, email) == \E v \in Accts \ {u} : HasUser(v) /\ user[v].email = email

-----------------------------------------------------------------------------
(* Mutant: the email has no unique index.                                  *)
SaveUserUnindexed(u) ==
  /\ user' = [user EXCEPT ![u] = [email |-> EmailOf[u], score |-> 0]]
  /\ UNCHANGED <<tables, imported, raced>>

(* SaveUser of what Django says: every column is written.                  *)
SaveUser(u) ==
  /\ ~Clash(u, EmailOf[u])
  /\ user' = [user EXCEPT ![u] = [email |-> EmailOf[u], score |-> 0]]
  /\ UNCHANGED <<tables, imported, raced>>

(* migrateUsers: one statement, all rows or none; it fails on an email     *)
(* that a user outside of the file has, and may fail on one that moves     *)
(* within it.  Busy are the users ensureUser has not found and is about to *)
(* save.                                                                   *)
Import(busy) ==
  /\ \A u \in DOMAIN File : \A v \in Accts \ DOMAIN File : HasUser(v) => user[v].email # File[u]
  /\ user' = [u \in Accts |-> IF u \in DOMAIN File THEN [email |-> File[u], score |-> Imported] ELSE user[u]]
  /\ imported' = DOMAIN File /\ raced' = raced \cup (busy \cap DOMAIN File)
  /\ UNCHANGED tables

-----------------------------------------------------------------------------
(* The leaderboards, as the sets of rows their queries return.             *)

Started(u)     == {p \in Problems : best[u][p] # NoRow}
Listed         == {u \in Accts : Started(u) # {} /\ HasUser(u)}
Submissions(u) == {r \in Requests : ByUser[r] = u /\ HasSubmission(r)}

Solved(u)      == {p \in Started(u) : best[u][p] = 100}
AcceptedBy(u)  == {r \in Submissions(u) : status[r] = "accepted"}

SumBest(u) == MapThenSumSet(LAMBDA p : best[u][p], Started(u))

(* Mutant: one query joins the progress rows with their submissions, so    *)
(* that a best score is added once for each of them.                       *)
AdminLeaderboardJoined ==
  {[email |-> user[u].email,
    total |-> MapThenSumSet(LAMBDA r : best[u][ForProblem[r]], Submissions(u)),
    solved |-> Cardinality(Solved(u)),
    submissions |-> Cardinality(Submissions(u)),
    accepted |-> Cardinality(AcceptedBy(u))] : u \in Listed}

(* GetAdminLeaderboard: progress rows and submissions are each summed up   *)
(* by user before they are joined.                                         *)
AdminLeaderboard ==
  {[email |-> user[u].email,
    total |-> SumBest(u),
    solved |-> Cardinality(Solved(u)),
    submissions |-> Cardinality(Submissions(u)),
    accepted |-> Cardinality(AcceptedBy(u))] : u \in Listed}

(* GetAllTimeLeaderboard: grouped by email.                                *)
AllTimeLeaderboard ==
  {[email |-> e,
    best |-> MapThenSumSet(LAMBDA u : SumBest(u), {u \in Listed : user[u].email = e})] :
   e \in {user[u].email : u \in Listed}}

(* GetPublicLeaderboardByProblemID.                                        *)
PublicLeaderboard(p) ==
  {[email |-> user[u].email, best |-> best[u][p]] : u \in {v \in Listed : p \in Started(v)}}

-----------------------------------------------------------------------------
AccountsTypeOK ==
  /\ user \in [Accts -> UserRow \cup {NoRow}]
  /\ \A u \in Accts : HasUser(u) => ~Clash(u, user[u].email)
  /\ best \in [Accts -> [Problems -> 0..100 \cup {NoRow}]]
  /\ status \in [Requests -> Statuses \cup {NoRow}]
  /\ imported \subseteq Accts /\ raced \subseteq imported

(* The foreign key: ensureUser stores the user before Submit needs it, and *)
(* no other user in its place.                                             *)
SubmitterKnown == \A u \in Accts : Started(u) # {} => HasUser(u)

(* The score of an import is overwritten only for users whose first        *)
(* submission was under way.                                               *)
ImportKept == \A u \in imported \ raced : user[u].score = Imported

(* What the leaderboard of p shows for email.                              *)
Shown(email, p) ==
  MapThenSumSet(LAMBDA x : x.best, {x \in PublicLeaderboard(p) : x.email = email})

(* The admin, the all-time and the problem leaderboards tell the same      *)
(* story: same users, same totals.                                         *)
BoardsAgree ==
  /\ {[email |-> e.email, best |-> e.total] : e \in AdminLeaderboard} = AllTimeLeaderboard
  /\ \A e \in AllTimeLeaderboard :
       e.best = MapThenSumSet(LAMBDA p : Shown(e.email, p), Problems)

(* A user that is shown an accepted submission is shown a solved problem:  *)
(* GradeJob raises the best score before it publishes the verdict.         *)
AcceptedIsSolved ==
  \A e \in AdminLeaderboard : e.accepted > 0 => e.solved > 0
=============================================================================
