----------------------------- MODULE ScoreTables -----------------------------
(***************************************************************************)
(* The progress and the submission rows as their readers may count on      *)
(* them: what Submit, GradeJob and MarkJobExhausted do to them in the end, *)
(* whatever fails and however many workers grade one submission, at once   *)
(* or again.  Accounts builds on this module; Grading implements it.       *)
(***************************************************************************)
EXTENDS Integers

CONSTANTS Accts,      \* ids of users
          Requests,   \* submissions
          ByUser,     \* ByUser[r]: its user
          ForProblem, \* ForProblem[r]: its problem
          Scores,     \* scores GradeJob can come to
          NoRow

Problems == {ForProblem[r] : r \in Requests}
Statuses == {"queued", "accepted", "rejected"}

VARIABLES
  best,  \* best[u][p]: best_score of the progress row, or NoRow
  status \* status[r]: of the submission row, or NoRow

tables == <<best, status>>

TablesInit ==
  /\ best = [u \in Accts |-> [p \in Problems |-> NoRow]]
  /\ status = [r \in Requests |-> NoRow]

HasSubmission(r) == status[r] # NoRow

Best(r) == best[ByUser[r]][ForProblem[r]]

SetBest(r, score) == best' = [best EXCEPT ![ByUser[r]][ForProblem[r]] = score]

-----------------------------------------------------------------------------
(* SaveProgress of Submit, the first time.                                 *)
StartProgress(r) ==
  /\ Best(r) = NoRow
  /\ SetBest(r, 0)
  /\ UNCHANGED status

(* SaveSubmission of Submit; the row refers to the progress row.           *)
EnterRow(r) ==
  /\ Best(r) # NoRow /\ ~HasSubmission(r)
  /\ status' = [status EXCEPT ![r] = "queued"]
  /\ UNCHANGED best

(* UpdateBestScore of GradeJob.                                            *)
Raise(r, score) ==
  /\ HasSubmission(r)
  /\ SetBest(r, IF Best(r) < score THEN score ELSE Best(r))
  /\ UNCHANGED status

Verdict(score) == IF score = 100 THEN "accepted" ELSE "rejected"

(* Mutant: the verdict does not wait for the best score.                   *)
PublishEarly(r, score) ==
  /\ HasSubmission(r)
  /\ status' = [status EXCEPT ![r] = Verdict(score)]
  /\ UNCHANGED best

(* SaveSubmission of GradeJob, after UpdateBestScore: whatever happened in *)
(* between, the best score is at least the score published.                *)
Publish(r, score) ==
  /\ HasSubmission(r) /\ Best(r) >= score
  /\ status' = [status EXCEPT ![r] = Verdict(score)]
  /\ UNCHANGED best

(* The system error of a run that failed, of an exhausted job, or of an    *)
(* Enqueue that failed.                                                    *)
GiveUp(r) ==
  /\ HasSubmission(r)
  /\ status' = [status EXCEPT ![r] = "rejected"]
  /\ UNCHANGED best

GradeRow(r) ==
  GiveUp(r) \/ \E score \in Scores : Raise(r, score) \/ Publish(r, score)

TablesNext == \E r \in Requests : StartProgress(r) \/ EnterRow(r) \/ GradeRow(r)

TablesSpec == TablesInit /\ [][TablesNext]_tables
=============================================================================
