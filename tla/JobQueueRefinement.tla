------------------------ MODULE JobQueueRefinement ------------------------
(***************************************************************************)
(* JobQueue implements JobDelivery when handling always fits in ClaimIdle  *)
(* and no call is sent twice.  A job is held while a copy of it is in the  *)
(* stream or in the retry set.                                             *)
(***************************************************************************)
EXTENDS JobQueue

HeldJobs == {j \in Jobs : InStream(j) \/ InRetry(j)}
Buried   == {j \in Jobs : dead[j] > 0}

Delivery == INSTANCE JobDelivery WITH
  held      <- HeldJobs,
  done      <- enqueued \ (HeldJobs \cup Buried),
  gaveUp    <- Buried

(* Every behaviour of the queue is one of JobDelivery, its fairness        *)
(* included: jobs in Redis are attempted and let go.                       *)
DeliverySpec == Delivery!Spec
=============================================================================
