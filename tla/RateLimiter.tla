---------------------------- MODULE RateLimiter ----------------------------
(***************************************************************************)
(* rate_limiter.go and limitGrade: a counter per user in Redis that the    *)
(* first request of a window creates with a time to live.  Time is counted *)
(* in ticks, Second of which make a second of Retry-After.                 *)
(***************************************************************************)
EXTENDS Integers, FiniteSetsExt

CONSTANTS Users,
          RateLimit,  \* gradeRequestLimit
          Window,     \* gradeRequestWindow
          Second      \* ticks in a second

ASSUME RateLimiterAssumption ==
  RateLimit \in Nat \ {0} /\ Window \in Nat \ {0} /\ Second \in Nat \ {0}

VARIABLES
  count,    \* count[u]: the counter, 0 without a key; above RateLimit all values are alike
  ttl,      \* ttl[u]: its time to live, -1 without a key
  wait,     \* wait[u]: what is left of the last Retry-After of this window, -1 without one
  recent    \* recent[u][a]: how many requests were allowed a ticks ago, up to Window

limiter == <<count, ttl, wait, recent>>

LimiterTypeOK ==
  /\ count \in [Users -> 0..RateLimit + 1]
  /\ ttl \in [Users -> -1..Window]
  /\ wait \in [Users -> -1..Window + Second]
  /\ recent \in [Users -> [0..Window -> 0..RateLimit]]
  /\ \A u \in Users : count[u] = 0 <=> ttl[u] = -1

LimiterInit ==
  /\ count = [u \in Users |-> 0] /\ ttl = [u \in Users |-> -1]
  /\ wait = [u \in Users |-> -1] /\ recent = [u \in Users |-> [a \in 0..Window |-> 0]]

-----------------------------------------------------------------------------
Counted(u) == IF count[u] > RateLimit THEN count[u] ELSE count[u] + 1

(* Mutant: every request sets the time to live.                            *)
RenewAlways(u) ==
  /\ count' = [count EXCEPT ![u] = Counted(u)]
  /\ ttl' = [ttl EXCEPT ![u] = Window]

(* INCR, and PEXPIRE for the first of a window, in one script.             *)
Renew(u) ==
  /\ count' = [count EXCEPT ![u] = Counted(u)]
  /\ ttl' = [ttl EXCEPT ![u] = IF count[u] = 0 THEN Window ELSE @]

(* Mutant: one request more than the limit.                                *)
AllowedLate(u) == Counted(u) <= RateLimit + 1 /\ count[u] <= RateLimit

Allowed(u) == Counted(u) <= RateLimit

(* Mutant: the rest of a second is dropped.                                *)
RetryAfterDown(t) == IF t \div Second < 1 THEN 1 ELSE t \div Second

(* Retry-After, in whole seconds and at least one.                         *)
RetryAfter(t) ==
  LET up == (t \div Second) + (IF t % Second # 0 THEN 1 ELSE 0)
  IN  IF up < 1 THEN 1 ELSE up

Allow(u) ==
  /\ Allowed(u)
  /\ Renew(u)
  /\ recent' = [recent EXCEPT ![u][0] = @ + 1]
  /\ UNCHANGED wait

TooMany(u) ==
  /\ ~Allowed(u)
  /\ Renew(u)
  /\ wait' = [wait EXCEPT ![u] = Second * RetryAfter(ttl'[u])]
  /\ UNCHANGED recent

(* The reply of the script is lost: the request is refused with 503.       *)
CountLost(u) == Renew(u) /\ UNCHANGED <<wait, recent>>

(* A key lives until its time is past; with it goes what it promised.      *)
Tick ==
  /\ ttl' = [u \in Users |-> IF ttl[u] < 0 THEN -1 ELSE ttl[u] - 1]
  /\ count' = [u \in Users |-> IF ttl'[u] < 0 THEN 0 ELSE count[u]]
  /\ wait' = [u \in Users |-> IF ttl'[u] < 0 \/ wait[u] < 0 THEN -1
                              ELSE IF wait[u] = 0 THEN 0 ELSE wait[u] - 1]
  /\ recent' = [u \in Users |-> [a \in 0..Window |-> IF a = 0 THEN 0 ELSE recent[u][a - 1]]]

-----------------------------------------------------------------------------
(* A fixed window lets through at most twice its limit in any time of the  *)
(* length of a window, whatever was refused or lost in between.            *)
BurstBounded ==
  \A u \in Users : MapThenSumSet(LAMBDA a : recent[u][a], 0..Window) <= 2 * RateLimit

(* Who waits as long as Retry-After says meets no counter that is still to *)
(* live: the promise is never shorter than the window.                     *)
RetryAfterCovers == \A u \in Users : wait[u] >= 0 => wait[u] >= ttl[u]

(* A user that is at the limit is let through again, however often the     *)
(* client tries in between.                                                *)
WindowEnds == \A u \in Users : ~Allowed(u) ~> Allowed(u)
=============================================================================
