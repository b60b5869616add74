--------------------------- MODULE GatewayProofs ---------------------------
(***************************************************************************)
(* Proofs about Gateway, for any users, requests and file of the import,   *)
(* any limit, window and length of a tick: the rate limiter by itself, and *)
(* then the users and scores with the requests under way.                  *)
(***************************************************************************)
EXTENDS Gateway, DataLemmas

-----------------------------------------------------------------------------
(* The rate limiter.                                                       *)

(* What holds of each user: a key has a time to live, no promise outlives  *)
(* the key, and what is allowed now was counted.                           *)
LimiterOf(u) ==
  /\ count[u] \in 0..RateLimit + 1 /\ ttl[u] \in -1..Window /\ wait[u] \in -1..Window + Second
  /\ recent[u] \in [0..Window -> 0..RateLimit] /\ recent[u][0] <= count[u]
  /\ count[u] = 0 <=> ttl[u] = -1
  /\ ttl[u] = -1 => wait[u] = -1
  /\ wait[u] >= 0 => wait[u] >= ttl[u]

PerUser ==
  /\ count = [u \in Users |-> count[u]] /\ ttl = [u \in Users |-> ttl[u]]
  /\ wait = [u \in Users |-> wait[u]] /\ recent = [u \in Users |-> recent[u]]

LimiterInv == PerUser /\ \A u \in Users : LimiterOf(u)

LEMMA LimiterSound == LimiterInv => LimiterTypeOK /\ RetryAfterCovers
<1> SUFFICES ASSUME LimiterInv PROVE LimiterTypeOK /\ RetryAfterCovers
  OBVIOUS
<1>1. /\ \A u \in Users : count[u] \in 0..RateLimit + 1 /\ ttl[u] \in -1..Window
      /\ \A u \in Users : wait[u] \in -1..Window + Second
      /\ \A u \in Users : recent[u] \in [0..Window -> 0..RateLimit]
      /\ \A u \in Users : (count[u] = 0 <=> ttl[u] = -1)
      /\ \A u \in Users : wait[u] >= 0 => wait[u] >= ttl[u]
  BY DEF LimiterInv, LimiterOf
<1> QED
  BY <1>1 DEF LimiterInv, PerUser, LimiterTypeOK, RetryAfterCovers

(* Rounding up to whole seconds covers the time to live, and exceeds it by *)
(* a second at most.                                                       *)
LEMMA RoundedUp ==
  ASSUME NEW t \in 0..Window
  PROVE  Second * RetryAfter(t) \in t..Window + Second
<1>1. t \in Nat /\ Second \in Nat \ {0} /\ Window \in Nat
  BY RateLimiterAssumption
<1> DEFINE q == t \div Second
           m == t % Second
<1>2. q \in Int /\ m \in 0..Second - 1 /\ t = Second * q + m
  BY <1>1
<1>3. q >= 0
  <2>1. ASSUME q <= -1 PROVE FALSE
    <3>1. Second * q <= -Second
      BY <1>1, <1>2, <2>1
    <3> QED
      BY <1>1, <1>2, <3>1
  <2> QED
    BY <1>2, <2>1
<1> HIDE DEF q, m
<1>4. CASE m # 0
  <2>1. RetryAfter(t) = q + 1
    BY <1>2, <1>3, <1>4 DEF RetryAfter, q, m
  <2>2. Second * (q + 1) = Second * q + Second
    BY <1>1, <1>2
  <2> QED
    BY <1>1, <1>2, <2>1, <2>2
<1>5. CASE m = 0
  <2>1. CASE q = 0
    <3>1. RetryAfter(t) = 1
      BY <1>5, <2>1 DEF RetryAfter, q, m
    <3> QED
      BY <1>1, <1>2, <1>5, <2>1, <3>1
  <2>2. CASE q # 0
    <3>1. RetryAfter(t) = q
      BY <1>2, <1>3, <1>5, <2>2 DEF RetryAfter, q, m
    <3> QED
      BY <1>1, <1>2, <1>5, <3>1
  <2> QED
    BY <2>1, <2>2
<1> QED
  BY <1>4, <1>5

LEMMA LimiterStarts == LimiterInit => LimiterInv
  BY RateLimiterAssumption DEF LimiterInit, LimiterInv, PerUser, LimiterOf

(* Who is not concerned by a step keeps what holds.                        *)
LEMMA LimiterOfOthers ==
  ASSUME LimiterInv, NEW v \in Users,
         count'[v] = count[v], ttl'[v] = ttl[v], wait'[v] = wait[v], recent'[v] = recent[v]
  PROVE  LimiterOf(v)'
  BY DEF LimiterInv, LimiterOf

(* Counting creates a key or keeps the one there is.                       *)
LEMMA RenewKeeps ==
  ASSUME PerUser, NEW u \in Users, LimiterOf(u), Renew(u)
  PROVE  /\ count' = [v \in Users |-> count'[v]] /\ ttl' = [v \in Users |-> ttl'[v]]
         /\ \A v \in Users \ {u} : count'[v] = count[v] /\ ttl'[v] = ttl[v]
         /\ count'[u] = Counted(u) /\ Counted(u) \in 1..RateLimit + 1 /\ count[u] <= Counted(u)
         /\ ttl'[u] \in 0..Window /\ (count[u] # 0 => ttl'[u] = ttl[u])
<1>1. /\ count' = [v \in Users |-> IF v = u THEN Counted(u) ELSE count[v]]
      /\ ttl' = [v \in Users |-> IF v = u /\ count[u] = 0 THEN Window ELSE ttl[v]]
  BY DEF PerUser, Renew
<1>2. /\ count[u] \in 0..RateLimit + 1 /\ ttl[u] \in -1..Window
      /\ count[u] = 0 <=> ttl[u] = -1
  BY DEF LimiterOf
<1>3. Counted(u) \in 1..RateLimit + 1 /\ count[u] <= Counted(u)
  BY <1>2, RateLimiterAssumption DEF Counted
<1>4. ttl'[u] = IF count[u] = 0 THEN Window ELSE ttl[u]
  BY <1>1
<1>5. ttl'[u] \in 0..Window /\ (count[u] # 0 => ttl'[u] = ttl[u])
  BY <1>2, <1>4, RateLimiterAssumption
<1> QED
  BY <1>1, <1>3, <1>5

LEMMA AllowKeeps ==
  ASSUME LimiterInv, NEW u \in Users, Allow(u)
  PROVE  LimiterInv'
<1>1. PerUser /\ LimiterOf(u) /\ Renew(u) /\ wait' = wait
  BY DEF LimiterInv, Allow
<1>2. recent' = [v \in Users |-> IF v = u THEN [recent[u] EXCEPT ![0] = recent[u][0] + 1] ELSE recent[v]]
  BY <1>1 DEF Allow, PerUser
<1>3. PerUser'
  BY <1>1, <1>2, RenewKeeps DEF PerUser
<1>4. LimiterOf(u)'
  <2>1. /\ count[u] \in 0..RateLimit + 1 /\ wait[u] \in -1..Window + Second
        /\ ttl[u] \in -1..Window /\ (ttl[u] = -1 => wait[u] = -1)
        /\ wait[u] >= 0 => wait[u] >= ttl[u]
        /\ count[u] = 0 <=> ttl[u] = -1
        /\ recent[u] \in [0..Window -> 0..RateLimit] /\ recent[u][0] <= count[u]
    BY <1>1 DEF LimiterOf
  <2>2. count'[u] = count[u] + 1 /\ count[u] < RateLimit
    BY <1>1, <2>1, RenewKeeps, RateLimiterAssumption DEF Allow, Allowed, Counted
  <2>3. 0 \in 0..Window
    BY RateLimiterAssumption
  <2>4. recent[u][0] \in 0..RateLimit
    BY <2>1, <2>3
  <2>5. recent[u][0] + 1 \in 0..RateLimit /\ recent[u][0] + 1 <= count'[u]
    <3>1. recent[u][0] <= count[u] /\ count[u] \in 0..RateLimit + 1 /\ RateLimit \in Nat
      BY <2>1, RateLimiterAssumption
    <3> QED
      BY <2>2, <2>4, <3>1
  <2>6. recent'[u] = [recent[u] EXCEPT ![0] = recent[u][0] + 1]
    BY <1>2
  <2>7. recent'[u] \in [0..Window -> 0..RateLimit] /\ recent'[u][0] <= count'[u]
    BY <2>1, <2>3, <2>5, <2>6
  <2>8. ttl'[u] \in 0..Window /\ (count[u] # 0 => ttl'[u] = ttl[u])
    BY <1>1, RenewKeeps
  <2>9. count'[u] \in 1..RateLimit + 1
    BY <2>1, <2>2, RateLimiterAssumption
  <2>10. wait'[u] \in -1..Window + Second /\ (wait'[u] >= 0 => wait'[u] >= ttl'[u])
    BY <1>1, <2>1, <2>8, RateLimiterAssumption
  <2>11. count'[u] \in 0..RateLimit + 1 /\ count'[u] # 0 /\ ttl'[u] \in -1..Window /\ ttl'[u] # -1
    BY <2>8, <2>9, RateLimiterAssumption
  <2> QED
    BY <2>7, <2>10, <2>11 DEF LimiterOf
<1>5. ASSUME NEW v \in Users \ {u} PROVE LimiterOf(v)'
  <2>1. recent'[v] = recent[v] /\ wait'[v] = wait[v]
    BY <1>1, <1>2
  <2>2. count'[v] = count[v] /\ ttl'[v] = ttl[v]
    BY <1>1, RenewKeeps
  <2> QED
    BY <2>1, <2>2, LimiterOfOthers
<1> QED
  BY <1>3, <1>4, <1>5 DEF LimiterInv

LEMMA TooManyKeeps ==
  ASSUME LimiterInv, NEW u \in Users, TooMany(u)
  PROVE  LimiterInv'
<1>1. PerUser /\ LimiterOf(u) /\ Renew(u) /\ recent' = recent
  BY DEF LimiterInv, TooMany
<1>2. wait' = [v \in Users |-> IF v = u THEN Second * RetryAfter(ttl'[u]) ELSE wait[v]]
  BY <1>1 DEF TooMany, PerUser
<1>3. PerUser'
  BY <1>1, <1>2, RenewKeeps DEF PerUser
<1>4. LimiterOf(u)'
  <2>1. /\ count[u] \in 0..RateLimit + 1
        /\ recent[u] \in [0..Window -> 0..RateLimit] /\ recent[u][0] <= count[u]
    BY <1>1 DEF LimiterOf
  <2>2. /\ count'[u] \in 1..RateLimit + 1 /\ count[u] <= count'[u] /\ ttl'[u] \in 0..Window
    BY <1>1, RenewKeeps
  <2>3. wait'[u] \in ttl'[u]..Window + Second
    BY <1>2, <2>2, RoundedUp
  <2>4. recent[u][0] \in 0..RateLimit
    BY <2>1, RateLimiterAssumption
  <2>5. recent'[u] \in [0..Window -> 0..RateLimit] /\ recent'[u][0] <= count'[u]
    <3>1. recent[u][0] <= count[u] /\ count[u] \in Int /\ count'[u] \in Int /\ recent[u][0] \in Int
      BY <2>1, <2>2, <2>4, RateLimiterAssumption
    <3>2. recent[u][0] <= count'[u]
      BY <2>2, <3>1
    <3> QED
      BY <1>1, <2>1, <3>2
  <2>6. /\ count'[u] \in 0..RateLimit + 1 /\ count'[u] # 0 /\ ttl'[u] \in -1..Window /\ ttl'[u] # -1
        /\ wait'[u] \in -1..Window + Second /\ wait'[u] >= ttl'[u]
    BY <2>2, <2>3, RateLimiterAssumption
  <2> QED
    BY <2>5, <2>6 DEF LimiterOf
<1>5. ASSUME NEW v \in Users \ {u} PROVE LimiterOf(v)'
  <2>1. recent'[v] = recent[v] /\ wait'[v] = wait[v]
    BY <1>1, <1>2
  <2>2. count'[v] = count[v] /\ ttl'[v] = ttl[v]
    BY <1>1, RenewKeeps
  <2> QED
    BY <2>1, <2>2, LimiterOfOthers
<1> QED
  BY <1>3, <1>4, <1>5 DEF LimiterInv

LEMMA CountLostKeeps ==
  ASSUME LimiterInv, NEW u \in Users, CountLost(u)
  PROVE  LimiterInv'
<1>1. PerUser /\ LimiterOf(u) /\ Renew(u) /\ recent' = recent /\ wait' = wait
  BY DEF LimiterInv, CountLost
<1>2. PerUser'
  BY <1>1, RenewKeeps DEF PerUser
<1>3. LimiterOf(u)'
  <2>1. /\ count[u] \in 0..RateLimit + 1 /\ wait[u] \in -1..Window + Second
        /\ ttl[u] \in -1..Window /\ (ttl[u] = -1 => wait[u] = -1)
        /\ wait[u] >= 0 => wait[u] >= ttl[u]
        /\ count[u] = 0 <=> ttl[u] = -1
        /\ recent[u] \in [0..Window -> 0..RateLimit] /\ recent[u][0] <= count[u]
    BY <1>1 DEF LimiterOf
  <2>2. /\ count'[u] \in 1..RateLimit + 1 /\ count[u] <= count'[u]
        /\ ttl'[u] \in 0..Window /\ (count[u] # 0 => ttl'[u] = ttl[u])
    BY <1>1, RenewKeeps
  <2>3. recent[u][0] \in 0..RateLimit
    BY <2>1, RateLimiterAssumption
  <2>4. recent'[u] \in [0..Window -> 0..RateLimit] /\ recent'[u][0] <= count'[u]
    <3>1. recent[u][0] <= count[u] /\ count[u] \in Int /\ count'[u] \in Int /\ recent[u][0] \in Int
      BY <2>1, <2>2, <2>3, RateLimiterAssumption
    <3>2. recent[u][0] <= count'[u]
      BY <2>2, <3>1
    <3> QED
      BY <1>1, <2>1, <3>2
  <2>5. /\ count'[u] \in 0..RateLimit + 1 /\ count'[u] # 0 /\ ttl'[u] \in -1..Window /\ ttl'[u] # -1
        /\ wait'[u] \in -1..Window + Second /\ (wait'[u] >= 0 => wait'[u] >= ttl'[u])
    BY <1>1, <2>1, <2>2, RateLimiterAssumption
  <2> QED
    BY <2>4, <2>5 DEF LimiterOf
<1>4. ASSUME NEW v \in Users \ {u} PROVE LimiterOf(v)'
  <2>1. count'[v] = count[v] /\ ttl'[v] = ttl[v]
    BY <1>1, RenewKeeps
  <2> QED
    BY <1>1, <2>1, LimiterOfOthers
<1> QED
  BY <1>2, <1>3, <1>4 DEF LimiterInv

LEMMA TickKeeps ==
  ASSUME LimiterInv, Tick
  PROVE  LimiterInv'
<1>1. PerUser'
  BY DEF Tick, PerUser
<1>2. ASSUME NEW u \in Users PROVE LimiterOf(u)'
  <2>1. /\ count[u] \in 0..RateLimit + 1 /\ wait[u] \in -1..Window + Second
        /\ ttl[u] \in -1..Window /\ (ttl[u] = -1 => wait[u] = -1)
        /\ wait[u] >= 0 => wait[u] >= ttl[u]
        /\ count[u] = 0 <=> ttl[u] = -1
    BY DEF LimiterInv, LimiterOf
  <2>2. recent[u] \in [0..Window -> 0..RateLimit]
    BY DEF LimiterInv, LimiterOf
  <2>3. /\ ttl'[u] = IF ttl[u] < 0 THEN -1 ELSE ttl[u] - 1
        /\ count'[u] = IF ttl'[u] < 0 THEN 0 ELSE count[u]
        /\ wait'[u] = IF ttl'[u] < 0 \/ wait[u] < 0 THEN -1
                      ELSE IF wait[u] = 0 THEN 0 ELSE wait[u] - 1
        /\ recent'[u] = [a \in 0..Window |-> IF a = 0 THEN 0 ELSE recent[u][a - 1]]
    BY DEF Tick
  <2>4. recent'[u] \in [0..Window -> 0..RateLimit] /\ recent'[u][0] = 0
    <3>1. \A a \in 0..Window : a # 0 => recent[u][a - 1] \in 0..RateLimit
      BY <2>2, RateLimiterAssumption
    <3> QED
      BY <2>3, <3>1, RateLimiterAssumption
  <2>5. /\ count'[u] \in 0..RateLimit + 1 /\ wait'[u] \in -1..Window + Second
        /\ ttl'[u] \in -1..Window /\ (ttl'[u] = -1 => wait'[u] = -1)
        /\ wait'[u] >= 0 => wait'[u] >= ttl'[u]
        /\ count'[u] = 0 <=> ttl'[u] = -1
    BY <2>1, <2>3, RateLimiterAssumption
  <2> QED
    BY <2>4, <2>5, RateLimiterAssumption DEF LimiterOf
<1> QED
  BY <1>1, <1>2 DEF LimiterInv

LEMMA LimiterStutters ==
  ASSUME LimiterInv, UNCHANGED limiter
  PROVE  LimiterInv'
  BY DEF LimiterInv, LimiterOf, PerUser, limiter

-----------------------------------------------------------------------------
(* What the rate limiter lets through.                                     *)

(* The requests of u that were allowed in the last k ticks and this one.   *)
Sent(u, k) == Total(recent[u], 0..k)

(* The ticks since the key of u was created.                               *)
Age(u) == Window - ttl[u]

(* The requests allowed since the key was created are counted by it, and   *)
(* what is older but not forgotten was counted by the one key before it:   *)
(* its predecessor is gone for longer than a window.  Without a key, all   *)
(* there is was counted by the last one.                                   *)
Within(u) ==
  \/ ttl[u] = -1 /\ Sent(u, Window) <= RateLimit
  \/ /\ ttl[u] # -1
     /\ Sent(u, Age(u)) <= count[u] /\ Sent(u, Age(u)) <= RateLimit
     /\ Sent(u, Window) <= Sent(u, Age(u)) + RateLimit

Windows == \A u \in Users : Within(u)

LEMMA SentTypes ==
  ASSUME LimiterInv, NEW u \in Users
  PROVE  /\ \A a \in 0..Window : recent[u][a] \in Nat
         /\ \A k \in 0..Window : Sent(u, k) \in Nat
         /\ ttl[u] # -1 => Age(u) \in 0..Window
<1>1. /\ recent[u] \in [0..Window -> 0..RateLimit]
      /\ ttl[u] \in -1..Window
  BY DEF LimiterInv, LimiterOf
<1>2. \A a \in 0..Window : recent[u][a] \in Nat
  <2> TAKE a \in 0..Window
  <2>1. recent[u][a] \in 0..RateLimit
    BY <1>1
  <2> QED
    BY <2>1, RateLimiterAssumption
<1>3. ASSUME NEW k \in 0..Window PROVE Sent(u, k) \in Nat
  <2>1. k \in Int /\ 0..k \subseteq 0..Window
    BY RateLimiterAssumption
  <2>2. IsFiniteSet(0..k) /\ \A a \in 0..k : recent[u][a] \in Nat
    BY <1>2, <2>1, FS_Interval
  <2> QED
    BY <2>2, TotalIsNat DEF Sent
<1>4. ttl[u] # -1 => Age(u) \in 0..Window
  BY <1>1, RateLimiterAssumption DEF Age
<1> QED
  BY <1>2, <1>3, <1>4

LEMMA WindowsBound ==
  ASSUME LimiterInv, Windows
  PROVE  BurstBounded
<1> SUFFICES ASSUME NEW u \in Users
             PROVE  MapThenSumSet(LAMBDA a : recent[u][a], 0..Window) <= 2 * RateLimit
  BY DEF BurstBounded
<1>1. MapThenSumSet(LAMBDA a : recent[u][a], 0..Window) = Sent(u, Window)
  BY DEF Sent, Total
<1>2. Window \in 0..Window /\ RateLimit \in Nat
  BY RateLimiterAssumption
<1>3. Sent(u, Window) \in Nat /\ (ttl[u] # -1 => Sent(u, Age(u)) \in Nat)
  BY <1>2, SentTypes
<1>4. Within(u)
  BY DEF Windows
<1> QED
  BY <1>1, <1>2, <1>3, <1>4 DEF Within

LEMMA WindowsStart == LimiterInit => Windows
<1> SUFFICES ASSUME LimiterInit, NEW u \in Users PROVE Within(u)
  BY DEF Windows
<1> DEFINE none == [a \in 0..Window |-> 0]
<1>1. recent[u] = none /\ ttl[u] = -1
  BY DEF LimiterInit
<1>2. Total(none, 0..Window) = Total(none, {})
  <2>1. IsFiniteSet(0..Window) /\ {} \in SUBSET (0..Window) /\ \A a \in 0..Window : none[a] = 0
    BY FS_Interval, RateLimiterAssumption
  <2> HIDE DEF none
  <2>2. \A a \in 0..Window : none[a] \in Nat
    BY <2>1
  <2> QED
    BY <2>1, <2>2, TotalOfPart
<1>3. Total(none, {}) = 0
  BY TotalOfNone
<1> QED
  BY <1>1, <1>2, <1>3, RateLimiterAssumption DEF Within, Sent

(* A request of u is counted and n requests are let through.               *)
LEMMA RenewWithin ==
  ASSUME LimiterInv, Windows, NEW u \in Users, Renew(u), NEW n \in {0, 1},
         n = 1 => Allowed(u),
         \A k \in 0..Window : Sent(u, k)' = Sent(u, k) + n
  PROVE  Within(u)'
<1>0. /\ RateLimit \in Nat \ {0} /\ Window \in Nat \ {0}
      /\ 0 \in 0..Window /\ Window \in 0..Window
  BY RateLimiterAssumption
<1>1. /\ count[u] \in 0..RateLimit + 1 /\ ttl[u] \in -1..Window
      /\ count[u] = 0 <=> ttl[u] = -1
      /\ recent[u] \in [0..Window -> 0..RateLimit] /\ recent[u][0] <= count[u]
  BY DEF LimiterInv, LimiterOf
<1>2. /\ count'[u] = Counted(u)
      /\ ttl'[u] = IF count[u] = 0 THEN Window ELSE ttl[u]
  BY <1>1 DEF LimiterInv, PerUser, Renew
<1>3. count[u] <= count'[u] /\ (n = 1 => count'[u] = count[u] + 1 /\ count[u] < RateLimit)
  BY <1>0, <1>1, <1>2 DEF Counted, Allowed
<1>4. Sent(u, Window) \in Nat /\ Sent(u, 0) \in Nat
  BY <1>0, SentTypes
<1>5. CASE ttl[u] = -1
  <2>1. /\ count[u] = 0 /\ count'[u] = 1 /\ ttl'[u] = Window /\ Age(u)' = 0
        /\ Sent(u, Window) <= RateLimit
    BY <1>0, <1>1, <1>2, <1>5 DEF Counted, Age, Windows, Within
  <2>2. Sent(u, 0) = 0
    <3>1. recent[u][0] \in 0..RateLimit
      BY <1>0, <1>1
    <3>2. recent[u][0] = 0 /\ 0..0 = {0}
      BY <1>0, <1>1, <2>1, <3>1
    <3>3. Total(recent[u], {0}) = 0
      BY <3>2, TotalOfOne
    <3> QED
      BY <3>2, <3>3 DEF Sent
  <2>3. Sent(u, 0)' = n /\ Sent(u, Window)' = Sent(u, Window) + n
    BY <1>0, <2>2
  <2>4. ttl'[u] # -1 /\ n <= 1 /\ n \in Nat /\ n <= RateLimit /\ Sent(u, Window) + n <= n + RateLimit
    BY <1>0, <1>4, <2>1
  <2> QED
    BY <2>1, <2>3, <2>4 DEF Within
<1>6. CASE ttl[u] # -1
  <2>1. /\ count[u] # 0 /\ ttl'[u] = ttl[u] /\ Age(u)' = Age(u)
        /\ Sent(u, Age(u)) <= count[u] /\ Sent(u, Age(u)) <= RateLimit
        /\ Sent(u, Window) <= Sent(u, Age(u)) + RateLimit
    BY <1>1, <1>2, <1>6 DEF Age, Windows, Within
  <2>2. Age(u) \in 0..Window /\ Sent(u, Age(u)) \in Nat
    BY <1>6, SentTypes
  <2> DEFINE s == Sent(u, Age(u))
  <2>3. Sent(u, Age(u))' = s + n /\ Sent(u, Window)' = Sent(u, Window) + n
    BY <1>0, <2>1, <2>2
  <2> HIDE DEF s
  <2>4. s + n <= count'[u] /\ s + n <= RateLimit /\ Sent(u, Window) + n <= s + n + RateLimit
    <3>1. s \in Nat /\ s <= count[u] /\ s <= RateLimit /\ Sent(u, Window) <= s + RateLimit
      BY <2>1, <2>2 DEF s
    <3>2. count'[u] \in Nat /\ count[u] \in Nat
      BY <1>0, <1>1, <1>2 DEF Counted
    <3> QED
      BY <1>0, <1>3, <1>4, <3>1, <3>2
  <2> QED
    BY <1>6, <2>1, <2>3, <2>4 DEF Within
<1> QED
  BY <1>5, <1>6

LEMMA WithinOfOthers ==
  ASSUME Windows, NEW v \in Users,
         count'[v] = count[v], ttl'[v] = ttl[v], recent'[v] = recent[v]
  PROVE  Within(v)'
BY DEF Windows, Within, Sent, Age

LEMMA AllowWithin ==
  ASSUME LimiterInv, Windows, NEW u \in Users, Allow(u)
  PROVE  Windows'
<1>1. PerUser /\ LimiterOf(u) /\ Renew(u) /\ Allowed(u)
  BY DEF LimiterInv, Allow
<1>2. recent' = [v \in Users |-> IF v = u THEN [recent[u] EXCEPT ![0] = recent[u][0] + 1] ELSE recent[v]]
  BY <1>1 DEF Allow, PerUser
<1>3. ASSUME NEW k \in 0..Window PROVE Sent(u, k)' = Sent(u, k) + 1
  <2> DEFINE f == recent[u]
             g == recent'[u]
  <2>1. g = [f EXCEPT ![0] = f[0] + 1] /\ f \in [0..Window -> 0..RateLimit]
    BY <1>1, <1>2 DEF LimiterOf
  <2>2. 0..k \subseteq 0..Window /\ 0 \in 0..k /\ IsFiniteSet(0..k)
    BY FS_Interval, RateLimiterAssumption
  <2>3. \A a \in 0..k : f[a] \in Nat
    BY <2>2, SentTypes
  <2>4. g[0] = f[0] + 1 /\ \A a \in (0..k) \ {0} : g[a] = f[a]
    BY <2>1, <2>2
  <2> HIDE DEF f, g
  <2>5. Total(g, 0..k) = Total(f, 0..k) + 1
    BY <2>2, <2>3, <2>4, TotalRaised
  <2> QED
    BY <2>5 DEF f, g, Sent
<1>4. Within(u)'
  BY <1>1, <1>3, RenewWithin
<1>5. ASSUME NEW v \in Users \ {u} PROVE Within(v)'
  <2>1. count'[v] = count[v] /\ ttl'[v] = ttl[v] /\ recent'[v] = recent[v]
    BY <1>1, <1>2, RenewKeeps
  <2> QED
    BY <2>1, WithinOfOthers
<1> QED
  BY <1>4, <1>5 DEF Windows

LEMMA RefusedWithin ==
  ASSUME LimiterInv, Windows, NEW u \in Users, TooMany(u) \/ CountLost(u)
  PROVE  Windows'
<1>1. PerUser /\ LimiterOf(u) /\ Renew(u) /\ recent' = recent
  BY DEF LimiterInv, TooMany, CountLost
<1>2. ASSUME NEW k \in 0..Window PROVE Sent(u, k)' = Sent(u, k) + 0
  <2>1. Sent(u, k)' = Sent(u, k)
    BY <1>1 DEF Sent
  <2> QED
    BY <2>1, SentTypes
<1>3. Within(u)'
  BY <1>1, <1>2, RenewWithin
<1>4. ASSUME NEW v \in Users \ {u} PROVE Within(v)'
  <2>1. count'[v] = count[v] /\ ttl'[v] = ttl[v] /\ recent'[v] = recent[v]
    BY <1>1, RenewKeeps
  <2> QED
    BY <2>1, WithinOfOthers
<1> QED
  BY <1>3, <1>4 DEF Windows

(* A tick makes every request older, and forgets the oldest.               *)
LEMMA TickSent ==
  ASSUME LimiterInv, Tick, NEW u \in Users
  PROVE  /\ \A k \in 0..Window - 1 : Sent(u, k + 1)' = Sent(u, k)
         /\ Sent(u, Window)' <= Sent(u, Window)
<1>0. Window \in Nat \ {0}
  BY RateLimiterAssumption
<1> DEFINE f == recent[u]
           g == recent'[u]
<1>1. g = [a \in 0..Window |-> IF a = 0 THEN 0 ELSE f[a - 1]]
  BY DEF Tick
<1>2. \A a \in 0..Window : f[a] \in Nat
  BY SentTypes
<1>3. ASSUME NEW k \in 0..Window - 1 PROVE Total(g, 0..k + 1) = Total(f, 0..k)
  <2>1. k \in Nat /\ 0..k \subseteq 0..Window /\ 1..k + 1 \subseteq 0..Window /\ 0 \in 0..Window
    BY <1>0
  <2>2. g[0] = 0 /\ (\A a \in 1..k + 1 : g[a] = f[a - 1]) /\ (\A a \in 0..k : f[a] \in Nat)
    BY <1>1, <1>2, <2>1
  <2> HIDE DEF f, g
  <2> QED
    BY <2>1, <2>2, TotalShifted
<1> HIDE DEF f, g
<1>4. Total(g, 0..Window) <= Total(f, 0..Window)
  <2> DEFINE k == Window - 1
  <2>1. k \in 0..Window - 1 /\ k + 1 = Window /\ 0..k \in SUBSET (0..Window)
    BY <1>0
  <2>2. Total(g, 0..Window) = Total(f, 0..k)
    BY <1>3, <2>1
  <2>3. IsFiniteSet(0..Window)
    BY <1>0, FS_Interval
  <2> HIDE DEF k
  <2>4. Total(f, 0..k) <= Total(f, 0..Window)
    BY <1>2, <2>1, <2>3, TotalOfPart
  <2> QED
    BY <2>2, <2>4
<1> QED
  BY <1>3, <1>4 DEF f, g, Sent

LEMMA TickWithin ==
  ASSUME LimiterInv, Windows, Tick
  PROVE  Windows'
<1> SUFFICES ASSUME NEW u \in Users PROVE Within(u)'
  BY DEF Windows
<1>0. Window \in Nat \ {0} /\ RateLimit \in Nat /\ Window \in 0..Window
  BY RateLimiterAssumption
<1>1. /\ count[u] \in 0..RateLimit + 1 /\ ttl[u] \in -1..Window
      /\ ttl'[u] = IF ttl[u] < 0 THEN -1 ELSE ttl[u] - 1
      /\ count'[u] = IF ttl'[u] < 0 THEN 0 ELSE count[u]
  BY DEF LimiterInv, LimiterOf, Tick
<1>2. /\ \A k \in 0..Window - 1 : Sent(u, k + 1)' = Sent(u, k)
      /\ Sent(u, Window)' <= Sent(u, Window)
  BY TickSent
<1>3. Sent(u, Window)' \in Nat /\ Sent(u, Window) \in Nat
  <2>1. LimiterInv'
    BY TickKeeps
  <2>2. Sent(u, Window) \in Nat
    BY <1>0, SentTypes
  <2>3. Window - 1 \in 0..Window - 1 /\ Window - 1 \in 0..Window /\ (Window - 1) + 1 = Window
    BY <1>0
  <2>4. Sent(u, Window)' = Sent(u, Window - 1)
    BY <1>2, <2>3
  <2> QED
    BY <2>2, <2>3, <2>4, SentTypes
<1>4. Within(u)
  BY DEF Windows
<1>5. CASE ttl[u] \in {-1, 0}
  <2>1. ttl'[u] = -1
    BY <1>1, <1>5
  <2>2. Sent(u, Window) <= RateLimit
    <3>1. ttl[u] = 0 => Age(u) = Window
      BY <1>0 DEF Age
    <3> QED
      BY <1>4, <1>5, <3>1 DEF Within
  <2>3. Sent(u, Window)' <= RateLimit
    BY <1>0, <1>2, <1>3, <2>2
  <2> QED
    BY <2>1, <2>3 DEF Within
<1>6. CASE ttl[u] \notin {-1, 0}
  <2>1. /\ ttl'[u] = ttl[u] - 1 /\ ttl'[u] # -1 /\ count'[u] = count[u]
        /\ Age(u) \in 0..Window - 1 /\ Age(u)' = Age(u) + 1
    BY <1>0, <1>1, <1>6 DEF Age
  <2>2. /\ Sent(u, Age(u)) <= count[u] /\ Sent(u, Age(u)) <= RateLimit
        /\ Sent(u, Window) <= Sent(u, Age(u)) + RateLimit
    BY <1>4, <1>6 DEF Within
  <2>3. Sent(u, Age(u))' = Sent(u, Age(u))
    BY <1>2, <2>1
  <2>4. Sent(u, Age(u)) \in Nat
    BY <1>6, SentTypes
  <2>5. Sent(u, Window)' <= Sent(u, Age(u)) + RateLimit
    BY <1>0, <1>2, <1>3, <2>2, <2>4
  <2> QED
    BY <2>1, <2>2, <2>3, <2>5 DEF Within
<1> QED
  BY <1>5, <1>6

-----------------------------------------------------------------------------
(* The users and the scores.                                               *)

OfFile   == imported \in {{}, DOMAIN File} /\ raced \subseteq imported
Rows     == user \in [Accts -> UserRow \cup {NoRow}]
Unique   == \A u, v \in Accts : u # v /\ HasUser(u) /\ HasUser(v) => user[u].email # user[v].email
Bests    == best \in [Accts -> [Problems -> 0..100 \cup {NoRow}]]
States   == status \in [Requests -> Statuses \cup {NoRow}]
ImportIn == \A u \in imported : HasUser(u) /\ (u \notin raced => user[u].score = Imported)
Owned    == \A u \in Accts, p \in Problems : best[u][p] # NoRow => HasUser(u)
Entered  == \A r \in Requests : HasSubmission(r) => Best(r) # NoRow
Raised   == \A r \in Requests : status[r] = "accepted" => Best(r) = 100

AccountsInv == OfFile /\ Rows /\ Unique /\ Bests /\ States /\ ImportIn /\ Owned /\ Entered /\ Raised

LEMMA RequestTypes ==
  ASSUME NEW r \in Requests
  PROVE  ByUser[r] \in Accts /\ ForProblem[r] \in Problems
  BY AccountsAssumption DEF Problems

LEMMA FileTypes ==
  ASSUME NEW u \in DOMAIN File
  PROVE  u \in Accts /\ [email |-> File[u], score |-> Imported] \in UserRow
  BY AccountsAssumption DEF UserRow, AllEmails

LEMMA DjangoRow ==
  ASSUME NEW u \in Accts
  PROVE  [email |-> EmailOf[u], score |-> 0] \in UserRow
  BY DEF UserRow, AllEmails

LEMMA AccountsSound == AccountsInv => AccountsTypeOK /\ SubmitterKnown /\ ImportKept
<1> SUFFICES ASSUME AccountsInv PROVE AccountsTypeOK /\ SubmitterKnown /\ ImportKept
  OBVIOUS
<1>1. imported \subseteq Accts
  BY AccountsAssumption DEF AccountsInv, OfFile
<1>2. AccountsTypeOK
  BY <1>1 DEF AccountsInv, OfFile, Rows, Unique, Bests, States, AccountsTypeOK, Clash
<1>3. SubmitterKnown
  BY DEF AccountsInv, Owned, SubmitterKnown, Started
<1>4. ImportKept
  BY DEF AccountsInv, ImportIn, ImportKept
<1> QED
  BY <1>2, <1>3, <1>4

LEMMA AccountsStarts == AccountsInit => AccountsInv
<1> SUFFICES ASSUME AccountsInit PROVE AccountsInv
  OBVIOUS
<1>1. OfFile /\ Rows /\ Unique /\ ImportIn
  BY DEF AccountsInit, OfFile, Rows, Unique, ImportIn, HasUser
<1>2. Bests /\ States /\ Owned
  BY DEF AccountsInit, TablesInit, Bests, States, Owned
<1>3. Entered /\ Raised
  BY AccountsAssumption DEF AccountsInit, TablesInit, Entered, Raised, Statuses, HasSubmission
<1> QED
  BY <1>1, <1>2, <1>3 DEF AccountsInv

(* ensureUser stores a user the import has not stored, or has raced with.  *)
LEMMA SaveUserKeeps ==
  ASSUME AccountsInv, NEW u \in Accts, SaveUser(u), u \in imported => u \in raced
  PROVE  AccountsInv' /\ HasUser(u)' /\ \A v \in Accts : HasUser(v) => HasUser(v)'
<1> DEFINE row == [email |-> EmailOf[u], score |-> 0]
<1>1. user' = [user EXCEPT ![u] = row] /\ ~Clash(u, EmailOf[u])
  BY DEF SaveUser
<1>2. UNCHANGED <<best, status, imported, raced>>
  BY DEF SaveUser, tables
<1>3. row \in UserRow /\ row # NoRow /\ row.email = EmailOf[u]
  BY DjangoRow, AccountsAssumption
<1> HIDE DEF row
<1>4. Rows'
  BY <1>1, <1>3 DEF AccountsInv, Rows
<1>5. user'[u] = row /\ \A v \in Accts \ {u} : user'[v] = user[v]
  BY <1>1 DEF AccountsInv, Rows
<1>6. HasUser(u)' /\ \A v \in Accts : HasUser(v) => HasUser(v)'
  BY <1>3, <1>5 DEF HasUser
<1>7. Unique'
  BY <1>1, <1>3, <1>5 DEF AccountsInv, Unique, Clash, HasUser
<1>8. ImportIn'
  <2>1. imported \subseteq Accts
    BY AccountsAssumption DEF AccountsInv, OfFile
  <2> QED
    BY <1>2, <1>5, <1>6, <2>1 DEF AccountsInv, ImportIn
<1>9. Owned'
  BY <1>2, <1>6 DEF AccountsInv, Owned
<1> QED
  BY <1>2, <1>4, <1>6, <1>7, <1>8, <1>9
  DEF AccountsInv, OfFile, Bests, States, Entered, Raised, HasSubmission, Best

LEMMA ImportKeeps ==
  ASSUME AccountsInv, NEW busy, Import(busy)
  PROVE  /\ AccountsInv' /\ \A v \in Accts : HasUser(v) => HasUser(v)'
         /\ imported' = DOMAIN File /\ raced \subseteq raced' /\ busy \cap imported' \subseteq raced'
<1> DEFINE row(v) == [email |-> File[v], score |-> Imported]
<1>1. user' = [v \in Accts |-> IF v \in DOMAIN File THEN row(v) ELSE user[v]]
  BY DEF Import
<1>2. imported' = DOMAIN File /\ raced' = raced \cup (busy \cap DOMAIN File) /\ UNCHANGED <<best, status>>
  BY DEF Import, tables
<1>3. \A v \in DOMAIN File : v \in Accts /\ row(v) \in UserRow /\ row(v) # NoRow
                           /\ row(v).email = File[v] /\ row(v).score = Imported
  BY FileTypes, AccountsAssumption
<1> HIDE DEF row
<1>4. Rows'
  BY <1>1, <1>3 DEF AccountsInv, Rows
<1>5. \A v \in Accts : user'[v] = IF v \in DOMAIN File THEN row(v) ELSE user[v]
  BY <1>1
<1>6. \A v \in Accts : HasUser(v) => HasUser(v)'
  BY <1>3, <1>5 DEF HasUser
<1>7. Unique'
  <2> SUFFICES ASSUME NEW v \in Accts, NEW w \in Accts, v # w, HasUser(v)', HasUser(w)'
               PROVE  user'[v].email # user'[w].email
    BY DEF Unique
  <2>1. \A x \in DOMAIN File, y \in Accts \ DOMAIN File : HasUser(y) => user[y].email # File[x]
    BY DEF Import
  <2>2. CASE v \in DOMAIN File /\ w \in DOMAIN File
    BY <1>3, <1>5, <2>2, AccountsAssumption
  <2>3. CASE v \in DOMAIN File /\ w \notin DOMAIN File
    BY <1>3, <1>5, <2>1, <2>3 DEF HasUser
  <2>4. CASE v \notin DOMAIN File /\ w \in DOMAIN File
    BY <1>3, <1>5, <2>1, <2>4 DEF HasUser
  <2>5. CASE v \notin DOMAIN File /\ w \notin DOMAIN File
    BY <1>5, <2>5 DEF AccountsInv, Unique, HasUser
  <2> QED
    BY <2>2, <2>3, <2>4, <2>5
<1>8. ImportIn'
  BY <1>2, <1>3, <1>5 DEF ImportIn, HasUser
<1>9. Owned'
  BY <1>2, <1>6 DEF AccountsInv, Owned
<1>10. OfFile'
  BY <1>2 DEF AccountsInv, OfFile
<1> QED
  BY <1>2, <1>4, <1>6, <1>7, <1>8, <1>9, <1>10
  DEF AccountsInv, Bests, States, Entered, Raised, HasSubmission, Best

(* What the writes of a submission leave alone.                            *)
LEMMA UsersAlone ==
  ASSUME AccountsInv, UNCHANGED people
  PROVE  OfFile' /\ Rows' /\ Unique' /\ ImportIn' /\ \A v \in Accts : HasUser(v)' <=> HasUser(v)
  BY DEF people, AccountsInv, OfFile, Rows, Unique, ImportIn, HasUser

(* A best score that starts or grows, of a stored user.                    *)
LEMMA BestKeeps ==
  ASSUME AccountsInv, NEW r \in Requests, NEW b \in 0..100, SetBest(r, b), UNCHANGED status,
         UNCHANGED people, HasUser(ByUser[r]), Best(r) = 100 => b = 100
  PROVE  AccountsInv'
<1> DEFINE u == ByUser[r]
           p == ForProblem[r]
<1>1. u \in Accts /\ p \in Problems /\ best' = [best EXCEPT ![u][p] = b]
  BY RequestTypes DEF SetBest
<1>2. best[u] \in [Problems -> 0..100 \cup {NoRow}]
  BY <1>1 DEF AccountsInv, Bests
<1>3. Bests'
  <2>1. [best[u] EXCEPT ![p] = b] \in [Problems -> 0..100 \cup {NoRow}]
    BY <1>2
  <2> QED
    BY <1>1, <2>1 DEF AccountsInv, Bests
<1>4. /\ best'[u][p] = b
      /\ \A v \in Accts, q \in Problems : v # u \/ q # p => best'[v][q] = best[v][q]
  BY <1>1, <1>2 DEF AccountsInv, Bests
<1>5. States'
  BY DEF AccountsInv, States
<1>6. Owned'
  BY <1>1, <1>4, UsersAlone DEF AccountsInv, Owned
<1>7. Entered' /\ Raised'
  <2> SUFFICES ASSUME NEW s \in Requests
               PROVE  /\ HasSubmission(s)' => Best(s)' # NoRow
                      /\ status'[s] = "accepted" => Best(s)' = 100
    BY DEF Entered, Raised
  <2>1. /\ ByUser[s] \in Accts /\ ForProblem[s] \in Problems
        /\ HasSubmission(s)' = HasSubmission(s) /\ status'[s] = status[s]
    BY RequestTypes DEF HasSubmission
  <2>2. /\ HasSubmission(s) => Best(s) # NoRow
        /\ status[s] = "accepted" => Best(s) = 100
    BY DEF AccountsInv, Entered, Raised
  <2>3. b # NoRow
    BY AccountsAssumption
  <2>4. CASE ByUser[s] = u /\ ForProblem[s] = p
    BY <1>4, <2>1, <2>2, <2>3, <2>4 DEF Best
  <2>5. CASE ByUser[s] # u \/ ForProblem[s] # p
    BY <1>4, <2>1, <2>2, <2>5 DEF Best
  <2> QED
    BY <2>4, <2>5
<1> QED
  BY <1>3, <1>5, <1>6, <1>7, UsersAlone DEF AccountsInv

(* A status that the best score allows.                                    *)
LEMMA StatusKeeps ==
  ASSUME AccountsInv, NEW r \in Requests, NEW st \in Statuses,
         status' = [status EXCEPT ![r] = st], UNCHANGED best, UNCHANGED people,
         Best(r) # NoRow, st = "accepted" => Best(r) = 100
  PROVE  AccountsInv'
<1>1. Bests' /\ Owned'
  BY UsersAlone DEF AccountsInv, Bests, Owned
<1>2. States' /\ status'[r] = st /\ \A s \in Requests \ {r} : status'[s] = status[s]
  BY DEF AccountsInv, States
<1>3. Entered' /\ Raised'
  BY <1>2 DEF AccountsInv, Entered, Raised, HasSubmission, Best
<1> QED
  BY <1>1, <1>2, <1>3, UsersAlone DEF AccountsInv

(* The rows of ScoreTables, while the users stay.                          *)
LEMMA TablesKeep ==
  ASSUME AccountsInv, NEW r \in Requests, UNCHANGED people,
         \/ StartProgress(r) /\ HasUser(ByUser[r])
         \/ EnterRow(r)
         \/ GradeRow(r)
  PROVE  AccountsInv'
<1>1. /\ ByUser[r] \in Accts /\ ForProblem[r] \in Problems
      /\ Best(r) # NoRow => Best(r) \in 0..100 /\ HasUser(ByUser[r])
      /\ HasSubmission(r) => Best(r) # NoRow
  BY RequestTypes DEF AccountsInv, Bests, Owned, Entered, Best
<1>2. CASE StartProgress(r) /\ HasUser(ByUser[r])
  <2>1. SetBest(r, 0) /\ UNCHANGED status /\ Best(r) # 100
    BY <1>2, AccountsAssumption DEF StartProgress
  <2> QED
    BY <1>2, <2>1, BestKeeps
<1>3. CASE EnterRow(r)
  BY <1>3, StatusKeeps DEF EnterRow, Statuses
<1>4. CASE GiveUp(r)
  BY <1>1, <1>4, StatusKeeps DEF GiveUp, Statuses
<1>5. ASSUME NEW score \in 0..100, Raise(r, score) PROVE AccountsInv'
  <2> DEFINE b == IF Best(r) < score THEN score ELSE Best(r)
  <2>1. SetBest(r, b) /\ UNCHANGED status /\ Best(r) \in 0..100 /\ HasUser(ByUser[r])
    BY <1>1, <1>5 DEF Raise
  <2>2. b \in 0..100 /\ (Best(r) = 100 => b = 100)
    BY <2>1
  <2> HIDE DEF b
  <2> QED
    BY <2>1, <2>2, BestKeeps
<1>6. ASSUME NEW score \in 0..100, Publish(r, score) PROVE AccountsInv'
  <2>1. /\ status' = [status EXCEPT ![r] = Verdict(score)] /\ UNCHANGED best
        /\ Best(r) # NoRow /\ Best(r) \in 0..100 /\ Best(r) >= score
    BY <1>1, <1>6 DEF Publish
  <2>2. Verdict(score) \in Statuses /\ (Verdict(score) = "accepted" => Best(r) = 100)
    BY <2>1 DEF Verdict, Statuses
  <2> QED
    BY <2>1, <2>2, StatusKeeps
<1> QED
  BY <1>2, <1>3, <1>4, <1>5, <1>6, AccountsAssumption DEF GradeRow

LEMMA AccountsStutters ==
  ASSUME AccountsInv, UNCHANGED accounts
  PROVE  AccountsInv' /\ \A v \in Accts : HasUser(v)' <=> HasUser(v)
  BY DEF accounts, people, tables, AccountsInv, OfFile, Rows, Unique, Bests, States, ImportIn, Owned,
         Entered, Raised, HasUser, HasSubmission, Best

(* The queries: a submission that counts as accepted has its problem among *)
(* the solved ones.                                                        *)
LEMMA FiniteProblems == IsFiniteSet(Problems)
<1> DEFINE of == [r \in Requests |-> ForProblem[r]]
<1>1. of \in Surjection(Requests, Problems)
  BY DEF Problems, Surjection
<1> QED
  BY <1>1, FS_Surjection, AccountsAssumption DEF ExistsSurjection

LEMMA AcceptedCounts == AccountsInv => AcceptedIsSolved
<1> SUFFICES ASSUME AccountsInv, NEW e \in AdminLeaderboard, e.accepted > 0
             PROVE  e.solved > 0
  BY DEF AcceptedIsSolved
<1>1. PICK u \in Listed : /\ e.accepted = Cardinality(AcceptedBy(u))
                          /\ e.solved = Cardinality(Solved(u))
  BY DEF AdminLeaderboard
<1>2. AcceptedBy(u) # {}
  BY <1>1, FS_EmptySet
<1>3. PICK q \in Requests : ByUser[q] = u /\ status[q] = "accepted"
  BY <1>2 DEF AcceptedBy, Submissions
<1>4. ForProblem[q] \in Solved(u)
  BY <1>3, RequestTypes, AccountsAssumption DEF AccountsInv, Raised, Started, Solved, Best
<1>5. IsFiniteSet(Solved(u))
  BY FiniteProblems, FS_Subset DEF Started, Solved
<1>6. Cardinality(Solved(u)) \in Nat /\ Cardinality(Solved(u)) # 0
  BY <1>4, <1>5, FS_EmptySet, FS_CardinalityType
<1> QED
  BY <1>1, <1>6

-----------------------------------------------------------------------------
(* The leaderboards.  Their sums are over rows and over what other sums    *)
(* come to: each is shown to be a Total, by the function of its summands.  *)

LEMMA SumOfRows ==
  ASSUME NEW rows, IsFiniteSet(rows)
  PROVE  MapThenSumSet(LAMBDA y : y.best, rows) = Total([y \in rows |-> y.best], rows)
<1> DEFINE f == [y \in rows |-> y.best]
           Fold(sum) ==
             sum = [T \in SUBSET rows |-> IF T = {} THEN 0 ELSE First(T).best + sum[T \ {First(T)}]]
           s == CHOOSE sum : Fold(sum)
<1>1. MapThenSumSet(LAMBDA y : y.best, rows) = s[rows]
  BY DEF MapThenSumSet, MapThenFoldSet, First
<1>2. \A sum : Adds(sum, f, rows) <=> Fold(sum)
  <2>1. \A T \in SUBSET rows : T # {} => f[First(T)] = First(T).best
    BY FirstIsMember
  <2> HIDE DEF f
  <2> QED
    BY <2>1 DEF Adds
<1> HIDE DEF f, Fold
<1>3. Adds(s, f, rows)
  BY <1>2, SumExists
<1>4. s[rows] = Total(f, rows)
  BY <1>3, SumIsTotal
<1> QED
  BY <1>1, <1>4 DEF f

LEMMA SumOfUsers ==
  ASSUME NEW us, IsFiniteSet(us)
  PROVE  MapThenSumSet(LAMBDA u : SumBest(u), us) = Total([u \in us |-> SumBest(u)], us)
<1> DEFINE f == [u \in us |-> SumBest(u)]
           Fold(sum) ==
             sum = [T \in SUBSET us |-> IF T = {} THEN 0 ELSE SumBest(First(T)) + sum[T \ {First(T)}]]
           s == CHOOSE sum : Fold(sum)
<1>1. MapThenSumSet(LAMBDA u : SumBest(u), us) = s[us]
  BY DEF MapThenSumSet, MapThenFoldSet, First
<1>2. \A sum : Adds(sum, f, us) <=> Fold(sum)
  <2>1. \A T \in SUBSET us : T # {} => f[First(T)] = SumBest(First(T))
    BY FirstIsMember
  <2> HIDE DEF f
  <2> QED
    BY <2>1 DEF Adds
<1> HIDE DEF f, Fold
<1>3. Adds(s, f, us)
  BY <1>2, SumExists
<1>4. s[us] = Total(f, us)
  BY <1>3, SumIsTotal
<1> QED
  BY <1>1, <1>4 DEF f

LEMMA SumOfShown ==
  ASSUME NEW e, NEW f, \A p \in Problems : f[p] = Shown(e, p)
  PROVE  MapThenSumSet(LAMBDA p : Shown(e, p), Problems) = Total(f, Problems)
<1> DEFINE Fold(sum) ==
             sum = [T \in SUBSET Problems |->
                      IF T = {} THEN 0 ELSE Shown(e, First(T)) + sum[T \ {First(T)}]]
           s == CHOOSE sum : Fold(sum)
<1>1. MapThenSumSet(LAMBDA p : Shown(e, p), Problems) = s[Problems]
  BY DEF MapThenSumSet, MapThenFoldSet, First
<1>2. \A sum : Adds(sum, f, Problems) <=> Fold(sum)
  <2>1. \A T \in SUBSET Problems : T # {} => f[First(T)] = Shown(e, First(T))
    BY FirstIsMember
  <2> QED
    BY <2>1 DEF Adds
<1> HIDE DEF Fold
<1>3. Adds(s, f, Problems)
  BY <1>2, FiniteProblems, SumExists
<1> QED
  BY <1>1, <1>3, FiniteProblems, SumIsTotal

LEMMA SumBestIsTotal ==
  ASSUME AccountsInv, NEW u \in Accts
  PROVE  /\ \A p \in Started(u) : best[u][p] \in Nat
         /\ IsFiniteSet(Started(u))
         /\ SumBest(u) = Total(best[u], Started(u)) /\ SumBest(u) \in Nat
<1>1. \A p \in Started(u) : best[u][p] \in Nat
  BY DEF AccountsInv, Bests, Started
<1>2. IsFiniteSet(Started(u))
  BY FiniteProblems, FS_Subset DEF Started
<1>3. SumBest(u) = Total(best[u], Started(u))
  BY DEF SumBest, Total
<1> QED
  BY <1>1, <1>2, <1>3, TotalIsNat

LEMMA OneOfEmail ==
  ASSUME AccountsInv, NEW u \in Listed
  PROVE  {v \in Listed : user[v].email = user[u].email} = {u}
BY DEF AccountsInv, Unique, Listed

(* The problem leaderboards show a user once, with the best score.         *)
LEMMA ShownIsBest ==
  ASSUME AccountsInv, NEW u \in Listed, NEW p \in Problems
  PROVE  Shown(user[u].email, p) = IF p \in Started(u) THEN best[u][p] ELSE 0
<1> DEFINE rows == {x \in PublicLeaderboard(p) : x.email = user[u].email}
           x == [email |-> user[u].email, best |-> best[u][p]]
<1>1. rows = IF p \in Started(u) THEN {x} ELSE {}
  BY OneOfEmail DEF PublicLeaderboard
<1>2. Shown(user[u].email, p) = MapThenSumSet(LAMBDA y : y.best, rows)
  BY DEF Shown
<1> HIDE DEF rows
<1>3. CASE p \in Started(u)
  <2> DEFINE f == [y \in {x} |-> y.best]
  <2>1. u \in Accts /\ best[u][p] \in Nat
    BY <1>3, SumBestIsTotal DEF Listed
  <2>2. f[x] = best[u][p] /\ IsFiniteSet({x})
    BY FS_Singleton
  <2>3. MapThenSumSet(LAMBDA y : y.best, {x}) = Total(f, {x})
    BY <2>2, SumOfRows
  <2> HIDE DEF f, x
  <2>4. Total(f, {x}) = best[u][p]
    BY <2>1, <2>2, TotalOfOne
  <2> QED
    BY <1>1, <1>2, <1>3, <2>3, <2>4
<1>4. CASE p \notin Started(u)
  <2>1. MapThenSumSet(LAMBDA y : y.best, {}) = Total([y \in {} |-> y.best], {})
    BY SumOfRows, FS_EmptySet
  <2>2. Total([y \in {} |-> y.best], {}) = 0
    BY TotalOfNone
  <2> QED
    BY <1>1, <1>2, <1>4, <2>1, <2>2
<1> QED
  BY <1>3, <1>4

LEMMA AllTimeRows ==
  ASSUME AccountsInv
  PROVE  AllTimeLeaderboard = {[email |-> user[u].email, best |-> SumBest(u)] : u \in Listed}
<1> DEFINE Sum(e) == MapThenSumSet(LAMBDA u : SumBest(u), {u \in Listed : user[u].email = e})
<1>1. ASSUME NEW u \in Listed PROVE Sum(user[u].email) = SumBest(u)
  <2> DEFINE f == [v \in {u} |-> SumBest(v)]
  <2>1. Sum(user[u].email) = MapThenSumSet(LAMBDA v : SumBest(v), {u})
    BY OneOfEmail
  <2>2. MapThenSumSet(LAMBDA v : SumBest(v), {u}) = Total(f, {u})
    BY SumOfUsers, FS_Singleton
  <2>3. f[u] = SumBest(u) /\ SumBest(u) \in Nat
    BY SumBestIsTotal DEF Listed
  <2> HIDE DEF f, Sum
  <2> QED
    BY <2>1, <2>2, <2>3, TotalOfOne
<1>2. AllTimeLeaderboard = {[email |-> e, best |-> Sum(e)] : e \in {user[u].email : u \in Listed}}
  BY DEF AllTimeLeaderboard
<1> HIDE DEF Sum
<1> QED
  BY <1>1, <1>2

LEMMA BoardsMatch == AccountsInv => BoardsAgree
<1> SUFFICES ASSUME AccountsInv PROVE BoardsAgree
  OBVIOUS
<1>1. {[email |-> e.email, best |-> e.total] : e \in AdminLeaderboard} = AllTimeLeaderboard
  <2>1. {[email |-> e.email, best |-> e.total] : e \in AdminLeaderboard}
          = {[email |-> user[u].email, best |-> SumBest(u)] : u \in Listed}
    <3> DEFINE row(u) == [email |-> user[u].email, total |-> SumBest(u),
                          solved |-> Cardinality(Solved(u)),
                          submissions |-> Cardinality(Submissions(u)),
                          accepted |-> Cardinality(AcceptedBy(u))]
    <3>1. AdminLeaderboard = {row(u) : u \in Listed}
      BY DEF AdminLeaderboard
    <3>2. \A u \in Listed : row(u).email = user[u].email /\ row(u).total = SumBest(u)
      OBVIOUS
    <3> HIDE DEF row
    <3> QED
      BY <3>1, <3>2
  <2> QED
    BY <2>1, AllTimeRows
<1>2. ASSUME NEW e \in AllTimeLeaderboard
      PROVE  e.best = MapThenSumSet(LAMBDA p : Shown(e.email, p), Problems)
  <2>1. PICK u \in Listed : e.email = user[u].email /\ e.best = SumBest(u)
    BY AllTimeRows
  <2> DEFINE f == [p \in Problems |-> IF p \in Started(u) THEN best[u][p] ELSE 0]
  <2>2. \A p \in Problems : f[p] = Shown(e.email, p)
    BY <2>1, ShownIsBest
  <2>3. MapThenSumSet(LAMBDA p : Shown(e.email, p), Problems) = Total(f, Problems)
    BY <2>2, SumOfShown
  <2>4. /\ Started(u) \in SUBSET Problems /\ u \in Accts
        /\ \A p \in Started(u) : f[p] = best[u][p]
        /\ \A p \in Problems \ Started(u) : f[p] = 0
    BY DEF Started, Listed
  <2>5. /\ \A p \in Started(u) : best[u][p] \in Nat
        /\ IsFiniteSet(Started(u)) /\ SumBest(u) = Total(best[u], Started(u))
    BY <2>4, SumBestIsTotal
  <2>6. \A p \in Problems : f[p] \in Nat
    BY <2>4, <2>5
  <2> HIDE DEF f
  <2>7. Total(f, Started(u)) = Total(f, Problems)
    BY <2>4, <2>6, FiniteProblems, TotalOfPart
  <2>8. Total(f, Started(u)) = Total(best[u], Started(u))
    BY <2>4, <2>5, TotalOfEqual
  <2> QED
    BY <2>1, <2>3, <2>5, <2>7, <2>8
<1> QED
  BY <1>1, <1>2 DEF BoardsAgree

-----------------------------------------------------------------------------
(* The requests.                                                           *)

StepTypes == step \in [Requests -> GateSteps] /\ fetched \in [Requests -> Users \cup {NoRow}]
Fetching  == \A r \in Requests : step[r] = "store" => fetched[r] = ByUser[r]
Known     == \A r \in Requests : step[r] \in {"submit", "save"} => HasUser(ByUser[r])
Racing    == \A r \in Requests :
               step[r] \in {"identity", "store"} /\ ByUser[r] \in imported => ByUser[r] \in raced

RequestInv == StepTypes /\ Fetching /\ Known /\ Racing

GateInv == LimiterInv /\ AccountsInv /\ RequestInv

LEMMA GateStarts == GatewayInit => GateInv
<1> SUFFICES ASSUME GatewayInit PROVE GateInv
  OBVIOUS
<1>1. LimiterInv /\ AccountsInv
  BY LimiterStarts, AccountsStarts DEF GatewayInit
<1>2. RequestInv
  BY DEF GatewayInit, RequestInv, StepTypes, GateSteps, Fetching, Known, Racing
<1> QED
  BY <1>1, <1>2 DEF GateInv

(* A request that goes to s, while the others stay where they are and no   *)
(* user is lost or newly imported.                                         *)
LEMMA GotoKeeps ==
  ASSUME RequestInv, NEW r \in Requests, NEW s \in GateSteps, Goto(r, s),
         imported' = imported, raced' = raced, \A v \in Accts : HasUser(v) => HasUser(v)',
         s # "store", s \in {"submit", "save"} => HasUser(ByUser[r])',
         s = "identity" /\ ByUser[r] \in imported => ByUser[r] \in raced
  PROVE  RequestInv'
<1>1. step' = [step EXCEPT ![r] = s] /\ fetched' = fetched
  BY DEF Goto
<1>2. StepTypes'
  BY <1>1 DEF RequestInv, StepTypes
<1>3. step'[r] = s /\ \A q \in Requests \ {r} : step'[q] = step[q]
  BY <1>1 DEF RequestInv, StepTypes
<1>4. Fetching'
  BY <1>1, <1>3 DEF RequestInv, Fetching
<1>5. Known'
  BY <1>3, RequestTypes DEF RequestInv, Known
<1>6. Racing'
  BY <1>3 DEF RequestInv, Racing
<1> QED
  BY <1>2, <1>4, <1>5, <1>6 DEF RequestInv

(* Steps that leave the requests where they are.                           *)
LEMMA RequestsAlone ==
  ASSUME RequestInv, UNCHANGED <<step, fetched, imported, raced>>,
         \A v \in Accts : HasUser(v) => HasUser(v)'
  PROVE  RequestInv'
  BY RequestTypes DEF RequestInv, StepTypes, Fetching, Known, Racing

LEMMA LimitGradeKeeps ==
  ASSUME GateInv, NEW r \in Requests, LimitGrade(r)
  PROVE  GateInv'
<1>1. ByUser[r] \in Users /\ LimiterInv /\ AccountsInv /\ RequestInv /\ UNCHANGED accounts
  BY RequestTypes, GatewayAssumption DEF GateInv, LimitGrade
<1>2. AccountsInv' /\ (\A v \in Accts : HasUser(v) => HasUser(v)') /\ UNCHANGED <<imported, raced>>
  BY <1>1, AccountsStutters DEF accounts, people
<1>3. LimiterInv'
  <2>1. Allow(ByUser[r]) \/ TooMany(ByUser[r]) \/ CountLost(ByUser[r])
    BY DEF LimitGrade
  <2> QED
    BY <1>1, <2>1, AllowKeeps, TooManyKeeps, CountLostKeeps
<1>4. Goto(r, "form") \/ UNCHANGED <<step, fetched>>
  BY DEF LimitGrade
<1>5. CASE Goto(r, "form")
  BY <1>1, <1>2, <1>5, GotoKeeps, <1>3 DEF GateInv, GateSteps
<1>6. CASE UNCHANGED <<step, fetched>>
  BY <1>1, <1>2, <1>6, RequestsAlone, <1>3 DEF GateInv
<1> QED
  BY <1>4, <1>5, <1>6

(* The steps of a request that change nothing but where it is.             *)
LEMMA WalkKeeps ==
  ASSUME GateInv, NEW r \in Requests,
         \/ Unauthorized(r) \/ GradeQuiz(r) \/ GradeSubmission(r) \/ LookupUser(r) \/ StoreUserFails(r)
         \/ RecheckUser(r) \/ EnsureUserFails(r)
  PROVE  GateInv'
<1>1. LimiterInv /\ AccountsInv /\ RequestInv /\ UNCHANGED <<limiter, accounts>>
  BY DEF GateInv, Unauthorized, GradeQuiz, GradeSubmission, LookupUser, StoreUserFails, RecheckUser,
         EnsureUserFails
<1>2. LimiterInv' /\ AccountsInv' /\ UNCHANGED <<imported, raced>>
  BY <1>1, LimiterStutters, AccountsStutters DEF accounts, people
<1>3. \A v \in Accts : HasUser(v)' <=> HasUser(v)
  BY <1>1, AccountsStutters
<1>4. ByUser[r] \in Accts /\ (~HasUser(ByUser[r]) => ByUser[r] \notin imported)
  BY <1>1, RequestTypes DEF AccountsInv, ImportIn
<1>5. PICK s \in {"form", "lookup", "failed", "recheck", "submit", "identity"} :
        /\ Goto(r, s)
        /\ s = "submit" => HasUser(ByUser[r])
        /\ s = "identity" => ~HasUser(ByUser[r])
  BY DEF Unauthorized, GradeQuiz, GradeSubmission, LookupUser, StoreUserFails, RecheckUser, EnsureUserFails
<1>6. RequestInv'
  BY <1>1, <1>2, <1>3, <1>4, <1>5, GotoKeeps DEF GateSteps
<1> QED
  BY <1>2, <1>6 DEF GateInv

LEMMA AskDjangoKeeps ==
  ASSUME GateInv, NEW r \in Requests, AskDjango(r)
  PROVE  GateInv'
<1>1. LimiterInv /\ AccountsInv /\ RequestInv /\ UNCHANGED <<limiter, accounts>> /\ step[r] = "identity"
  BY DEF GateInv, AskDjango
<1>2. LimiterInv' /\ AccountsInv' /\ UNCHANGED <<imported, raced>>
  BY <1>1, LimiterStutters, AccountsStutters DEF accounts, people
<1>3. \A v \in Accts : HasUser(v)' <=> HasUser(v)
  BY <1>1, AccountsStutters
<1>4. CASE Goto(r, "failed")
  BY <1>1, <1>2, <1>3, <1>4, GotoKeeps DEF GateSteps, GateInv
<1>5. CASE /\ fetched' = [fetched EXCEPT ![r] = ByUser[r]]
           /\ step' = [step EXCEPT ![r] = "store"]
  <2>1. StepTypes'
    BY <1>1, <1>5, RequestTypes, GatewayAssumption DEF RequestInv, StepTypes, GateSteps
  <2>2. /\ step'[r] = "store" /\ fetched'[r] = ByUser[r]
        /\ \A q \in Requests \ {r} : step'[q] = step[q] /\ fetched'[q] = fetched[q]
    BY <1>1, <1>5 DEF RequestInv, StepTypes
  <2>3. Fetching'
    BY <1>1, <2>2 DEF RequestInv, Fetching
  <2>4. Known'
    BY <1>1, <1>3, <2>2, RequestTypes DEF RequestInv, Known
  <2>5. Racing'
    BY <1>1, <1>2, <2>2 DEF RequestInv, Racing
  <2> QED
    BY <1>2, <2>1, <2>3, <2>4, <2>5 DEF GateInv, RequestInv
<1> QED
  BY <1>4, <1>5 DEF AskDjango

LEMMA StoreUserKeeps ==
  ASSUME GateInv, NEW r \in Requests, StoreUser(r)
  PROVE  GateInv'
<1>1. LimiterInv /\ AccountsInv /\ RequestInv /\ UNCHANGED limiter /\ step[r] = "store"
  BY DEF GateInv, StoreUser
<1>2. fetched[r] = ByUser[r] /\ ByUser[r] \in Accts /\ (ByUser[r] \in imported => ByUser[r] \in raced)
  BY <1>1, RequestTypes DEF RequestInv, Fetching, Racing
<1>3. SaveUser(ByUser[r])
  BY <1>2 DEF StoreUser
<1>4. /\ AccountsInv' /\ HasUser(ByUser[r])' /\ \A v \in Accts : HasUser(v) => HasUser(v)'
      /\ UNCHANGED <<imported, raced>>
  BY <1>1, <1>2, <1>3, SaveUserKeeps DEF SaveUser
<1>5. Goto(r, "submit") \/ Goto(r, "recheck")
  BY DEF StoreUser
<1>6. RequestInv'
  BY <1>1, <1>4, <1>5, GotoKeeps DEF GateSteps
<1> QED
  BY <1>1, <1>4, <1>6, LimiterStutters DEF GateInv

LEMMA SubmitKeeps ==
  ASSUME GateInv, NEW r \in Requests, OpenProgress(r) \/ SaveSubmission(r)
  PROVE  GateInv'
<1>1. LimiterInv /\ AccountsInv /\ RequestInv /\ UNCHANGED <<limiter, people>> /\ HasUser(ByUser[r])
  BY DEF GateInv, OpenProgress, SaveSubmission, RequestInv, Known
<1>2. AccountsInv'
  <2>1. StartProgress(r) \/ EnterRow(r) \/ UNCHANGED tables
    BY DEF OpenProgress, SaveSubmission
  <2>2. CASE UNCHANGED tables
    BY <1>1, <2>2, AccountsStutters DEF accounts, people
  <2> QED
    BY <1>1, <2>1, <2>2, TablesKeep
<1>3. UNCHANGED <<imported, raced>> /\ \A v \in Accts : HasUser(v)' <=> HasUser(v)
  BY <1>1, UsersAlone DEF people
<1>4. Goto(r, "save") \/ Goto(r, "done") \/ Goto(r, "failed")
  BY DEF OpenProgress, SaveSubmission
<1>5. RequestInv'
  BY <1>1, <1>3, <1>4, RequestTypes, GotoKeeps DEF GateSteps
<1> QED
  BY <1>1, <1>2, <1>5, LimiterStutters DEF GateInv

LEMMA ResendKeeps ==
  ASSUME GateInv, NEW r \in Requests, Resend(r)
  PROVE  GateInv'
<1>1. LimiterInv /\ AccountsInv /\ RequestInv /\ UNCHANGED <<limiter, accounts>>
  BY DEF GateInv, Resend
<1>2. LimiterInv' /\ AccountsInv' /\ UNCHANGED <<imported, raced>>
  BY <1>1, LimiterStutters, AccountsStutters DEF accounts, people
<1>3. \A v \in Accts : HasUser(v)' <=> HasUser(v)
  BY <1>1, AccountsStutters
<1>4. StepTypes'
  BY <1>1 DEF Resend, RequestInv, StepTypes, GateSteps
<1>5. /\ step'[r] = "new"
      /\ \A q \in Requests \ {r} : step'[q] = step[q] /\ fetched'[q] = fetched[q]
  BY <1>1 DEF Resend, RequestInv, StepTypes
<1>6. Fetching'
  BY <1>1, <1>5 DEF RequestInv, Fetching
<1>7. Known'
  BY <1>1, <1>3, <1>5, RequestTypes DEF RequestInv, Known
<1>8. Racing'
  BY <1>1, <1>2, <1>5 DEF RequestInv, Racing
<1> QED
  BY <1>2, <1>4, <1>6, <1>7, <1>8 DEF GateInv, RequestInv

LEMMA GradeKeeps ==
  ASSUME GateInv, NEW r \in Requests, Grade(r)
  PROVE  GateInv'
<1>1. LimiterInv /\ AccountsInv /\ RequestInv /\ UNCHANGED <<limiter, people, step, fetched>>
  BY DEF GateInv, Grade
<1>2. AccountsInv'
  BY <1>1, TablesKeep DEF Grade
<1>3. RequestInv'
  BY <1>1, RequestsAlone DEF HasUser, people
<1> QED
  BY <1>1, <1>2, <1>3, LimiterStutters DEF GateInv

(* The import: whoever is at "identity" or "store" is among the Busy.      *)
LEMMA ImportUsersKeeps ==
  ASSUME GateInv, ImportUsers
  PROVE  GateInv'
<1>1. LimiterInv /\ AccountsInv /\ RequestInv /\ UNCHANGED <<limiter, step, fetched>> /\ Import(Busy)
  BY DEF GateInv, ImportUsers
<1>2. /\ AccountsInv' /\ \A v \in Accts : HasUser(v) => HasUser(v)'
      /\ raced \subseteq raced' /\ Busy \cap imported' \subseteq raced'
  BY <1>1, ImportKeeps
<1>3. \A r \in Requests : step[r] \in {"identity", "store"} => ByUser[r] \in Busy
  BY DEF Busy
<1>4. Racing'
  BY <1>1, <1>2, <1>3 DEF Racing
<1>5. StepTypes' /\ Fetching' /\ Known'
  BY <1>1, <1>2, RequestTypes DEF RequestInv, StepTypes, Fetching, Known
<1> QED
  BY <1>1, <1>2, <1>4, <1>5, LimiterStutters DEF GateInv, RequestInv

LEMMA TimeKeeps ==
  ASSUME GateInv, Time
  PROVE  GateInv'
<1>1. LimiterInv /\ AccountsInv /\ RequestInv /\ Tick /\ UNCHANGED <<accounts, step, fetched>>
  BY DEF GateInv, Time
<1>2. LimiterInv' /\ AccountsInv' /\ \A v \in Accts : HasUser(v)' <=> HasUser(v)
  BY <1>1, TickKeeps, AccountsStutters
<1> QED
  BY <1>1, <1>2, RequestsAlone DEF GateInv, accounts, people

LEMMA GateStutters ==
  ASSUME GateInv, UNCHANGED gateVars
  PROVE  GateInv'
<1>1. LimiterInv /\ AccountsInv /\ RequestInv /\ UNCHANGED <<limiter, accounts, step, fetched>>
  BY DEF GateInv, gateVars
<1>2. LimiterInv' /\ AccountsInv' /\ \A v \in Accts : HasUser(v)' <=> HasUser(v)
  BY <1>1, LimiterStutters, AccountsStutters
<1> QED
  BY <1>1, <1>2, RequestsAlone DEF GateInv, accounts, people

(* The inductive invariant of the gateway.                                 *)
THEOREM GatewayInvariant == GatewaySpec => []GateInv
<1>1. GateInv /\ [GatewayNext]_gateVars => GateInv'
  <2> SUFFICES ASSUME GateInv, [GatewayNext]_gateVars PROVE GateInv'
    OBVIOUS
  <2>1. ASSUME NEW r \in Requests, Handle(r) PROVE GateInv'
    BY <2>1, LimitGradeKeeps, WalkKeeps, AskDjangoKeeps, StoreUserKeeps, SubmitKeeps, ResendKeeps
       DEF Handle
  <2>2. ASSUME NEW r \in Requests, Grade(r) PROVE GateInv'
    BY <2>2, GradeKeeps
  <2> QED
    BY <2>1, <2>2, ImportUsersKeeps, TimeKeeps, GateStutters DEF GatewayNext
<1> QED
  BY <1>1, GateStarts, PTL DEF GatewaySpec

(* Counters, rows and requests have their types at all times; no key is    *)
(* without a time to live, and no two users share an email.                *)
THEOREM GatewayTypes == GatewaySpec => []GatewayTypeOK
<1>1. GateInv => GatewayTypeOK
  BY LimiterSound, AccountsSound DEF GateInv, RequestInv, StepTypes, GatewayTypeOK
<1> QED
  BY <1>1, GatewayInvariant, PTL

(* Whoever waits for Retry-After meets a new window, for any limit, window *)
(* and length of a tick.                                                   *)
THEOREM RetryAfterSafety == GatewaySpec => []RetryAfterCovers
<1>1. GateInv => RetryAfterCovers
  BY LimiterSound DEF GateInv
<1> QED
  BY <1>1, GatewayInvariant, PTL

(* No progress row is without its user, whatever the import, other         *)
(* requests and failing calls do in between.                               *)
THEOREM SubmitterSafety == GatewaySpec => []SubmitterKnown
<1>1. GateInv => SubmitterKnown
  BY AccountsSound DEF GateInv
<1> QED
  BY <1>1, GatewayInvariant, PTL

(* ensureUser overwrites an imported score only in the race that `raced`   *)
(* names.                                                                  *)
THEOREM ImportSafety == GatewaySpec => []ImportKept
<1>1. GateInv => ImportKept
  BY AccountsSound DEF GateInv
<1> QED
  BY <1>1, GatewayInvariant, PTL

(* No leaderboard shows an accepted submission without a solved problem.   *)
THEOREM AcceptedSafety == GatewaySpec => []AcceptedIsSolved
<1>1. GateInv => AcceptedIsSolved
  BY AcceptedCounts DEF GateInv
<1> QED
  BY <1>1, GatewayInvariant, PTL

LEMMA LimiterStill ==
  ASSUME Windows, UNCHANGED limiter
  PROVE  Windows'
<1> SUFFICES ASSUME NEW u \in Users PROVE Within(u)'
  BY DEF Windows
<1> QED
  BY WithinOfOthers DEF limiter

LEMMA GateWithin ==
  ASSUME GateInv, Windows, [GatewayNext]_gateVars
  PROVE  Windows'
<1>1. LimiterInv /\ ByUser \in [Requests -> Users]
  BY AccountsAssumption, GatewayAssumption DEF GateInv
<1>2. ASSUME NEW r \in Requests, LimitGrade(r) PROVE Windows'
  BY <1>1, <1>2, AllowWithin, RefusedWithin DEF LimitGrade
<1>3. CASE Time
  BY <1>1, <1>3, TickWithin DEF Time
<1>4. ASSUME NEW r \in Requests, Handle(r), ~LimitGrade(r) PROVE UNCHANGED limiter
  BY <1>4 DEF Handle, Unauthorized, GradeQuiz, GradeSubmission, LookupUser, AskDjango,
              StoreUser, StoreUserFails, RecheckUser, EnsureUserFails, OpenProgress,
              SaveSubmission, Resend
<1>5. ASSUME ImportUsers \/ (\E r \in Requests : Grade(r)) \/ UNCHANGED gateVars
      PROVE  UNCHANGED limiter
  BY <1>5 DEF ImportUsers, Grade, gateVars
<1> QED
  BY <1>2, <1>3, <1>4, <1>5, LimiterStill DEF GatewayNext

(* In any time of the length of a window no user gets more than twice the  *)
(* limit through, for any limit, any window, and whatever requests and     *)
(* lost replies come in between.                                           *)
THEOREM BurstSafety == GatewaySpec => []BurstBounded
<1>1. GatewayInit => Windows
  BY WindowsStart DEF GatewayInit
<1>2. GateInv /\ Windows /\ [GatewayNext]_gateVars => Windows'
  BY GateWithin
<1>3. GateInv /\ Windows => BurstBounded
  BY WindowsBound DEF GateInv
<1> QED
  BY <1>1, <1>2, <1>3, GatewayInvariant, PTL DEF GatewaySpec

(* The three leaderboards agree on users and totals, for any users,        *)
(* problems and scores: no email is shown twice, and a sum over what is    *)
(* shown of the problems is the sum over the rows.                         *)
THEOREM BoardsSafety == GatewaySpec => []BoardsAgree
<1>1. GateInv => BoardsAgree
  BY BoardsMatch DEF GateInv
<1> QED
  BY <1>1, GatewayInvariant, PTL
=============================================================================
