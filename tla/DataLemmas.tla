----------------------------- MODULE DataLemmas -----------------------------
(***************************************************************************)
(* What the other proofs need to know of their data: least numbers, and    *)
(* the sums that MapThenSumSet adds up over a finite set, for summands     *)
(* given as a function.  The fold is a function of the subsets defined by  *)
(* recursion; that there is such a function, that there is one only, and   *)
(* that it does not matter which member it takes first are proved by a     *)
(* smallest subset for which they would not hold.                          *)
(***************************************************************************)
EXTENDS FiniteSetsExt, FiniteSetTheorems, WellFoundedInduction, TLAPS

LEMMA NatOrder == OpToRel(<, Nat) = {ss \in Nat \X Nat : ss[1] < ss[2]}
BY DEF OpToRel

(* A set of numbers that is not empty has a least one.                     *)
LEMMA LeastNumber ==
  ASSUME NEW S \in SUBSET Nat, S # {}
  PROVE  \E i \in S : \A k \in S : i <= k
<1> DEFINE R == {ss \in Nat \X Nat : ss[1] < ss[2]}
<1>1. IsWellFoundedOn(R, Nat)
  BY NatLessThanWellFounded, NatOrder
<1>2. \A k, i \in Nat : <<k, i>> \notin R => i <= k
  <2> TAKE k \in Nat, i \in Nat
  <2>1. <<k, i>> \notin R => ~(k < i)
    OBVIOUS
  <2> QED
    BY <2>1
<1> HIDE DEF R
<1>3. PICK i \in S : \A k \in S : <<k, i>> \notin R
  BY <1>1, WFMin
<1> QED
  BY <1>2, <1>3

(* Of the subsets that have a property one has no smaller one.             *)
LEMMA SmallestSubset ==
  ASSUME NEW S, IsFiniteSet(S), NEW F \in SUBSET SUBSET S, F # {}
  PROVE  \E T \in F : \A U \in F : U \subseteq T => U = T
<1>1. F \subseteq FiniteSubsetsOf(S)
  BY FS_Subset DEF FiniteSubsetsOf
<1>2. IsWellFoundedOn(StrictSubsetOrdering(S), FiniteSubsetsOf(S))
  BY FS_StrictSubsetOrderingWellFounded
<1>3. PICK T \in F : \A U \in F : ~(<<U, T>> \in StrictSubsetOrdering(S))
  BY <1>1, <1>2, WFMin
<1>4. ASSUME NEW U \in F, U \subseteq T, U # T PROVE FALSE
  BY <1>3, <1>4 DEF StrictSubsetOrdering
<1> QED
  BY <1>4

-----------------------------------------------------------------------------
Total(f, S) == MapThenSumSet(LAMBDA x : f[x], S)

First(S) == CHOOSE x \in S : TRUE

(* sum is the recursive function of the fold, for the subsets of S.        *)
Adds(sum, f, S) ==
  sum = [T \in SUBSET S |-> IF T = {} THEN 0 ELSE f[First(T)] + sum[T \ {First(T)}]]

LEMMA FirstIsMember ==
  ASSUME NEW S, S # {}
  PROVE  First(S) \in S
BY DEF First

(* Two such functions give the same sum where both are defined.            *)
LEMMA SumsAgree ==
  ASSUME NEW f, NEW A, NEW B, NEW g, NEW h, Adds(g, f, A), Adds(h, f, B),
         NEW S, IsFiniteSet(S), S \subseteq A, S \subseteq B
  PROVE  g[S] = h[S]
<1> DEFINE F == {T \in SUBSET S : g[T] # h[T]}
<1> SUFFICES ASSUME F # {} PROVE FALSE
  OBVIOUS
<1>1. PICK T \in F : \A U \in F : U \subseteq T => U = T
  <2>1. F \in SUBSET SUBSET S
    OBVIOUS
  <2> HIDE DEF F
  <2> QED
    BY <2>1, SmallestSubset
<1>2. /\ g[T] = IF T = {} THEN 0 ELSE f[First(T)] + g[T \ {First(T)}]
      /\ h[T] = IF T = {} THEN 0 ELSE f[First(T)] + h[T \ {First(T)}]
  BY DEF Adds
<1>3. T # {}
  BY <1>1, <1>2
<1>4. First(T) \in T
  BY <1>3, FirstIsMember
<1>5. g[T \ {First(T)}] = h[T \ {First(T)}]
  BY <1>1, <1>4
<1> QED
  BY <1>1, <1>2, <1>3, <1>5

LEMMA SumExists ==
  ASSUME NEW f, NEW S, IsFiniteSet(S)
  PROVE  \E sum : Adds(sum, f, S)
<1> DEFINE F == {T \in SUBSET S : ~\E sum : Adds(sum, f, T)}
<1> SUFFICES ASSUME F # {} PROVE FALSE
  OBVIOUS
<1>1. PICK T \in F : \A U \in F : U \subseteq T => U = T
  <2>1. F \in SUBSET SUBSET S
    OBVIOUS
  <2> HIDE DEF F
  <2> QED
    BY <2>1, SmallestSubset
<1> DEFINE G(U) == CHOOSE sum : Adds(sum, f, U)
           g == [U \in SUBSET T |-> IF U = {} THEN 0
                   ELSE f[First(U)] + G(U \ {First(U)})[U \ {First(U)}]]
<1>2. ASSUME NEW U \in SUBSET T, U # T PROVE Adds(G(U), f, U)
  <2>1. \E sum : Adds(sum, f, U)
    BY <1>1, <1>2
  <2> QED
    BY <2>1
<1>3. ASSUME NEW U \in SUBSET T, U # T PROVE g[U] = G(U)[U]
  <2>1. G(U)[U] = IF U = {} THEN 0 ELSE f[First(U)] + G(U)[U \ {First(U)}]
    <3> HIDE DEF G
    <3> QED
      BY <1>2, <1>3 DEF Adds
  <2>2. CASE U = {}
    BY <2>1, <2>2
  <2>3. CASE U # {}
    <3> DEFINE W == U \ {First(U)}
    <3>1. First(U) \in U
      BY <2>3, FirstIsMember
    <3>2. W \in SUBSET T /\ W # T /\ W \subseteq U /\ IsFiniteSet(W)
      BY <3>1, FS_Subset
    <3>3. G(W)[W] = G(U)[W]
      <4>1. Adds(G(W), f, W) /\ Adds(G(U), f, U)
        BY <3>2, <1>2, <1>3
      <4> HIDE DEF G, W
      <4> QED
        BY <4>1, <3>2, SumsAgree
    <3> HIDE DEF G
    <3> QED
      BY <2>1, <2>3, <3>3
  <2> QED
    BY <2>2, <2>3
<1>4. ASSUME NEW U \in SUBSET T, U # {}
      PROVE  g[U] = f[First(U)] + g[U \ {First(U)}]
  <2>1. First(U) \in U
    BY <1>4, FirstIsMember
  <2>2. g[U \ {First(U)}] = G(U \ {First(U)})[U \ {First(U)}]
    <3> HIDE DEF G, g
    <3> QED
      BY <2>1, <1>3
  <2> HIDE DEF G
  <2> QED
    BY <2>2, <1>4
<1>5. Adds(g, f, T)
  <2> SUFFICES g = [U \in SUBSET T |-> IF U = {} THEN 0 ELSE f[First(U)] + g[U \ {First(U)}]]
    BY DEF Adds
  <2>1. g = [U \in SUBSET T |-> g[U]] /\ g[{}] = 0
    <3> HIDE DEF G
    <3> QED
      OBVIOUS
  <2> HIDE DEF g
  <2> QED
    BY <1>4, <2>1
<1> QED
  BY <1>1, <1>5

(* So the fold is that function, whichever set it starts from.             *)
LEMMA TotalIsSum ==
  ASSUME NEW f, NEW S, IsFiniteSet(S)
  PROVE  \E sum : Adds(sum, f, S) /\ Total(f, S) = sum[S]
<1>1. Total(f, S) = (CHOOSE sum : Adds(sum, f, S))[S]
  BY DEF Total, MapThenSumSet, MapThenFoldSet, Adds, First
<1>2. Adds(CHOOSE sum : Adds(sum, f, S), f, S)
  BY SumExists
<1> QED
  BY <1>1, <1>2

LEMMA SumIsTotal ==
  ASSUME NEW f, NEW S, IsFiniteSet(S), NEW sum, Adds(sum, f, S)
  PROVE  sum[S] = Total(f, S)
<1>1. PICK s : Adds(s, f, S) /\ Total(f, S) = s[S]
  BY TotalIsSum
<1> QED
  BY <1>1, SumsAgree

-----------------------------------------------------------------------------
LEMMA TotalOfNone ==
  ASSUME NEW f
  PROVE  Total(f, {}) = 0
<1>1. PICK sum : Adds(sum, f, {}) /\ Total(f, {}) = sum[{}]
  BY TotalIsSum, FS_EmptySet
<1> QED
  BY <1>1 DEF Adds

LEMMA TotalTakesFirst ==
  ASSUME NEW f, NEW S, IsFiniteSet(S), S # {}
  PROVE  Total(f, S) = f[First(S)] + Total(f, S \ {First(S)})
<1> DEFINE R == S \ {First(S)}
<1>1. PICK sum : Adds(sum, f, S) /\ Total(f, S) = sum[S]
  BY TotalIsSum
<1>2. IsFiniteSet(R)
  BY FS_RemoveElement
<1>3. PICK rest : Adds(rest, f, R) /\ Total(f, R) = rest[R]
  BY <1>2, TotalIsSum
<1>4. R \subseteq S
  OBVIOUS
<1>5. sum[R] = rest[R]
  <2> HIDE DEF R
  <2> QED
    BY <1>1, <1>2, <1>3, <1>4, SumsAgree
<1>6. sum[S] = f[First(S)] + sum[R]
  BY <1>1 DEF Adds
<1> QED
  BY <1>1, <1>3, <1>5, <1>6

(* Equal summands have equal sums.                                         *)
LEMMA TotalOfEqual ==
  ASSUME NEW f, NEW g, NEW S, IsFiniteSet(S), \A x \in S : f[x] = g[x]
  PROVE  Total(f, S) = Total(g, S)
<1> DEFINE F == {T \in SUBSET S : Total(f, T) # Total(g, T)}
<1> SUFFICES ASSUME F # {} PROVE FALSE
  OBVIOUS
<1>1. PICK T \in F : \A U \in F : U \subseteq T => U = T
  <2>1. F \in SUBSET SUBSET S
    OBVIOUS
  <2> HIDE DEF F
  <2> QED
    BY <2>1, SmallestSubset
<1>2. T # {}
  BY <1>1, TotalOfNone
<1>3. First(T) \in T /\ IsFiniteSet(T)
  BY <1>2, FirstIsMember, FS_Subset
<1>4. Total(f, T \ {First(T)}) = Total(g, T \ {First(T)})
  BY <1>1, <1>3
<1>5. /\ Total(f, T) = f[First(T)] + Total(f, T \ {First(T)})
      /\ Total(g, T) = g[First(T)] + Total(g, T \ {First(T)})
  BY <1>2, <1>3, TotalTakesFirst
<1> QED
  BY <1>1, <1>3, <1>4, <1>5

LEMMA TotalIsNat ==
  ASSUME NEW f, NEW S, IsFiniteSet(S), \A x \in S : f[x] \in Nat
  PROVE  Total(f, S) \in Nat
<1> DEFINE F == {T \in SUBSET S : Total(f, T) \notin Nat}
<1> SUFFICES ASSUME F # {} PROVE FALSE
  OBVIOUS
<1>1. PICK T \in F : \A U \in F : U \subseteq T => U = T
  <2>1. F \in SUBSET SUBSET S
    OBVIOUS
  <2> HIDE DEF F
  <2> QED
    BY <2>1, SmallestSubset
<1>2. T # {}
  <2>1. Total(f, {}) \in Nat
    BY TotalOfNone
  <2> QED
    BY <1>1, <2>1
<1>3. First(T) \in T /\ IsFiniteSet(T)
  BY <1>2, FirstIsMember, FS_Subset
<1>4. Total(f, T \ {First(T)}) \in Nat
  BY <1>1, <1>3
<1>5. Total(f, T) = f[First(T)] + Total(f, T \ {First(T)})
  BY <1>2, <1>3, TotalTakesFirst
<1> QED
  BY <1>1, <1>3, <1>4, <1>5

(* Any member may be taken out of a sum.                                   *)
LEMMA TotalTakesAny ==
  ASSUME NEW f, NEW S, IsFiniteSet(S), \A x \in S : f[x] \in Nat, NEW m \in S
  PROVE  Total(f, S) = f[m] + Total(f, S \ {m})
<1> DEFINE F == {T \in SUBSET S : \E x \in T : Total(f, T) # f[x] + Total(f, T \ {x})}
<1> SUFFICES ASSUME F # {} PROVE FALSE
  OBVIOUS
<1>1. PICK T \in F : \A U \in F : U \subseteq T => U = T
  <2>1. F \in SUBSET SUBSET S
    OBVIOUS
  <2> HIDE DEF F
  <2> QED
    BY <2>1, SmallestSubset
<1>2. PICK x \in T : Total(f, T) # f[x] + Total(f, T \ {x})
  BY <1>1
<1> DEFINE c == First(T)
           R == (T \ {c}) \ {x}
<1>3. T \subseteq S /\ T # {}
  BY <1>1, <1>2
<1>4. c \in T /\ IsFiniteSet(T)
  BY <1>3, FirstIsMember, FS_Subset
<1>5. Total(f, T) = f[c] + Total(f, T \ {c})
  BY <1>3, <1>4, TotalTakesFirst
<1>6. c # x
  BY <1>2, <1>5
<1>7. ASSUME NEW U \in SUBSET T, U # T, NEW y \in U
      PROVE  Total(f, U) = f[y] + Total(f, U \ {y})
  BY <1>1, <1>3, <1>7
<1> HIDE DEF c
<1>8. Total(f, T \ {c}) = f[x] + Total(f, R)
  BY <1>4, <1>6, <1>7
<1>9. Total(f, T \ {x}) = f[c] + Total(f, R)
  <2>1. (T \ {x}) \ {c} = R
    OBVIOUS
  <2> QED
    BY <1>4, <1>6, <1>7, <2>1
<1>10. f[x] \in Nat /\ f[c] \in Nat /\ Total(f, R) \in Nat
  <2>1. R \subseteq S /\ IsFiniteSet(R)
    BY <1>3, <1>4, FS_Subset
  <2> QED
    BY <1>3, <1>4, <2>1, TotalIsNat
<1> HIDE DEF R
<1> QED
  BY <1>2, <1>5, <1>8, <1>9, <1>10

LEMMA TotalOfOne ==
  ASSUME NEW f, NEW x, f[x] \in Nat
  PROVE  Total(f, {x}) = f[x]
<1>1. IsFiniteSet({x}) /\ First({x}) = x /\ {x} \ {x} = {}
  BY FS_Singleton, FirstIsMember
<1>2. Total(f, {x}) = f[First({x})] + Total(f, {x} \ {First({x})})
  BY <1>1, TotalTakesFirst
<1> QED
  BY <1>1, <1>2, TotalOfNone

(* One summand that is greater by n makes the sum greater by n.            *)
LEMMA TotalRaised ==
  ASSUME NEW f, NEW g, NEW S, IsFiniteSet(S), NEW m \in S, NEW n \in Nat,
         \A x \in S : f[x] \in Nat,
         g[m] = f[m] + n, \A x \in S \ {m} : g[x] = f[x]
  PROVE  Total(g, S) = Total(f, S) + n
<1>1. \A x \in S : g[x] \in Nat
  OBVIOUS
<1>2. Total(f, S) = f[m] + Total(f, S \ {m})
  BY TotalTakesAny
<1>3. Total(g, S) = g[m] + Total(g, S \ {m})
  BY <1>1, TotalTakesAny
<1>4. IsFiniteSet(S \ {m})
  BY FS_RemoveElement
<1>5. Total(g, S \ {m}) = Total(f, S \ {m})
  BY <1>4, TotalOfEqual
<1>6. Total(f, S \ {m}) \in Nat
  BY <1>4, TotalIsNat
<1> QED
  BY <1>2, <1>3, <1>5, <1>6

(* Part of a sum is no more than the whole, and is the whole if the rest   *)
(* is zero.                                                                *)
LEMMA TotalOfPart ==
  ASSUME NEW f, NEW S, IsFiniteSet(S), \A x \in S : f[x] \in Nat, NEW T \in SUBSET S
  PROVE  /\ Total(f, T) <= Total(f, S)
         /\ (\A x \in S \ T : f[x] = 0) => Total(f, T) = Total(f, S)
<1> DEFINE Fine(U) == /\ Total(f, T) <= Total(f, U)
                      /\ (\A x \in S \ T : f[x] = 0) => Total(f, T) = Total(f, U)
           F == {U \in SUBSET S : T \subseteq U /\ ~Fine(U)}
<1> SUFFICES ASSUME F # {} PROVE FALSE
  OBVIOUS
<1>1. PICK W \in F : \A U \in F : U \subseteq W => U = W
  <2>1. F \in SUBSET SUBSET S
    OBVIOUS
  <2> HIDE DEF F
  <2> QED
    BY <2>1, SmallestSubset
<1>2. W \subseteq S /\ T \subseteq W /\ ~Fine(W)
  BY <1>1
<1>3. ASSUME NEW U \in SUBSET S, T \subseteq U PROVE Total(f, U) \in Nat
  <2>1. IsFiniteSet(U)
    BY FS_Subset
  <2> QED
    BY <2>1, TotalIsNat
<1>4. Fine(T)
  BY <1>3
<1>5. PICK x \in W : x \notin T
  BY <1>2, <1>4
<1>6. Fine(W \ {x})
  <2> HIDE DEF Fine
  <2> QED
    BY <1>1, <1>2, <1>5
<1>7. Total(f, W) = f[x] + Total(f, W \ {x})
  <2>1. IsFiniteSet(W)
    BY <1>2, FS_Subset
  <2> QED
    BY <1>2, <2>1, TotalTakesAny
<1>8. Total(f, T) \in Nat /\ Total(f, W \ {x}) \in Nat /\ f[x] \in Nat
  BY <1>2, <1>3, <1>5
<1> QED
  BY <1>2, <1>5, <1>6, <1>7, <1>8

-----------------------------------------------------------------------------
(* Sums over 0..k.                                                         *)

LEMMA TotalToNext ==
  ASSUME NEW f, NEW k \in Nat, \A a \in 0..k + 1 : f[a] \in Nat
  PROVE  Total(f, 0..k + 1) = f[k + 1] + Total(f, 0..k)
<1>1. IsFiniteSet(0..k + 1) /\ k + 1 \in 0..k + 1
  BY FS_Interval
<1>2. (0..k + 1) \ {k + 1} = 0..k
  OBVIOUS
<1>3. Total(f, 0..k + 1) = f[k + 1] + Total(f, (0..k + 1) \ {k + 1})
  BY <1>1, TotalTakesAny
<1> QED
  BY <1>2, <1>3

(* A sum of what has moved one place up is the sum of where it was.        *)
LEMMA TotalShifted ==
  ASSUME NEW f, NEW g, NEW k \in Nat, \A a \in 0..k : f[a] \in Nat,
         g[0] = 0, \A a \in 1..k + 1 : g[a] = f[a - 1]
  PROVE  Total(g, 0..k + 1) = Total(f, 0..k)
<1> DEFINE F == {n \in 0..k : Total(g, 0..n + 1) # Total(f, 0..n)}
<1> SUFFICES ASSUME F # {} PROVE FALSE
  OBVIOUS
<1>1. \A a \in 0..k + 1 : g[a] \in Nat
  OBVIOUS
<1>2. PICK n \in F : \A m \in F : n <= m
  <2>1. F \in SUBSET Nat
    OBVIOUS
  <2> HIDE DEF F
  <2> QED
    BY <2>1, LeastNumber
<1>3. n \in Nat /\ n <= k /\ Total(g, 0..n + 1) # Total(f, 0..n)
  BY <1>2
<1>4. Total(g, 0..n + 1) = f[n] + Total(g, 0..n)
  <2>1. g[n + 1] = f[n]
    BY <1>3
  <2> QED
    BY <1>1, <1>3, <2>1, TotalToNext
<1>5. CASE n = 0
  <2>1. 0..0 = {0} /\ f[0] \in Nat
    BY <1>3
  <2>2. Total(g, {0}) = 0 /\ Total(f, {0}) = f[0]
    BY <2>1, TotalOfOne
  <2> QED
    BY <1>3, <1>4, <1>5, <2>1, <2>2
<1>6. CASE n # 0
  <2> DEFINE m == n - 1
  <2>1. m \in Nat /\ m <= k /\ n = m + 1 /\ m < n
    BY <1>3, <1>6
  <2>2. Total(g, 0..m + 1) = Total(f, 0..m)
    BY <1>2, <1>3, <2>1
  <2>3. Total(f, 0..m + 1) = f[m + 1] + Total(f, 0..m)
    BY <1>3, <2>1, TotalToNext
  <2> QED
    BY <1>3, <1>4, <2>1, <2>2, <2>3
<1> QED
  BY <1>5, <1>6
=============================================================================
