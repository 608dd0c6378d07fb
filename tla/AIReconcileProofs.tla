--------------------------- MODULE AIReconcileProofs ---------------------------
(***************************************************************************)
(* Theorems of AIReconcile for any batches, replies, providers and limits. *)
(* The steps are simple; what has to be shown is about data: loops that    *)
(* go through a slice (folds), sorts, and the filters of a slice.  Each of *)
(* them is first shown to be what it should be for any slice, by the least *)
(* exception there could be.                                               *)
(***************************************************************************)
EXTENDS AIReconcile, FiniteSetTheorems, SequenceTheorems, TLAPS

-----------------------------------------------------------------------------
(* Least exceptions                                                        *)

LEMMA LeastSubset ==
    ASSUME NEW S, IsFiniteSet(S), NEW Bad, Bad \subseteq SUBSET S, Bad # {}
    PROVE  \E T \in Bad : \A U \in Bad : U \subseteq T => U = T
<1>1. FiniteSubsetsOf(S) = SUBSET S
  BY FS_FiniteSubsetsOfFinite
<1>2. IsWellFoundedOn(StrictSubsetOrdering(S), SUBSET S)
  BY <1>1, FS_StrictSubsetOrderingWellFounded
<1>3. PICK T \in Bad : \A U \in Bad : ~ (<<U, T>> \in StrictSubsetOrdering(S))
  BY <1>2, WFMin
<1> QED BY <1>3 DEF StrictSubsetOrdering

LEMMA LeastNat ==
    ASSUME NEW Bad, Bad \subseteq Nat, Bad # {}
    PROVE  \E n \in Bad : \A m \in Bad : n <= m
<1>1. PICK last \in Bad : TRUE
  OBVIOUS
<1> DEFINE S       == 0..last
           UpTill(k) == Bad \cap (0..k)
           Starts  == {UpTill(k) : k \in Bad \cap S}
<1>2. PICK T \in Starts : \A U \in Starts : U \subseteq T => U = T
  <2>1. IsFiniteSet(S)
    BY <1>1, FS_Interval
  <2>2. last \in Bad \cap S
    BY <1>1
  <2>3. \A k \in Bad \cap S : UpTill(k) \subseteq S
    OBVIOUS
  <2> HIDE DEF S, UpTill
  <2>4. Starts \subseteq SUBSET S /\ Starts # {}
    BY <2>2, <2>3
  <2> HIDE DEF Starts
  <2> QED BY <2>1, <2>4, LeastSubset
<1>3. PICK n \in Bad \cap S : T = UpTill(n)
  OBVIOUS
<1>4. ASSUME NEW m \in Bad, m < n PROVE FALSE
  <2>1. UpTill(m) \in Starts /\ UpTill(m) \subseteq T
    BY <1>3, <1>4
  <2>2. UpTill(m) = T
    BY <1>2, <2>1
  <2>3. n \in T /\ n \notin UpTill(m)
    BY <1>3, <1>4
  <2> HIDE DEF UpTill
  <2> QED BY <2>2, <2>3
<1>5. \A m \in Bad : n <= m
  BY <1>4
<1> QED BY <1>3, <1>5

(* What holds at 0 and passes from each number to the next up to n, holds  *)
(* up to n.                                                                *)
LEMMA UpTo ==
    ASSUME NEW n \in Nat, NEW Good, 0 \in Good,
           \A k \in 0..(n - 1) : k \in Good => k + 1 \in Good
    PROVE  \A k \in 0..n : k \in Good
<1> DEFINE Bad == {k \in 0..n : k \notin Good}
<1> SUFFICES ASSUME Bad # {} PROVE FALSE
  OBVIOUS
<1>1. PICK k \in Bad : \A m \in Bad : k <= m
  <2>1. Bad \subseteq Nat
    OBVIOUS
  <2> HIDE DEF Bad
  <2> QED BY <2>1, LeastNat
<1>2. k \in 1..n /\ k \notin Good
  OBVIOUS
<1>3. k - 1 \in 0..(n - 1) /\ ~ (k <= k - 1) /\ (k - 1) + 1 = k
  BY <1>2
<1>4. k - 1 \in Good
  BY <1>1, <1>3
<1> QED BY <1>2, <1>3, <1>4

(* The name keeps the inclusion out of the provers' sight.                 *)
Whole(S) == S \subseteq Int

LEMMA MaxIn ==
    ASSUME NEW S, IsFiniteSet(S), Whole(S), S # {}
    PROVE  Max(S) \in S /\ \A x \in S : x <= Max(S)
<1> SUFFICES \E m \in S : \A x \in S : m >= x
  BY DEF Max
<1> DEFINE Bad == {T \in SUBSET S : T # {} /\ ~ \E m \in T : \A x \in T : m >= x}
<1> SUFFICES ASSUME Bad # {} PROVE FALSE
  OBVIOUS
<1>1. PICK T \in Bad : \A U \in Bad : U \subseteq T => U = T
  <2>1. Bad \subseteq SUBSET S
    OBVIOUS
  <2> HIDE DEF Bad
  <2> QED BY <2>1, LeastSubset
<1>2. PICK x \in T : TRUE
  OBVIOUS
<1>3. x \in Int
  BY <1>2 DEF Whole
<1>4. T \ {x} # {}
  BY <1>2, <1>3
<1>5. PICK m \in T \ {x} : \A y \in T \ {x} : m >= y
  <2>1. T \ {x} \in SUBSET S /\ T \ {x} \subseteq T /\ T \ {x} # T
    BY <1>2
  <2>2. T \ {x} \notin Bad
    <3> HIDE DEF Bad
    <3> QED BY <1>1, <2>1
  <2> QED BY <1>4, <2>1, <2>2
<1>6. T \subseteq Int /\ ~ \E n \in T : \A y \in T : n >= y
  BY DEF Whole
<1>7. CASE x <= m
  BY <1>2, <1>5, <1>6, <1>7
<1>8. CASE ~ (x <= m)
  BY <1>2, <1>5, <1>6, <1>8
<1> QED BY <1>7, <1>8

LEMMA MinIn ==
    ASSUME NEW S, S \subseteq Nat, S # {}
    PROVE  Min(S) \in S /\ \A x \in S : Min(S) <= x
<1>1. \E n \in S : \A m \in S : n <= m
  BY LeastNat
<1> QED BY <1>1 DEF Min

LEMMA MaxOfPrefix ==
    ASSUME NEW n \in Nat \ {0}
    PROVE  Max(1..n) = n /\ (1..n) \ {n} = 1..(n - 1)
<1>1. Max(1..n) \in 1..n /\ \A x \in 1..n : x <= Max(1..n)
  <2>1. IsFiniteSet(1..n)
    BY FS_Interval
  <2>2. Whole(1..n) /\ 1..n # {}
    BY DEF Whole
  <2> QED BY <2>1, <2>2, MaxIn
<1>2. n \in 1..n
  OBVIOUS
<1> QED BY <1>1, <1>2

-----------------------------------------------------------------------------
(* Folds.  A fold takes one element after the other out of a set: pick[s]  *)
(* is the one it takes out of s, F[x, d] what it makes of x and of the     *)
(* result for the rest.                                                    *)

Folded(h, S, pick, F, base) ==
    h = [s \in SUBSET S |-> IF s = {} THEN base ELSE F[<<pick[s], h[s \ {pick[s]}]>>]]

Picks(pick, S) == \A s \in SUBSET S : s # {} => pick[s] \in s

LEMMA FoldedAt ==
    ASSUME NEW S, NEW pick, NEW F, NEW base, NEW h, Folded(h, S, pick, F, base),
           NEW s \in SUBSET S
    PROVE  h[s] = IF s = {} THEN base ELSE F[<<pick[s], h[s \ {pick[s]}]>>]
<1> DEFINE k == [t \in SUBSET S |-> IF t = {} THEN base
                                    ELSE F[<<pick[t], h[t \ {pick[t]}]>>]]
<1>1. h = k
  BY DEF Folded
<1>2. k[s] = IF s = {} THEN base ELSE F[<<pick[s], h[s \ {pick[s]}]>>]
  OBVIOUS
<1> HIDE DEF k
<1> QED BY <1>1, <1>2

LEMMA FoldsAgree ==
    ASSUME NEW S, IsFiniteSet(S), NEW T \in SUBSET S, NEW pick, Picks(pick, S),
           NEW F, NEW base, NEW h, NEW k,
           Folded(h, S, pick, F, base), Folded(k, T, pick, F, base)
    PROVE  \A s \in SUBSET T : h[s] = k[s]
<1> DEFINE Bad == {s \in SUBSET T : h[s] # k[s]}
<1> SUFFICES ASSUME Bad # {} PROVE FALSE
  OBVIOUS
<1>1. IsFiniteSet(T)
  BY FS_Subset
<1>2. PICK s \in Bad : \A u \in Bad : u \subseteq s => u = s
  <2>1. Bad \subseteq SUBSET T
    OBVIOUS
  <2> HIDE DEF Bad
  <2> QED BY <1>1, <2>1, LeastSubset
<1>3. s \in SUBSET S /\ s \in SUBSET T /\ h[s] # k[s]
  OBVIOUS
<1>4. h[s] = IF s = {} THEN base ELSE F[<<pick[s], h[s \ {pick[s]}]>>]
  <2> HIDE DEF Bad
  <2> QED BY <1>3, FoldedAt
<1>5. k[s] = IF s = {} THEN base ELSE F[<<pick[s], k[s \ {pick[s]}]>>]
  <2> HIDE DEF Bad
  <2> QED BY <1>3, FoldedAt
<1>6. s # {}
  BY <1>3, <1>4, <1>5
<1>7. pick[s] \in s
  BY <1>3, <1>6 DEF Picks
<1>8. h[s \ {pick[s]}] = k[s \ {pick[s]}]
  BY <1>2, <1>7
<1> QED BY <1>3, <1>4, <1>5, <1>8

LEMMA FoldExists ==
    ASSUME NEW S, IsFiniteSet(S), NEW pick, Picks(pick, S), NEW F, NEW base
    PROVE  \E h : Folded(h, S, pick, F, base)
<1> DEFINE Bad == {T \in SUBSET S : ~ \E h : Folded(h, T, pick, F, base)}
<1> SUFFICES ASSUME Bad # {} PROVE FALSE
  OBVIOUS
<1>1. PICK T \in Bad : \A U \in Bad : U \subseteq T => U = T
  <2>1. Bad \subseteq SUBSET S
    OBVIOUS
  <2> HIDE DEF Bad
  <2> QED BY <2>1, LeastSubset
<1> DEFINE H(U) == CHOOSE h : Folded(h, U, pick, F, base)
           h    == [s \in SUBSET T |->
                      IF s = {} THEN base
                      ELSE F[<<pick[s], H(s \ {pick[s]})[s \ {pick[s]}]>>]]
<1>2. \A U \in SUBSET T : U # T => Folded(H(U), U, pick, F, base)
  BY <1>1
<1>3. T \in SUBSET S /\ IsFiniteSet(T)
  BY FS_Subset
<1>4. ASSUME NEW s \in SUBSET T, s # {} PROVE pick[s] \in s /\ s \ {pick[s]} \in SUBSET T
  BY <1>3, <1>4 DEF Picks
<1>5. ASSUME NEW s \in SUBSET T, s # T
      PROVE  h[s] = H(s)[s]
  <2>1. Folded(H(s), s, pick, F, base)
    BY <1>2, <1>5
  <2>2. h[s] = IF s = {} THEN base ELSE F[<<pick[s], H(s \ {pick[s]})[s \ {pick[s]}]>>]
    OBVIOUS
  <2> HIDE DEF H, h, Bad
  <2>3. H(s)[s] = IF s = {} THEN base ELSE F[<<pick[s], H(s)[s \ {pick[s]}]>>]
    BY <2>1, FoldedAt
  <2>4. CASE s # {}
    <3>1. pick[s] \in s
      BY <1>4, <2>4
    <3>2. Folded(H(s \ {pick[s]}), s \ {pick[s]}, pick, F, base)
      BY <1>2, <3>1
    <3>3. IsFiniteSet(s) /\ Picks(pick, s) /\ s \ {pick[s]} \in SUBSET s
      BY <1>3, FS_Subset DEF Picks
    <3>4. H(s)[s \ {pick[s]}] = H(s \ {pick[s]})[s \ {pick[s]}]
      BY <2>1, <3>2, <3>3, FoldsAgree
    <3> QED BY <2>2, <2>3, <2>4, <3>4
  <2> QED BY <2>2, <2>3, <2>4
<1>6. ASSUME NEW s \in SUBSET T
      PROVE  h[s] = IF s = {} THEN base ELSE F[<<pick[s], h[s \ {pick[s]}]>>]
  <2>1. h[s] = IF s = {} THEN base ELSE F[<<pick[s], H(s \ {pick[s]})[s \ {pick[s]}]>>]
    OBVIOUS
  <2>2. s # {} => h[s \ {pick[s]}] = H(s \ {pick[s]})[s \ {pick[s]}]
    <3> HIDE DEF h, H, Bad
    <3> QED BY <1>4, <1>5
  <2> HIDE DEF h, H, Bad
  <2> QED BY <2>1, <2>2
<1>7. Folded(h, T, pick, F, base)
  <2>1. h = [s \in SUBSET T |-> h[s]]
    OBVIOUS
  <2> HIDE DEF h, Bad
  <2> QED BY <1>6, <2>1 DEF Folded
<1> QED BY <1>7

(* Every result of a fold is one of the values it works with.              *)
LEMMA FoldTyped ==
    ASSUME NEW S, IsFiniteSet(S), NEW pick, Picks(pick, S), NEW D, NEW base \in D,
           NEW F, \A x \in S : \A d \in D : F[<<x, d>>] \in D,
           NEW h, Folded(h, S, pick, F, base)
    PROVE  \A s \in SUBSET S : h[s] \in D
<1> DEFINE Bad == {s \in SUBSET S : h[s] \notin D}
<1> SUFFICES ASSUME Bad # {} PROVE FALSE
  OBVIOUS
<1>1. PICK s \in Bad : \A u \in Bad : u \subseteq s => u = s
  <2>1. Bad \subseteq SUBSET S
    OBVIOUS
  <2> HIDE DEF Bad
  <2> QED BY <2>1, LeastSubset
<1>2. s \in SUBSET S /\ h[s] \notin D
  OBVIOUS
<1>3. h[s] = IF s = {} THEN base ELSE F[<<pick[s], h[s \ {pick[s]}]>>]
  <2> HIDE DEF Bad
  <2> QED BY <1>2, FoldedAt
<1>4. s # {} /\ pick[s] \in s
  BY <1>2, <1>3 DEF Picks
<1>5. h[s \ {pick[s]}] \in D
  <2>1. s \ {pick[s]} \in SUBSET S /\ s \ {pick[s]} \notin Bad
    BY <1>1, <1>2, <1>4
  <2> QED BY <2>1
<1>6. pick[s] \in S
  BY <1>2, <1>4
<1> QED BY <1>2, <1>3, <1>4, <1>5, <1>6

(* Loops over the positions 1..n of a slice, the last taken out first.     *)
LastOne(n) == [s \in SUBSET (1..n) |-> Max(s)]

Loop(h, n, D, base, F) ==
    /\ h = [s \in SUBSET (1..n) |-> h[s]]
    /\ \A s \in SUBSET (1..n) :
         /\ h[s] \in D
         /\ s # {} => Max(s) \in s /\ s \ {Max(s)} \in SUBSET (1..n)
         /\ h[s] = IF s = {} THEN base ELSE F[<<Max(s), h[s \ {Max(s)}]>>]

LEMMA LoopExists ==
    ASSUME NEW n \in Nat, NEW D, NEW base \in D, NEW F \in [(1..n) \X D -> D]
    PROVE  \E h : Loop(h, n, D, base, F)
<1> DEFINE S == 1..n
           pick == LastOne(n)
<1>1. IsFiniteSet(S)
  BY FS_Interval
<1>2. \A s \in SUBSET S : s # {} => Max(s) \in s
  <2> SUFFICES ASSUME NEW s \in SUBSET S, s # {} PROVE Max(s) \in s
    OBVIOUS
  <2>1. Whole(s)
    BY DEF Whole
  <2> HIDE DEF S
  <2>2. IsFiniteSet(s)
    BY <1>1, FS_Subset
  <2> QED BY <2>1, <2>2, MaxIn
<1>3. \A s \in SUBSET S : pick[s] = Max(s)
  BY DEF LastOne
<1> HIDE DEF S, pick
<1>4. Picks(pick, S)
  BY <1>2, <1>3 DEF Picks
<1>5. PICK h : Folded(h, S, pick, F, base)
  BY <1>1, <1>4, FoldExists
<1>6. \A x \in S : \A d \in D : F[<<x, d>>] \in D
  BY DEF S
<1>7. \A s \in SUBSET S : h[s] \in D
  BY <1>1, <1>4, <1>5, <1>6, FoldTyped
<1>8. \A s \in SUBSET S : h[s] = IF s = {} THEN base ELSE F[<<Max(s), h[s \ {Max(s)}]>>]
  BY <1>3, <1>5, FoldedAt
<1>9. h = [s \in SUBSET S |-> h[s]]
  BY <1>5 DEF Folded
<1>10. \A s \in SUBSET S : s # {} => Max(s) \in s /\ s \ {Max(s)} \in SUBSET S
  BY <1>2
<1> QED BY <1>7, <1>8, <1>9, <1>10 DEF S, Loop

-----------------------------------------------------------------------------
(* Sorts.  In a total order on a finite set every element has a rank of    *)
(* its own, and the ranks are 0, 1, 2 and so on.                           *)

Orders(R, S) ==
    /\ \A x \in S : <<x, x>> \notin R
    /\ \A x, y \in S : x # y => <<x, y>> \in R \/ <<y, x>> \in R
    /\ \A x, y, z \in S : <<x, y>> \in R /\ <<y, z>> \in R => <<x, z>> \in R

Below(R, S, x) == {y \in S : <<y, x>> \in R}

InOrder(P, R, S) ==
    /\ DOMAIN P = 1..Cardinality(S)
    /\ \A k \in DOMAIN P : P[k] \in S
    /\ \A x \in S : \E k \in DOMAIN P : P[k] = x
    /\ \A j, k \in DOMAIN P : j < k => <<P[j], P[k]>> \in R
    /\ \A j, k \in DOMAIN P : P[j] = P[k] => j = k

LEMMA RanksDiffer ==
    ASSUME NEW S, IsFiniteSet(S), NEW R, Orders(R, S)
    PROVE  /\ \A x \in S : Cardinality(Below(R, S, x)) \in 0..(Cardinality(S) - 1)
           /\ \A x, y \in S : <<x, y>> \in R =>
                 Cardinality(Below(R, S, x)) < Cardinality(Below(R, S, y))
<1>0. Cardinality(S) \in Nat
  BY FS_CardinalityType
<1>1. \A x \in S : /\ IsFiniteSet(Below(R, S, x))
                   /\ Cardinality(Below(R, S, x)) \in Nat
  <2> SUFFICES ASSUME NEW x \in S
               PROVE  /\ IsFiniteSet(Below(R, S, x))
                      /\ Cardinality(Below(R, S, x)) \in Nat
    OBVIOUS
  <2>1. Below(R, S, x) \in SUBSET S
    BY DEF Below
  <2> QED BY <2>1, FS_Subset, FS_CardinalityType
<1>2. ASSUME NEW x \in S
      PROVE  Cardinality(Below(R, S, x)) \in 0..(Cardinality(S) - 1)
  <2>1. Below(R, S, x) \in SUBSET S /\ x \notin Below(R, S, x)
    BY DEF Below, Orders
  <2>2. Cardinality(Below(R, S, x)) <= Cardinality(S) /\ Cardinality(S) # Cardinality(Below(R, S, x))
    BY <2>1, FS_Subset
  <2> QED BY <1>0, <1>1, <2>2
<1>3. ASSUME NEW x \in S, NEW y \in S, <<x, y>> \in R
      PROVE  Cardinality(Below(R, S, x)) < Cardinality(Below(R, S, y))
  <2>1. Below(R, S, x) \in SUBSET Below(R, S, y)
    BY <1>3 DEF Below, Orders
  <2>2. x \in Below(R, S, y) /\ x \notin Below(R, S, x)
    BY <1>3 DEF Below, Orders
  <2>3. /\ Cardinality(Below(R, S, x)) <= Cardinality(Below(R, S, y))
        /\ Cardinality(Below(R, S, y)) # Cardinality(Below(R, S, x))
    BY <1>1, <2>1, <2>2, FS_Subset
  <2> QED BY <1>1, <2>3
<1> QED BY <1>2, <1>3

LEMMA RanksAll ==
    ASSUME NEW S, IsFiniteSet(S), NEW R, Orders(R, S)
    PROVE  \A k \in 1..Cardinality(S) : \E x \in S : Cardinality(Below(R, S, x)) = k - 1
<1> DEFINE n == Cardinality(S)
           rank == [x \in S |-> Cardinality(Below(R, S, x))]
           T == 0..(n - 1)
<1>1. n \in Nat
  BY FS_CardinalityType
<1>2. IsFiniteSet(T) /\ Cardinality(T) = n
  <2>1. 0 \in Int /\ n - 1 \in Int
    BY <1>1
  <2>2. IsFiniteSet(T) /\ Cardinality(T) = IF 0 > n - 1 THEN 0 ELSE (n - 1) - 0 + 1
    BY <2>1, FS_Interval
  <2> HIDE DEF T
  <2> QED BY <1>1, <2>2
<1>3. rank \in Injection(S, T)
  <2>1. rank \in [S -> T]
    BY RanksDiffer
  <2>2. \A x, y \in S : x # y => rank[x] # rank[y]
    <3> SUFFICES ASSUME NEW x \in S, NEW y \in S, x # y PROVE rank[x] # rank[y]
      OBVIOUS
    <3>1. rank[x] \in Int /\ rank[y] \in Int
      BY <1>1, <2>1
    <3>2. rank[x] < rank[y] \/ rank[y] < rank[x]
      BY RanksDiffer DEF Orders
    <3> HIDE DEF rank
    <3> QED BY <3>1, <3>2
  <2> HIDE DEF rank, T
  <2> QED BY <2>1, <2>2 DEF Injection, IsInjective
<1>4. rank \in Surjection(S, T)
  <2> HIDE DEF rank, T, n
  <2>1. Cardinality(S) = Cardinality(T)
    BY <1>2 DEF n
  <2> QED BY <1>2, <1>3, <2>1, FS_Injection
<1>5. ASSUME NEW k \in 1..n PROVE \E x \in S : rank[x] = k - 1
  <2>1. k - 1 \in T
    BY <1>1
  <2> HIDE DEF rank, T, n
  <2> QED BY <1>4, <2>1 DEF Surjection
<1> QED BY <1>5

LEMMA RankedInOrder ==
    ASSUME NEW S, IsFiniteSet(S), NEW R, Orders(R, S), NEW P,
           DOMAIN P = 1..Cardinality(S),
           \A k \in DOMAIN P :
               (\E x \in S : Cardinality(Below(R, S, x)) = k - 1) =>
                   P[k] \in S /\ Cardinality(Below(R, S, P[k])) = k - 1
    PROVE  InOrder(P, R, S)
<1> DEFINE n == Cardinality(S)
           rank(x) == Cardinality(Below(R, S, x))
<1>1. n \in Nat
  BY FS_CardinalityType
<1>2. \A k \in 1..n : P[k] \in S /\ rank(P[k]) = k - 1
  BY RanksAll
<1>3. DOMAIN P = 1..n
  OBVIOUS
<1>4. /\ \A x \in S : rank(x) \in 0..(n - 1)
      /\ \A x, y \in S : <<x, y>> \in R => rank(x) < rank(y)
  BY RanksDiffer
<1> HIDE DEF n, rank
<1>5. \A x, y \in S : rank(x) = rank(y) => x = y
  <2> SUFFICES ASSUME NEW x \in S, NEW y \in S, rank(x) = rank(y), x # y PROVE FALSE
    OBVIOUS
  <2>1. rank(x) \in Int /\ rank(y) \in Int
    BY <1>1, <1>4
  <2>2. rank(x) < rank(y) \/ rank(y) < rank(x)
    BY <1>4 DEF Orders
  <2> QED BY <2>1, <2>2
<1>6. ASSUME NEW x \in S PROVE \E k \in 1..n : P[k] = x
  <2>1. rank(x) + 1 \in 1..n /\ (rank(x) + 1) - 1 = rank(x)
    BY <1>1, <1>4
  <2> QED BY <1>2, <1>5, <2>1
<1>7. ASSUME NEW j \in 1..n, NEW k \in 1..n, j < k PROVE <<P[j], P[k]>> \in R
  <2>1. P[j] \in S /\ P[k] \in S /\ rank(P[j]) = j - 1 /\ rank(P[k]) = k - 1
    BY <1>2
  <2>2. j - 1 < k - 1 /\ ~ (k - 1 < j - 1) /\ j - 1 # k - 1
    BY <1>7
  <2>3. P[j] # P[k] /\ <<P[k], P[j]>> \notin R
    BY <1>4, <2>1, <2>2
  <2> QED BY <2>1, <2>3 DEF Orders
<1>8. ASSUME NEW j \in 1..n, NEW k \in 1..n, P[j] = P[k] PROVE j = k
  <2>1. j - 1 = k - 1
    BY <1>2, <1>8
  <2> QED BY <2>1
<1> QED BY <1>2, <1>3, <1>6, <1>7, <1>8 DEF InOrder, n

(* The numbers of a set of positions, from the least to the greatest.      *)
Enumerates(P, S) ==
    /\ DOMAIN P = 1..Cardinality(S)
    /\ \A k \in DOMAIN P : P[k] \in S
    /\ \A x \in S : \E k \in DOMAIN P : P[k] = x
    /\ \A j, k \in DOMAIN P : P[j] = P[k] => j = k

LEMMA AscendingInOrder ==
    ASSUME NEW S, IsFiniteSet(S), S \subseteq Nat
    PROVE  Enumerates(Ascending(S), S)
<1> DEFINE R == {p \in S \X S : p[1] < p[2]}
           P == Ascending(S)
<1>1. \A x, y \in S : <<x, y>> \in R <=> x < y
  OBVIOUS
<1>2. Orders(R, S)
  <2> HIDE DEF R
  <2> QED BY <1>1 DEF Orders
<1>3. \A x \in S : Below(R, S, x) = {y \in S : y < x}
  <2> HIDE DEF R
  <2> QED BY <1>1 DEF Below
<1>4. P = [k \in 1..Cardinality(S) |->
             CHOOSE x \in S : Cardinality({y \in S : y < x}) = k - 1]
  BY DEF Ascending, Ranked
<1> HIDE DEF R, P
<1>5. ASSUME NEW k \in 1..Cardinality(S),
             \E x \in S : Cardinality(Below(R, S, x)) = k - 1
      PROVE  P[k] \in S /\ Cardinality(Below(R, S, P[k])) = k - 1
  <2>1. \E x \in S : Cardinality({y \in S : y < x}) = k - 1
    BY <1>3, <1>5
  <2>2. P[k] \in S /\ Cardinality({y \in S : y < P[k]}) = k - 1
    BY <1>4, <2>1
  <2> QED BY <1>3, <2>2
<1>6. InOrder(P, R, S)
  <2>1. DOMAIN P = 1..Cardinality(S)
    BY <1>4
  <2> QED BY <1>2, <1>5, <2>1, RankedInOrder
<1>7. P = Ascending(S)
  BY DEF P
<1> QED BY <1>6, <1>7 DEF InOrder, Enumerates

Lex(x, y, i, u, v, j) == \/ x < u
                         \/ x = u /\ y < v
                         \/ x = u /\ y = v /\ i < j

LEMMA LexOrders ==
    /\ \A x, y, i \in Int : ~Lex(x, y, i, x, y, i)
    /\ \A x, y, i, u, v, j \in Int : i # j => Lex(x, y, i, u, v, j) \/ Lex(u, v, j, x, y, i)
    /\ \A x, y, i, u, v, j, z, w, k \in Int :
         Lex(x, y, i, u, v, j) /\ Lex(u, v, j, z, w, k) => Lex(x, y, i, z, w, k)
BY DEF Lex

LEMMA LexicographicOrders ==
    ASSUME NEW n \in Nat, NEW a \in [1..n -> Int], NEW b \in [1..n -> Int], NEW R,
           \A i, j \in 1..n : <<i, j>> \in R <=> Lex(a[i], b[i], i, a[j], b[j], j)
    PROVE  Orders(R, 1..n)
<1>1. \A i \in 1..n : a[i] \in Int /\ b[i] \in Int /\ i \in Int
  OBVIOUS
<1>2. \A i \in 1..n : <<i, i>> \notin R
  BY <1>1, LexOrders
<1>3. \A i, j \in 1..n : i # j => <<i, j>> \in R \/ <<j, i>> \in R
  BY <1>1, LexOrders
<1>4. \A i, j, k \in 1..n : <<i, j>> \in R /\ <<j, k>> \in R => <<i, k>> \in R
  BY <1>1, LexOrders
<1> QED BY <1>2, <1>3, <1>4 DEF Orders

LEMMA SeverityRanks == \A s : severityRank(s) \in 1..4
BY DEF severityRank

(* s has the elements of list, each once, in the places o says.            *)
Rearranges(s, list, o) ==
    /\ DOMAIN o = DOMAIN list
    /\ \A k \in DOMAIN list : o[k] \in DOMAIN list
    /\ \A i \in DOMAIN list : \E k \in DOMAIN list : o[k] = i
    /\ \A j, k \in DOMAIN list : o[j] = o[k] => j = k
    /\ s = [k \in DOMAIN list |-> list[o[k]]]

LEMMA SortedBySeverity ==
    ASSUME NEW list, NEW n \in Nat, DOMAIN list = 1..n,
           \A k \in 1..n : list[k].row \in Int
    PROVE  \E o : /\ Rearranges(SortStably(list, BySeverity), list, o)
                  /\ \A j, k \in 1..n :
                       j < k => severityRank(list[o[j]].severity) >= severityRank(list[o[k]].severity)
<1> DEFINE a == [k \in 1..n |-> 0 - severityRank(list[k].severity)]
           b == [k \in 1..n |-> list[k].row]
           R == {p \in (1..n) \X (1..n) :
                   \/ BySeverity(list[p[1]], list[p[2]])
                   \/ ~BySeverity(list[p[2]], list[p[1]]) /\ p[1] < p[2]}
           o == [k \in 1..Cardinality(1..n) |->
                   CHOOSE x \in 1..n : Cardinality({y \in 1..n :
                       \/ BySeverity(list[y], list[x])
                       \/ ~BySeverity(list[x], list[y]) /\ y < x}) = k - 1]
<1>1. SortStably(list, BySeverity) = [k \in DOMAIN list |-> list[o[k]]]
  BY DEF SortStably, Ranked
<1>2. a \in [1..n -> Int] /\ b \in [1..n -> Int]
  BY SeverityRanks
<1>3. \A i, j \in 1..n : <<i, j>> \in R <=> \/ BySeverity(list[i], list[j])
                                            \/ ~BySeverity(list[j], list[i]) /\ i < j
  OBVIOUS
<1>4. \A x \in 1..n : Below(R, 1..n, x) = {y \in 1..n :
                       \/ BySeverity(list[y], list[x])
                       \/ ~BySeverity(list[x], list[y]) /\ y < x}
  <2> HIDE DEF R
  <2> QED BY <1>3 DEF Below
<1>5. \A i, j \in 1..n : <<i, j>> \in R <=> Lex(a[i], b[i], i, a[j], b[j], j)
  <2> HIDE DEF R
  <2> SUFFICES ASSUME NEW i \in 1..n, NEW j \in 1..n
               PROVE  <<i, j>> \in R <=> Lex(a[i], b[i], i, a[j], b[j], j)
    OBVIOUS
  <2> DEFINE si == severityRank(list[i].severity)
             sj == severityRank(list[j].severity)
             ri == list[i].row
             rj == list[j].row
  <2>1. si \in Int /\ sj \in Int /\ ri \in Int /\ rj \in Int
    BY SeverityRanks
  <2>2. a[i] = 0 - si /\ a[j] = 0 - sj /\ b[i] = ri /\ b[j] = rj
    OBVIOUS
  <2>3. /\ BySeverity(list[i], list[j]) <=> si > sj \/ (si = sj /\ ri < rj)
        /\ BySeverity(list[j], list[i]) <=> sj > si \/ (sj = si /\ rj < ri)
    BY DEF BySeverity
  <2>4. <<i, j>> \in R <=> \/ BySeverity(list[i], list[j])
                           \/ ~BySeverity(list[j], list[i]) /\ i < j
    BY <1>3
  <2> HIDE DEF si, sj, ri, rj, a, b
  <2> QED BY <2>1, <2>2, <2>3, <2>4 DEF Lex
<1> HIDE DEF R, o
<1>6. Orders(R, 1..n)
  <2> HIDE DEF a, b
  <2> QED BY <1>2, <1>5, LexicographicOrders
<1>7. IsFiniteSet(1..n) /\ Cardinality(1..n) = n
  BY FS_Interval
<1>8. DOMAIN o = 1..Cardinality(1..n)
  BY DEF o
<1>9. ASSUME NEW k \in 1..Cardinality(1..n),
             \E x \in 1..n : Cardinality(Below(R, 1..n, x)) = k - 1
      PROVE  o[k] \in 1..n /\ Cardinality(Below(R, 1..n, o[k])) = k - 1
  <2>1. \E x \in 1..n : Cardinality({y \in 1..n :
                       \/ BySeverity(list[y], list[x])
                       \/ ~BySeverity(list[x], list[y]) /\ y < x}) = k - 1
    BY <1>4, <1>9
  <2>2. /\ o[k] \in 1..n
        /\ Cardinality({y \in 1..n :
                       \/ BySeverity(list[y], list[o[k]])
                       \/ ~BySeverity(list[o[k]], list[y]) /\ y < o[k]}) = k - 1
    BY <2>1 DEF o
  <2> QED BY <1>4, <2>2
<1>10. InOrder(o, R, 1..n)
  <2> HIDE DEF a, b
  <2> QED BY <1>6, <1>7, <1>8, <1>9, RankedInOrder
<1>11. Rearranges(SortStably(list, BySeverity), list, o)
  BY <1>1, <1>7, <1>10 DEF InOrder, Rearranges
<1>12. ASSUME NEW j \in 1..n, NEW k \in 1..n, j < k
       PROVE  severityRank(list[o[j]].severity) >= severityRank(list[o[k]].severity)
  <2>1. o[j] \in 1..n /\ o[k] \in 1..n /\ <<o[j], o[k]>> \in R
    BY <1>7, <1>10, <1>12 DEF InOrder
  <2>2. a[o[j]] <= a[o[k]]
    <3> HIDE DEF a, b
    <3>1. /\ a[o[j]] \in Int /\ b[o[j]] \in Int /\ o[j] \in Int
          /\ a[o[k]] \in Int /\ b[o[k]] \in Int /\ o[k] \in Int
      BY <1>2, <2>1
    <3>2. Lex(a[o[j]], b[o[j]], o[j], a[o[k]], b[o[k]], o[k])
      BY <1>5, <2>1
    <3>3. \A x, y, i, u, v, m \in Int : Lex(x, y, i, u, v, m) => x <= u
      BY DEF Lex
    <3> QED BY <3>1, <3>2, <3>3
  <2>3. \A x \in 1..4, y \in 1..4 : 0 - x <= 0 - y => x >= y
    OBVIOUS
  <2> QED BY <2>1, <2>2, <2>3, SeverityRanks
<1> QED BY <1>11, <1>12

LEMMA SortedByRow ==
    ASSUME NEW list, NEW n \in Nat, DOMAIN list = 1..n,
           \A k \in 1..n : list[k].row \in Int
    PROVE  \E o : Rearranges(SortStably(list, ByRow), list, o)
<1> DEFINE a == [k \in 1..n |-> list[k].row]
           b == [k \in 1..n |-> 0 - severityRank(list[k].severity)]
           R == {p \in (1..n) \X (1..n) :
                   \/ ByRow(list[p[1]], list[p[2]])
                   \/ ~ByRow(list[p[2]], list[p[1]]) /\ p[1] < p[2]}
           o == [k \in 1..Cardinality(1..n) |->
                   CHOOSE x \in 1..n : Cardinality({y \in 1..n :
                       \/ ByRow(list[y], list[x])
                       \/ ~ByRow(list[x], list[y]) /\ y < x}) = k - 1]
<1>1. SortStably(list, ByRow) = [k \in DOMAIN list |-> list[o[k]]]
  BY DEF SortStably, Ranked
<1>2. a \in [1..n -> Int] /\ b \in [1..n -> Int]
  BY SeverityRanks
<1>3. \A i, j \in 1..n : <<i, j>> \in R <=> \/ ByRow(list[i], list[j])
                                            \/ ~ByRow(list[j], list[i]) /\ i < j
  OBVIOUS
<1>4. \A x \in 1..n : Below(R, 1..n, x) = {y \in 1..n :
                       \/ ByRow(list[y], list[x])
                       \/ ~ByRow(list[x], list[y]) /\ y < x}
  <2> HIDE DEF R
  <2> QED BY <1>3 DEF Below
<1>5. \A i, j \in 1..n : <<i, j>> \in R <=> Lex(a[i], b[i], i, a[j], b[j], j)
  <2> HIDE DEF R
  <2> SUFFICES ASSUME NEW i \in 1..n, NEW j \in 1..n
               PROVE  <<i, j>> \in R <=> Lex(a[i], b[i], i, a[j], b[j], j)
    OBVIOUS
  <2> DEFINE si == severityRank(list[i].severity)
             sj == severityRank(list[j].severity)
             ri == list[i].row
             rj == list[j].row
  <2>1. si \in Int /\ sj \in Int /\ ri \in Int /\ rj \in Int
    BY SeverityRanks
  <2>2. a[i] = ri /\ a[j] = rj /\ b[i] = 0 - si /\ b[j] = 0 - sj
    OBVIOUS
  <2>3. /\ ByRow(list[i], list[j]) <=> ri < rj \/ (ri = rj /\ si > sj)
        /\ ByRow(list[j], list[i]) <=> rj < ri \/ (rj = ri /\ sj > si)
    BY DEF ByRow
  <2>4. <<i, j>> \in R <=> \/ ByRow(list[i], list[j])
                           \/ ~ByRow(list[j], list[i]) /\ i < j
    BY <1>3
  <2> HIDE DEF si, sj, ri, rj, a, b
  <2> QED BY <2>1, <2>2, <2>3, <2>4 DEF Lex
<1> HIDE DEF R, o
<1>6. Orders(R, 1..n)
  <2> HIDE DEF a, b
  <2> QED BY <1>2, <1>5, LexicographicOrders
<1>7. IsFiniteSet(1..n) /\ Cardinality(1..n) = n
  BY FS_Interval
<1>8. DOMAIN o = 1..Cardinality(1..n)
  BY DEF o
<1>9. ASSUME NEW k \in 1..Cardinality(1..n),
             \E x \in 1..n : Cardinality(Below(R, 1..n, x)) = k - 1
      PROVE  o[k] \in 1..n /\ Cardinality(Below(R, 1..n, o[k])) = k - 1
  <2>1. \E x \in 1..n : Cardinality({y \in 1..n :
                       \/ ByRow(list[y], list[x])
                       \/ ~ByRow(list[x], list[y]) /\ y < x}) = k - 1
    BY <1>4, <1>9
  <2>2. /\ o[k] \in 1..n
        /\ Cardinality({y \in 1..n :
                       \/ ByRow(list[y], list[o[k]])
                       \/ ~ByRow(list[o[k]], list[y]) /\ y < o[k]}) = k - 1
    BY <2>1 DEF o
  <2> QED BY <1>4, <2>2
<1>10. InOrder(o, R, 1..n)
  <2> HIDE DEF a, b
  <2> QED BY <1>6, <1>7, <1>8, <1>9, RankedInOrder
<1>11. Rearranges(SortStably(list, ByRow), list, o)
  BY <1>1, <1>7, <1>10 DEF InOrder, Rearranges
<1> QED BY <1>11

-----------------------------------------------------------------------------
(* Matching: no finding of the AI is taken twice.                          *)

Findings(list) == IsList(list) /\ \A k \in DOMAIN list : list[k].row \in Int

LEMMA ListDomain ==
    ASSUME NEW s, IsList(s)
    PROVE  Len(s) \in Nat /\ DOMAIN s = 1..Len(s)
BY LenProperties DEF IsList

LEMMA EmptyList == IsList(<<>>) /\ Findings(<<>>) /\ Len(<<>>) = 0 /\ DOMAIN <<>> = {}
<1>1. <<>> \in Seq(ToSet(<<>>)) /\ Len(<<>>) = 0
  OBVIOUS
<1>2. DOMAIN <<>> = {}
  OBVIOUS
<1> QED BY <1>1, <1>2 DEF IsList, Findings

LEMMA BestMatch ==
    ASSUME NEW f, NEW ai, NEW m \in Nat, DOMAIN ai = 1..m, NEW used
    PROVE  LET r == bestAIMatch(f, ai, used)
           IN  /\ r \in 0..m
               /\ r # 0 => r \notin used /\ MatchScore(f, ai[r]) >= 6
<1> DEFINE good == {i \in Unused(ai, used) : /\ MatchScore(f, ai[i]) >= 6
                     /\ \A j \in Unused(ai, used) : MatchScore(f, ai[j]) <= MatchScore(f, ai[i])}
           r == bestAIMatch(f, ai, used)
<1>1. r = IF good = {} THEN 0 ELSE Min(good)
  BY DEF bestAIMatch
<1>2. good \subseteq 1..m /\ \A i \in good : i \notin used /\ MatchScore(f, ai[i]) >= 6
  BY DEF Unused
<1> HIDE DEF good
<1>3. good # {} => Min(good) \in good
  <2>1. good \subseteq Nat
    BY <1>2
  <2> QED BY <2>1, MinIn
<1>4. r = 0 \/ r \in good
  BY <1>1, <1>3
<1> HIDE DEF r
<1>6. r \in 0..m /\ (r # 0 => r \notin used /\ MatchScore(f, ai[r]) >= 6)
  <2>1. CASE r = 0
    BY <2>1
  <2>2. CASE r \in good
    <3>1. r \in 1..m /\ r \notin used /\ MatchScore(f, ai[r]) >= 6
      BY <1>2, <2>2
    <3> QED BY <3>1
  <2> QED BY <1>4, <2>1, <2>2
<1> QED BY <1>6 DEF r

MatchFold(h, backend, ai) ==
    h = [s \in SUBSET DOMAIN backend |->
           IF s = {} THEN <<>>
           ELSE Append(h[s \ {Max(s)}],
                       bestAIMatch(backend[Max(s)], ai, ToSet(h[s \ {Max(s)}])))]

LEMMA MatchesIsFold ==
    ASSUME NEW backend, NEW ai
    PROVE  Matches(backend, ai) = (CHOOSE h : MatchFold(h, backend, ai))[DOMAIN backend]
BY DEF Matches, FoldLeft, MapThenFoldSet, MatchFold

LEMMA MatchFoldExists ==
    ASSUME NEW backend, NEW n \in Nat, DOMAIN backend = 1..n,
           NEW ai, NEW m \in Nat, DOMAIN ai = 1..m
    PROVE  \E h : MatchFold(h, backend, ai)
<1> DEFINE D == Seq(0..m)
           Take(x, d) == Append(d, bestAIMatch(backend[x], ai, ToSet(d)))
           F == [p \in (1..n) \X D |-> Take(p[1], p[2])]
<1>1. \A x : \A d \in D : Take(x, d) \in D
  BY BestMatch
<1>2. F \in [(1..n) \X D -> D]
  <2> HIDE DEF Take, D
  <2> QED BY <1>1
<1>3. \A x \in 1..n : \A d \in D : F[<<x, d>>] = Take(x, d)
  <2> HIDE DEF Take, D
  <2> QED OBVIOUS
<1>4. <<>> \in D
  OBVIOUS
<1> HIDE DEF D, F, Take
<1>5. PICK h : Loop(h, n, D, <<>>, F)
  BY <1>2, <1>4, LoopExists
<1>6. /\ h = [s \in SUBSET (1..n) |-> h[s]]
      /\ \A s \in SUBSET (1..n) :
           /\ h[s] \in D
           /\ s # {} => Max(s) \in s /\ s \ {Max(s)} \in SUBSET (1..n)
           /\ h[s] = IF s = {} THEN <<>> ELSE F[<<Max(s), h[s \ {Max(s)}]>>]
  BY <1>5 DEF Loop
<1>7. ASSUME NEW s \in SUBSET (1..n)
      PROVE  h[s] = IF s = {} THEN <<>> ELSE Take(Max(s), h[s \ {Max(s)}])
  <2>1. CASE s = {}
    BY <1>6, <2>1
  <2>2. CASE s # {}
    <3>1. Max(s) \in 1..n /\ h[s \ {Max(s)}] \in D /\ h[s] = F[<<Max(s), h[s \ {Max(s)}]>>]
      BY <1>6, <2>2
    <3> QED BY <1>3, <2>2, <3>1
  <2> QED BY <2>1, <2>2
<1>8. h = [s \in SUBSET (1..n) |-> IF s = {} THEN <<>> ELSE Take(Max(s), h[s \ {Max(s)}])]
  BY <1>6, <1>7
<1>9. MatchFold(h, backend, ai)
  BY <1>8 DEF MatchFold, Take
<1> QED BY <1>9

(* What the backend's findings up to the k-th have taken.                  *)
Taken(t, backend, ai, k) ==
    /\ t \in Seq(0..Len(ai)) /\ Len(t) = k
    /\ \A i \in 1..k : t[i] # 0 => MatchScore(backend[i], ai[t[i]]) >= 6
    /\ \A i, j \in 1..k : t[i] # 0 /\ t[i] = t[j] => i = j

LEMMA TakeOneMore ==
    ASSUME NEW backend, NEW ai, IsList(ai), NEW k \in Nat, NEW t, Taken(t, backend, ai, k)
    PROVE  Taken(Append(t, bestAIMatch(backend[k + 1], ai, ToSet(t))), backend, ai, k + 1)
<1> DEFINE m == Len(ai)
           r == bestAIMatch(backend[k + 1], ai, ToSet(t))
           u == Append(t, r)
<1>1. m \in Nat /\ DOMAIN ai = 1..m
  BY ListDomain
<1>2. r \in 0..m /\ (r # 0 => r \notin ToSet(t) /\ MatchScore(backend[k + 1], ai[r]) >= 6)
  BY <1>1, BestMatch
<1>3. t \in Seq(0..m) /\ Len(t) = k
  BY DEF Taken
<1> HIDE DEF r, m
<1>4. /\ u \in Seq(0..m) /\ Len(u) = k + 1 /\ u[k + 1] = r
      /\ \A i \in 1..k : u[i] = t[i]
  BY <1>2, <1>3
<1>5. \A i \in 1..k : t[i] \in ToSet(t)
  BY <1>3 DEF ToSet
<1> HIDE DEF u
<1>6. \A i \in 1..(k + 1) : u[i] # 0 => MatchScore(backend[i], ai[u[i]]) >= 6
  <2> SUFFICES ASSUME NEW i \in 1..(k + 1), u[i] # 0
               PROVE  MatchScore(backend[i], ai[u[i]]) >= 6
    OBVIOUS
  <2>1. CASE i = k + 1
    BY <1>2, <1>4, <2>1
  <2>2. CASE i \in 1..k
    BY <1>4, <2>2 DEF Taken
  <2> QED BY <2>1, <2>2
<1>7. ASSUME NEW i \in 1..(k + 1), NEW j \in 1..(k + 1), u[i] # 0, u[i] = u[j]
      PROVE  i = j
  <2>1. CASE i \in 1..k /\ j \in 1..k
    BY <1>4, <1>7, <2>1 DEF Taken
  <2>2. CASE i = k + 1 /\ j \in 1..k
    BY <1>2, <1>4, <1>5, <1>7, <2>2
  <2>3. CASE i \in 1..k /\ j = k + 1
    BY <1>2, <1>4, <1>5, <1>7, <2>3
  <2> QED BY <2>1, <2>2, <2>3
<1>8. Taken(u, backend, ai, k + 1)
  BY <1>4, <1>6, <1>7 DEF Taken, m
<1> QED BY <1>8 DEF u, r

LEMMA MatchesTaken ==
    ASSUME NEW backend, IsList(backend), NEW ai, IsList(ai)
    PROVE  Taken(Matches(backend, ai), backend, ai, Len(backend))
<1> DEFINE n == Len(backend)
           h == CHOOSE j : MatchFold(j, backend, ai)
<1>1. n \in Nat /\ DOMAIN backend = 1..n /\ Len(ai) \in Nat /\ DOMAIN ai = 1..Len(ai)
  BY ListDomain
<1>2. MatchFold(h, backend, ai)
  BY <1>1, MatchFoldExists
<1>3. Matches(backend, ai) = h[1..n]
  BY <1>1, MatchesIsFold
<1> HIDE DEF n, h
<1>4. \A s \in SUBSET (1..n) :
         h[s] = IF s = {} THEN <<>>
                ELSE Append(h[s \ {Max(s)}],
                            bestAIMatch(backend[Max(s)], ai, ToSet(h[s \ {Max(s)}])))
  <2> DEFINE g == [s \in SUBSET (1..n) |->
                     IF s = {} THEN <<>>
                     ELSE Append(h[s \ {Max(s)}],
                            bestAIMatch(backend[Max(s)], ai, ToSet(h[s \ {Max(s)}])))]
  <2>1. h = g
    BY <1>1, <1>2 DEF MatchFold
  <2>2. \A s \in SUBSET (1..n) :
         g[s] = IF s = {} THEN <<>>
                ELSE Append(h[s \ {Max(s)}],
                            bestAIMatch(backend[Max(s)], ai, ToSet(h[s \ {Max(s)}])))
    OBVIOUS
  <2> HIDE DEF g
  <2> QED BY <2>1, <2>2
<1> DEFINE Good == {k \in 0..n : Taken(h[1..k], backend, ai, k)}
<1>5. 0 \in Good
  <2>1. 1..0 = {} /\ {} \in SUBSET (1..n)
    OBVIOUS
  <2>2. h[1..0] = <<>>
    BY <1>4, <2>1
  <2>3. Taken(<<>>, backend, ai, 0)
    BY <1>1 DEF Taken
  <2> QED BY <1>1, <2>2, <2>3
<1>6. ASSUME NEW k \in 0..(n - 1), k \in Good PROVE k + 1 \in Good
  <2>1. Max(1..(k + 1)) = k + 1 /\ (1..(k + 1)) \ {k + 1} = 1..k
    <3>1. k + 1 \in Nat \ {0} /\ (k + 1) - 1 = k
      OBVIOUS
    <3> QED BY <3>1, MaxOfPrefix
  <2>2. 1..(k + 1) \in SUBSET (1..n) /\ 1..(k + 1) # {}
    <3>1. k + 1 <= n /\ k + 1 \in 1..(k + 1) /\ k \in Int
      BY <1>1
    <3> HIDE DEF Good
    <3>2. \A i \in 1..(k + 1) : i \in 1..n
      BY <1>1, <3>1
    <3> QED BY <3>1, <3>2
  <2>3. h[1..(k + 1)] = Append(h[1..k], bestAIMatch(backend[k + 1], ai, ToSet(h[1..k])))
    BY <1>4, <2>1, <2>2
  <2>4. Taken(h[1..(k + 1)], backend, ai, k + 1)
    BY <1>6, <2>3, TakeOneMore
  <2> QED BY <1>1, <2>4
<1>7. n \in Good
  <2> HIDE DEF Good
  <2> QED BY <1>1, <1>5, <1>6, UpTo
<1> QED BY <1>3, <1>7 DEF n

-----------------------------------------------------------------------------
(* The unified list, before and after it is sorted.                        *)

(* Every finding is in the list, and whatever is in the list is right:     *)
(* the property EachFindingOnce, of any two lists of findings.             *)
OnceEach(list, ours, ai) ==
    /\ \A b \in DOMAIN ours : \E i \in DOMAIN list :
         list[i].ours = b /\ \A j \in DOMAIN list : list[j].ours = b => j = i
    /\ \A a \in DOMAIN ai : \E i \in DOMAIN list :
         list[i].theirs = a /\ \A j \in DOMAIN list : list[j].theirs = a => j = i

Fair(f, ours, ai) ==
    /\ f.row \in Int
    /\ f.ours \in 0..Len(ours) /\ f.theirs \in 0..Len(ai)
    /\ f.ours > 0 => severityRank(f.severity) >= severityRank(ours[f.ours].severity)
    /\ f.theirs > 0 => severityRank(f.severity) >= severityRank(ai[f.theirs].severity)
    /\ f.theirs > 0 /\ f.ours > 0 =>
         \/ sameRow(ours[f.ours], ai[f.theirs])
         \/ tokenOverlap(ours[f.ours], ai[f.theirs])

LEMMA MaxSeverity ==
    \A a, b : /\ severityRank(maxSeverity(a, b)) >= severityRank(a)
              /\ severityRank(maxSeverity(a, b)) >= severityRank(b)
<1> SUFFICES ASSUME NEW a, NEW b
             PROVE  /\ severityRank(maxSeverity(a, b)) >= severityRank(a)
                    /\ severityRank(maxSeverity(a, b)) >= severityRank(b)
  OBVIOUS
<1>1. severityRank(a) \in Int /\ severityRank(b) \in Int
  BY SeverityRanks
<1> QED BY <1>1 DEF maxSeverity

LEMMA GoodScore ==
    ASSUME NEW f, NEW g, MatchScore(f, g) >= 6
    PROVE  sameRow(f, g) \/ tokenOverlap(f, g)
<1>1. ~ (0 >= 6)
  OBVIOUS
<1> QED BY <1>1, Zenon DEF MatchScore

(* What the AI alone has found.                                            *)
Rest(ours, ai) == {i \in DOMAIN ai : i \notin ToSet(Matches(ours, ai))}

(* The finding at place k: first the backend's, then what the AI alone     *)
(* has.                                                                    *)
Both(k, match, ours, ai) ==
    IF match[k] = 0
      THEN [row |-> ours[k].row, severity |-> ours[k].severity, ours |-> k, theirs |-> 0]
      ELSE [row      |-> chooseRow(ours[k].row, ai[match[k]].row),
            severity |-> maxSeverity(ours[k].severity, ai[match[k]].severity),
            ours     |-> k, theirs |-> match[k]]

Theirs(i, ai) == [row |-> ai[i].row, severity |-> ai[i].severity, ours |-> 0, theirs |-> i]

UnifiedIs(list, match, alone, c, ours, ai) ==
    /\ DOMAIN list = 1..(Len(ours) + c)
    /\ \A k \in 1..Len(ours) : list[k] = Both(k, match, ours, ai)
    /\ \A k \in 1..c : list[Len(ours) + k] = Theirs(alone[k], ai)

LEMMA RestFinite ==
    ASSUME NEW ours, NEW ai, IsList(ai)
    PROVE  IsFiniteSet(Rest(ours, ai)) /\ Rest(ours, ai) \subseteq Nat
           /\ Cardinality(Rest(ours, ai)) \in Nat
<1>1. Len(ai) \in Nat /\ DOMAIN ai = 1..Len(ai)
  BY ListDomain
<1>2. IsFiniteSet(1..Len(ai)) /\ Rest(ours, ai) \in SUBSET (1..Len(ai))
  BY <1>1, FS_Interval DEF Rest
<1>3. Rest(ours, ai) \subseteq Nat
  BY <1>2
<1> QED BY <1>2, <1>3, FS_Subset, FS_CardinalityType

LEMMA UnifiedParts ==
    ASSUME NEW ours, Findings(ours), NEW ai, Findings(ai)
    PROVE  UnifiedIs(Unified(ours, ai), Matches(ours, ai), Ascending(Rest(ours, ai)),
                     Cardinality(Rest(ours, ai)), ours, ai)
<1> DEFINE match == Matches(ours, ai)
           rest  == Rest(ours, ai)
           alone == Ascending(rest)
           n     == Len(ours)
           c     == Cardinality(rest)
           s == [k \in DOMAIN ours |-> Both(k, match, ours, ai)]
           t == [k \in DOMAIN alone |-> Theirs(alone[k], ai)]
<1>1. Unified(ours, ai) = s \o t
  BY DEF Unified, Both, Theirs, Rest
<1>2. n \in Nat /\ DOMAIN ours = 1..n /\ IsList(ai)
  BY ListDomain DEF Findings
<1>3. IsFiniteSet(rest) /\ rest \subseteq Nat /\ c \in Nat
  BY <1>2, RestFinite
<1>4. DOMAIN alone = 1..c
  BY <1>3, AscendingInOrder DEF Enumerates
<1> HIDE DEF match, rest, alone, n, c
<1> DEFINE Q == {Both(k, match, ours, ai) : k \in 1..n} \cup {Theirs(alone[k], ai) : k \in 1..c}
<1>5. s \in Seq(Q) /\ Len(s) = n /\ t \in Seq(Q) /\ Len(t) = c
  BY <1>2, <1>3, <1>4
<1>6. /\ \A k \in 1..n : s[k] = Both(k, match, ours, ai)
      /\ \A k \in 1..c : t[k] = Theirs(alone[k], ai)
  BY <1>2, <1>4
<1> HIDE DEF s, t, Q
<1>7. /\ s \o t \in Seq(Q)
      /\ Len(s \o t) = n + c
      /\ \A i \in 1..(n + c) : (s \o t)[i] = IF i <= n THEN s[i] ELSE t[i - n]
  BY <1>5, ConcatProperties
<1>8. DOMAIN (s \o t) = 1..(n + c)
  BY <1>7, LenProperties
<1>9. \A k \in 1..n : (s \o t)[k] = Both(k, match, ours, ai)
  BY <1>2, <1>3, <1>6, <1>7
<1>10. \A k \in 1..c : (s \o t)[n + k] = Theirs(alone[k], ai)
  <2> SUFFICES ASSUME NEW k \in 1..c PROVE (s \o t)[n + k] = Theirs(alone[k], ai)
    OBVIOUS
  <2>1. n + k \in 1..(n + c) /\ ~ (n + k <= n) /\ (n + k) - n = k
    BY <1>2, <1>3
  <2> QED BY <1>6, <1>7, <2>1
<1>11. UnifiedIs(s \o t, match, alone, c, ours, ai)
  BY <1>8, <1>9, <1>10 DEF UnifiedIs, n
<1> QED BY <1>1, <1>11 DEF match, rest, alone, c

LEMMA UnifiedFair ==
    ASSUME NEW ours, Findings(ours), NEW ai, Findings(ai)
    PROVE  LET list == Unified(ours, ai)
           IN  /\ \E L \in Nat : DOMAIN list = 1..L
               /\ OnceEach(list, ours, ai)
               /\ \A k \in DOMAIN list : Fair(list[k], ours, ai)
<1> DEFINE list  == Unified(ours, ai)
           match == Matches(ours, ai)
           rest  == Rest(ours, ai)
           alone == Ascending(rest)
           n     == Len(ours)
           m     == Len(ai)
           c     == Cardinality(rest)
<1>2. /\ n \in Nat /\ DOMAIN ours = 1..n
      /\ m \in Nat /\ DOMAIN ai = 1..m
      /\ IsList(ours) /\ IsList(ai)
  BY ListDomain DEF Findings
<1>0. IsFiniteSet(rest) /\ rest \subseteq Nat /\ c \in Nat
  BY <1>2, RestFinite
<1>1. UnifiedIs(list, match, alone, c, ours, ai)
  BY UnifiedParts
<1>3. Taken(match, ours, ai, n)
  BY <1>2, MatchesTaken
<1>4. /\ \A k \in 1..c : alone[k] \in rest
      /\ \A x \in rest : \E k \in 1..c : alone[k] = x
      /\ \A j, k \in 1..c : alone[j] = alone[k] => j = k
  <2> HIDE DEF rest, alone
  <2>1. Enumerates(alone, rest)
    BY <1>0, AscendingInOrder DEF alone
  <2> QED BY <2>1 DEF Enumerates
<1>7. match \in Seq(0..m) /\ Len(match) = n /\ \A k \in 1..n : match[k] \in 0..m
  <2> HIDE DEF match, n, m
  <2> QED BY <1>3, ElementOfSeq DEF Taken, m
<1>5. \A x \in rest : x \in 1..m /\ \A k \in 1..n : match[k] # x
  <2>1. \A k \in 1..n : match[k] \in ToSet(match)
    BY <1>7 DEF ToSet
  <2> QED BY <1>2, <2>1 DEF Rest
<1>6. \A x \in 1..m : x \in rest \/ \E k \in 1..n : match[k] = x
  BY <1>2, <1>7 DEF ToSet, Rest
<1> HIDE DEF list, match, rest, alone, n, m, c
<1>21. /\ \A k \in 1..n : list[k] = Both(k, match, ours, ai)
       /\ \A k \in 1..c : list[n + k] = Theirs(alone[k], ai)
       /\ DOMAIN list = 1..(n + c)
  BY <1>1 DEF UnifiedIs, n
<1>8. /\ \A k \in 1..n : list[k].ours = k /\ list[k].theirs = match[k]
      /\ \A k \in 1..c : list[n + k].ours = 0 /\ list[n + k].theirs = alone[k]
  <2>1. ASSUME NEW k PROVE Both(k, match, ours, ai).ours = k
                           /\ Both(k, match, ours, ai).theirs = match[k]
    BY DEF Both
  <2>2. \A a : Theirs(a, ai).ours = 0 /\ Theirs(a, ai).theirs = a
    BY DEF Theirs
  <2> QED BY <1>21, <2>1, <2>2
<1>9. \A i \in 1..(n + c) : i \in 1..n \/ \E k \in 1..c : i = n + k
  <2> SUFFICES ASSUME NEW i \in 1..(n + c), i \notin 1..n
               PROVE  \E k \in 1..c : i = n + k
    OBVIOUS
  <2>1. i - n \in 1..c /\ i = n + (i - n)
    BY <1>0, <1>2
  <2> QED BY <2>1
<1>10. /\ \A k \in 1..n : k \in 1..(n + c) /\ k > 0
       /\ \A k \in 1..c : n + k \in 1..(n + c)
  BY <1>0, <1>2
<1>11. ASSUME NEW b \in 1..n
       PROVE  \E i \in 1..(n + c) :
                 list[i].ours = b /\ \A j \in 1..(n + c) : list[j].ours = b => j = i
  <2>1. \A j \in 1..(n + c) : list[j].ours = b => j = b
    <3> SUFFICES ASSUME NEW j \in 1..(n + c), list[j].ours = b PROVE j = b
      OBVIOUS
    <3>1. b # 0
      OBVIOUS
    <3> QED BY <1>8, <1>9, <3>1
  <2> QED BY <1>8, <1>10, <2>1
<1>12. ASSUME NEW a \in 1..m
       PROVE  \E i \in 1..(n + c) :
                 list[i].theirs = a /\ \A j \in 1..(n + c) : list[j].theirs = a => j = i
  <2>1. CASE a \in rest
    <3>1. PICK k \in 1..c : alone[k] = a
      BY <1>4, <2>1
    <3>2. list[n + k].theirs = a
      BY <1>8, <3>1
    <3>3. ASSUME NEW j \in 1..(n + c), list[j].theirs = a PROVE j = n + k
      <4>1. j \notin 1..n
        BY <1>5, <1>8, <2>1, <3>3
      <4>2. PICK l \in 1..c : j = n + l
        BY <1>9, <4>1
      <4>3. alone[l] = alone[k]
        BY <1>8, <3>1, <3>3, <4>2
      <4> QED BY <1>4, <4>2, <4>3
    <3> QED BY <1>10, <3>2, <3>3
  <2>2. CASE a \notin rest
    <3>1. PICK k \in 1..n : match[k] = a
      BY <1>6, <2>2
    <3>2. list[k].theirs = a
      BY <1>8, <3>1
    <3>3. ASSUME NEW j \in 1..(n + c), list[j].theirs = a PROVE j = k
      <4>1. ASSUME NEW l \in 1..c, j = n + l PROVE FALSE
        <5>1. alone[l] = a
          BY <1>8, <3>3, <4>1
        <5> QED BY <1>4, <2>2, <5>1
      <4>2. j \in 1..n
        BY <1>9, <4>1
      <4>3. match[j] = a /\ match[k] = a
        BY <1>8, <3>1, <3>3, <4>2
      <4>4. a # 0
        OBVIOUS
      <4> QED BY <1>3, <4>2, <4>3, <4>4 DEF Taken
    <3> QED BY <1>10, <3>2, <3>3
  <2> QED BY <2>1, <2>2
<1>13. OnceEach(list, ours, ai)
  <2>1. DOMAIN list = 1..(n + c) /\ DOMAIN ours = 1..n /\ DOMAIN ai = 1..m
    BY <1>2, <1>21
  <2>2. \A b \in DOMAIN ours : \E i \in DOMAIN list :
            list[i].ours = b /\ \A j \in DOMAIN list : list[j].ours = b => j = i
    BY <1>11, <2>1
  <2>3. \A a \in DOMAIN ai : \E i \in DOMAIN list :
            list[i].theirs = a /\ \A j \in DOMAIN list : list[j].theirs = a => j = i
    BY <1>12, <2>1
  <2> QED BY <2>2, <2>3 DEF OnceEach
<1>14. /\ \A k \in 1..n : ours[k].row \in Int
       /\ \A k \in 1..m : ai[k].row \in Int
  BY <1>2 DEF Findings
<1>15. ASSUME NEW k \in 1..n, match[k] = 0 PROVE Fair(list[k], ours, ai)
  <2>1. list[k] = [row |-> ours[k].row, severity |-> ours[k].severity, ours |-> k, theirs |-> 0]
    BY <1>15, <1>21 DEF Both
  <2>2. severityRank(ours[k].severity) >= severityRank(ours[k].severity)
    BY SeverityRanks
  <2>3. /\ list[k].row \in Int /\ list[k].ours = k /\ list[k].theirs = 0
        /\ list[k].severity = ours[k].severity
    BY <1>14, <2>1
  <2>4. k \in 0..n /\ 0 \in 0..m /\ ~ (0 > 0)
    BY <1>2
  <2> QED BY <2>2, <2>3, <2>4 DEF Fair, n, m
<1>16. ASSUME NEW k \in 1..n, match[k] # 0 PROVE Fair(list[k], ours, ai)
  <2> DEFINE a == match[k]
  <2>1. list[k] = [row      |-> chooseRow(ours[k].row, ai[a].row),
                   severity |-> maxSeverity(ours[k].severity, ai[a].severity),
                   ours     |-> k, theirs |-> a]
    BY <1>16, <1>21 DEF Both
  <2>2. a \in 1..m /\ MatchScore(ours[k], ai[a]) >= 6
    <3>1. a \in 0..m
      BY <1>7
    <3>2. MatchScore(ours[k], ai[a]) >= 6
      BY <1>3, <1>16 DEF Taken
    <3> QED BY <1>2, <1>16, <3>1, <3>2
  <2> HIDE DEF a
  <2>3. /\ list[k].row = chooseRow(ours[k].row, ai[a].row) /\ list[k].ours = k /\ list[k].theirs = a
        /\ list[k].severity = maxSeverity(ours[k].severity, ai[a].severity)
    BY <2>1
  <2>4. list[k].row \in Int
    BY <1>14, <2>2, <2>3 DEF chooseRow
  <2>5. k \in 0..n /\ a \in 0..m
    BY <1>2, <2>2
  <2>6. sameRow(ours[k], ai[a]) \/ tokenOverlap(ours[k], ai[a])
    BY <2>2, GoodScore
  <2> QED BY <2>3, <2>4, <2>5, <2>6, MaxSeverity DEF Fair, n, m
<1>17. ASSUME NEW k \in 1..c PROVE Fair(list[n + k], ours, ai)
  <2> DEFINE a == alone[k]
             f == list[n + k]
  <2>1. f = [row |-> ai[a].row, severity |-> ai[a].severity, ours |-> 0, theirs |-> a]
    BY <1>21 DEF Theirs
  <2>2. a \in 1..m
    BY <1>4, <1>5
  <2> HIDE DEF a, f
  <2>3. f.row \in Int /\ f.ours = 0 /\ f.theirs = a /\ f.severity = ai[a].severity
    BY <1>14, <2>1, <2>2
  <2>4. severityRank(ai[a].severity) >= severityRank(ai[a].severity)
    BY SeverityRanks
  <2>5. a \in 0..m /\ 0 \in 0..n /\ ~ (0 > 0)
    BY <1>2, <2>2
  <2>6. Fair(f, ours, ai)
    BY <2>3, <2>4, <2>5 DEF Fair, n, m
  <2> QED BY <2>6 DEF f
<1>18. \A k \in DOMAIN list : Fair(list[k], ours, ai)
  BY <1>9, <1>15, <1>16, <1>17, <1>21
<1>19. n + c \in Nat /\ DOMAIN list = 1..(n + c)
  BY <1>0, <1>2, <1>21
<1> QED BY <1>13, <1>18, <1>19 DEF list

LEMMA FunctionIsList ==
    ASSUME NEW s, NEW n \in Nat, s = [k \in 1..n |-> s[k]]
    PROVE  IsList(s) /\ Len(s) = n
<1> DEFINE Q == {s[k] : k \in 1..n}
<1>1. DOMAIN s = 1..n
  OBVIOUS
<1>2. ToSet(s) = Q
  BY <1>1 DEF ToSet
<1>3. s \in [1..n -> Q]
  OBVIOUS
<1> HIDE DEF Q
<1>4. s \in Seq(Q)
  BY <1>3
<1>5. Len(s) \in Nat /\ DOMAIN s = 1..Len(s)
  BY <1>4, LenProperties
<1>6. \A i, j \in Nat : 1..i = 1..j => i = j
  <2> SUFFICES ASSUME NEW i \in Nat, NEW j \in Nat, 1..i = 1..j PROVE i = j
    OBVIOUS
  <2>1. i # 0 => i \in 1..j
    OBVIOUS
  <2>2. j # 0 => j \in 1..i
    OBVIOUS
  <2> QED BY <2>1, <2>2
<1>7. Len(s) = n
  BY <1>1, <1>5, <1>6
<1> QED BY <1>2, <1>4, <1>7 DEF IsList

(* The list of a report: reconcileFile, for any two lists of findings.     *)
Reported(list, ours, ai) ==
    /\ IsList(list)
    /\ OnceEach(list, ours, ai)
    /\ \A k \in DOMAIN list : Fair(list[k], ours, ai)
    /\ \A j, k \in DOMAIN list :
         j < k => severityRank(list[j].severity) >= severityRank(list[k].severity)

LEMMA SortedIsReported ==
    ASSUME NEW ours, Findings(ours), NEW ai, Findings(ai)
    PROVE  Reported(sortUnifiedFindings(Unified(ours, ai)), ours, ai)
<1> DEFINE u    == Unified(ours, ai)
           list == sortUnifiedFindings(u)
<1>1. PICK L \in Nat : DOMAIN u = 1..L
  BY UnifiedFair
<1>2. OnceEach(u, ours, ai) /\ \A k \in 1..L : Fair(u[k], ours, ai)
  BY <1>1, UnifiedFair
<1> HIDE DEF u
<1>3. \A k \in 1..L : u[k].row \in Int
  BY <1>2 DEF Fair
<1>4. PICK o : /\ Rearranges(SortStably(u, BySeverity), u, o)
               /\ \A j, k \in 1..L :
                    j < k => severityRank(u[o[j]].severity) >= severityRank(u[o[k]].severity)
  BY <1>1, <1>3, SortedBySeverity
<1>5. list = [k \in 1..L |-> u[o[k]]]
  BY <1>1, <1>4 DEF Rearranges, sortUnifiedFindings
<1>6. /\ \A k \in 1..L : o[k] \in 1..L
      /\ \A i \in 1..L : \E k \in 1..L : o[k] = i
      /\ \A j, k \in 1..L : o[j] = o[k] => j = k
  BY <1>1, <1>4 DEF Rearranges
<1> HIDE DEF list
<1>7. DOMAIN list = 1..L /\ \A k \in 1..L : list[k] = u[o[k]]
  BY <1>5
<1>8. IsList(list)
  <2>1. list = [k \in 1..L |-> list[k]]
    BY <1>5, <1>7
  <2> QED BY <2>1, FunctionIsList
<1>9. \A b \in DOMAIN ours : \E i \in 1..L :
         list[i].ours = b /\ \A j \in 1..L : list[j].ours = b => j = i
  <2> SUFFICES ASSUME NEW b \in DOMAIN ours
               PROVE  \E i \in 1..L :
                         list[i].ours = b /\ \A j \in 1..L : list[j].ours = b => j = i
    OBVIOUS
  <2>1. PICK x \in 1..L : u[x].ours = b /\ \A y \in 1..L : u[y].ours = b => y = x
    BY <1>1, <1>2 DEF OnceEach
  <2>2. PICK i \in 1..L : o[i] = x
    BY <1>6
  <2>3. list[i].ours = b
    BY <1>7, <2>1, <2>2
  <2>4. ASSUME NEW j \in 1..L, list[j].ours = b PROVE j = i
    <3>1. o[j] \in 1..L /\ list[j] = u[o[j]]
      BY <1>6, <1>7
    <3>2. u[o[j]].ours = b
      BY <2>4, <3>1
    <3>3. o[j] = x
      BY <2>1, <3>1, <3>2
    <3> QED BY <1>6, <2>2, <3>3
  <2> QED BY <2>3, <2>4
<1>10. \A a \in DOMAIN ai : \E i \in 1..L :
         list[i].theirs = a /\ \A j \in 1..L : list[j].theirs = a => j = i
  <2> SUFFICES ASSUME NEW a \in DOMAIN ai
               PROVE  \E i \in 1..L :
                         list[i].theirs = a /\ \A j \in 1..L : list[j].theirs = a => j = i
    OBVIOUS
  <2>1. PICK x \in 1..L : u[x].theirs = a /\ \A y \in 1..L : u[y].theirs = a => y = x
    BY <1>1, <1>2 DEF OnceEach
  <2>2. PICK i \in 1..L : o[i] = x
    BY <1>6
  <2>3. list[i].theirs = a
    BY <1>7, <2>1, <2>2
  <2>4. ASSUME NEW j \in 1..L, list[j].theirs = a PROVE j = i
    <3>1. o[j] \in 1..L /\ list[j] = u[o[j]]
      BY <1>6, <1>7
    <3>2. u[o[j]].theirs = a
      BY <2>4, <3>1
    <3>3. o[j] = x
      BY <2>1, <3>1, <3>2
    <3> QED BY <1>6, <2>2, <3>3
  <2> QED BY <2>3, <2>4
<1>11. OnceEach(list, ours, ai)
  <2>1. DOMAIN list = 1..L
    BY <1>7
  <2> QED BY ONLY <1>9, <1>10, <2>1 DEF OnceEach
<1>12. \A k \in DOMAIN list : Fair(list[k], ours, ai)
  BY <1>2, <1>6, <1>7
<1>13. \A j, k \in DOMAIN list :
         j < k => severityRank(list[j].severity) >= severityRank(list[k].severity)
  BY <1>4, <1>7
<1>14. Reported(list, ours, ai)
  BY <1>8, <1>11, <1>12, <1>13 DEF Reported
<1> QED BY <1>14 DEF list, u

-----------------------------------------------------------------------------
(* Agreement.                                                              *)

LEMMA RoundedBounds ==
    ASSUME NEW n \in Nat, NEW d \in Nat \ {0}
    PROVE  /\ Rounded(n, d) \in Nat
           /\ (Rounded(n, d) - 1) * d < n
           /\ \A q \in Nat : n <= q * d => Rounded(n, d) <= q
<1> DEFINE r == Rounded(n, d)
<1>1. r = (2 * n + d) \div (2 * d)
  BY DEF Rounded
<1>2. 2 * n + d \in Nat /\ 2 * d \in Nat \ {0}
  OBVIOUS
<1>3. \A a \in Nat, b \in Nat \ {0} : a \div b \in Nat /\ (a \div b) * b <= a
  OBVIOUS
<1>4. r \in Nat /\ r * (2 * d) <= 2 * n + d
  BY <1>1, <1>2, <1>3
<1> HIDE DEF r
<1>5. r * (2 * d) = 2 * (r * d) /\ (r - 1) * d = r * d - d
  BY <1>4
<1>6. (r - 1) * d < n
  <2> DEFINE x == r * d
  <2>1. x \in Int
    BY <1>4
  <2>2. 2 * x <= 2 * n + d /\ (r - 1) * d = x - d
    BY <1>4, <1>5
  <2> HIDE DEF x
  <2> QED BY <2>1, <2>2
<1>7. ASSUME NEW q \in Nat, n <= q * d, ~ (r <= q) PROVE FALSE
  <2>1. r >= q + 1
    BY <1>4, <1>7
  <2>2. r - (q + 1) \in Nat
    BY <1>4, <2>1
  <2>3. \A x, y \in Nat : x * y >= 0
    OBVIOUS
  <2>4. (r - (q + 1)) * d >= 0
    BY <2>2, <2>3
  <2>5. (r - (q + 1)) * d = (r - 1) * d - q * d
    BY <1>4
  <2>6. (r - 1) * d \in Int /\ q * d \in Int
    BY <1>4
  <2> QED BY <1>6, <1>7, <2>4, <2>5, <2>6
<1>8. r \in Nat /\ (r - 1) * d < n /\ \A q \in Nat : n <= q * d => r <= q
  BY <1>4, <1>6, <1>7
<1> QED BY <1>8 DEF r

-----------------------------------------------------------------------------
(* Merging the answers for a file.                                         *)

LEMMA TwoNumbers ==
    ASSUME NEW a \in Int, NEW b \in Int
    PROVE  /\ Max({a, b}) = IF a >= b THEN a ELSE b
           /\ Min({a, b}) = IF a <= b THEN a ELSE b
<1>1. \E x \in {a, b} : \A y \in {a, b} : x >= y
  <2>1. CASE a >= b
    BY <2>1
  <2>2. CASE ~ (a >= b)
    BY <2>2
  <2> QED BY <2>1, <2>2
<1>2. \E x \in {a, b} : \A y \in {a, b} : x <= y
  <2>1. CASE a <= b
    BY <2>1
  <2>2. CASE ~ (a <= b)
    BY <2>2
  <2> QED BY <2>1, <2>2
<1>3. Max({a, b}) \in {a, b} /\ \A y \in {a, b} : Max({a, b}) >= y
  BY <1>1 DEF Max
<1>4. Min({a, b}) \in {a, b} /\ \A y \in {a, b} : Min({a, b}) <= y
  BY <1>2 DEF Min
<1> QED BY <1>3, <1>4

LEMMA AtLeast0Natural == \A n \in Int : AtLeast0(n) \in Nat
BY TwoNumbers DEF AtLeast0

(* The highest of the risks of a list, and of base.                        *)
RiskFold(h, base, list) ==
    h = [s \in SUBSET DOMAIN list |->
           IF s = {} THEN base ELSE higherRiskLevel(h[s \ {Max(s)}], list[Max(s)].risk)]

Highest(base, list) == (CHOOSE h : RiskFold(h, base, list))[DOMAIN list]

LEMMA HighestIsFold ==
    ASSUME NEW base, NEW list
    PROVE  FoldLeft(LAMBDA r, part : higherRiskLevel(r, part.risk), base, list) = Highest(base, list)
BY DEF FoldLeft, MapThenFoldSet, Highest, RiskFold

LEMMA RiskRanks == \A r : riskLevelRank(r) \in 0..4
BY DEF riskLevelRank

LEMMA HigherIsHigher ==
    ASSUME NEW a, NEW b
    PROVE  /\ higherRiskLevel(a, b) \in {a, b}
           /\ riskLevelRank(higherRiskLevel(a, b)) >= riskLevelRank(a)
           /\ riskLevelRank(higherRiskLevel(a, b)) >= riskLevelRank(b)
<1>1. riskLevelRank(a) \in Int /\ riskLevelRank(b) \in Int
  BY RiskRanks
<1> QED BY <1>1 DEF higherRiskLevel

LEMMA RiskFoldExists ==
    ASSUME NEW base, NEW list, NEW n \in Nat, DOMAIN list = 1..n
    PROVE  \E h : RiskFold(h, base, list)
<1> DEFINE D == {base} \cup {list[k].risk : k \in 1..n}
           F == [p \in (1..n) \X D |-> higherRiskLevel(p[2], list[p[1]].risk)]
<1>1. \A x \in 1..n : \A d \in D : higherRiskLevel(d, list[x].risk) \in D
  BY HigherIsHigher
<1>2. base \in D
  OBVIOUS
<1> HIDE DEF D
<1>3. F \in [(1..n) \X D -> D]
  BY <1>1
<1>4. \A x \in 1..n : \A d \in D : F[<<x, d>>] = higherRiskLevel(d, list[x].risk)
  OBVIOUS
<1> HIDE DEF F
<1>5. PICK h : Loop(h, n, D, base, F)
  BY <1>2, <1>3, LoopExists
<1>6. /\ h = [s \in SUBSET (1..n) |-> h[s]]
      /\ \A s \in SUBSET (1..n) :
           /\ h[s] \in D
           /\ s # {} => Max(s) \in s /\ s \ {Max(s)} \in SUBSET (1..n)
           /\ h[s] = IF s = {} THEN base ELSE F[<<Max(s), h[s \ {Max(s)}]>>]
  BY <1>5 DEF Loop
<1>7. ASSUME NEW s \in SUBSET (1..n)
      PROVE  h[s] = IF s = {} THEN base ELSE higherRiskLevel(h[s \ {Max(s)}], list[Max(s)].risk)
  <2>1. CASE s = {}
    BY <1>6, <2>1
  <2>2. CASE s # {}
    <3>1. Max(s) \in 1..n /\ h[s \ {Max(s)}] \in D /\ h[s] = F[<<Max(s), h[s \ {Max(s)}]>>]
      BY <1>6, <2>2
    <3> QED BY <1>4, <2>2, <3>1
  <2> QED BY <2>1, <2>2
<1>8. h = [s \in SUBSET (1..n) |->
             IF s = {} THEN base ELSE higherRiskLevel(h[s \ {Max(s)}], list[Max(s)].risk)]
  BY <1>6, <1>7
<1>9. RiskFold(h, base, list)
  BY <1>8 DEF RiskFold
<1> QED BY <1>9

LEMMA HighestCovers ==
    ASSUME NEW base, NEW list, NEW n \in Nat, DOMAIN list = 1..n
    PROVE  /\ Highest(base, list) \in {base} \cup {list[k].risk : k \in 1..n}
           /\ \A k \in 1..n : riskLevelRank(Highest(base, list)) >= riskLevelRank(list[k].risk)
<1> DEFINE h == CHOOSE j : RiskFold(j, base, list)
           Covers(k) == /\ h[1..k] \in {base} \cup {list[i].risk : i \in 1..n}
                        /\ \A i \in 1..k : riskLevelRank(h[1..k]) >= riskLevelRank(list[i].risk)
<1>1. RiskFold(h, base, list)
  BY RiskFoldExists
<1>2. Highest(base, list) = h[1..n]
  BY DEF Highest
<1> HIDE DEF h
<1>3. \A s \in SUBSET (1..n) :
         h[s] = IF s = {} THEN base ELSE higherRiskLevel(h[s \ {Max(s)}], list[Max(s)].risk)
  <2> DEFINE g == [s \in SUBSET (1..n) |->
                     IF s = {} THEN base ELSE higherRiskLevel(h[s \ {Max(s)}], list[Max(s)].risk)]
  <2>1. h = g
    BY <1>1 DEF RiskFold
  <2>2. \A s \in SUBSET (1..n) :
         g[s] = IF s = {} THEN base ELSE higherRiskLevel(h[s \ {Max(s)}], list[Max(s)].risk)
    OBVIOUS
  <2> HIDE DEF g
  <2> QED BY <2>1, <2>2
<1> DEFINE Good == {k \in 0..n : Covers(k)}
<1>4. 0 \in Good
  <2>1. 1..0 = {} /\ {} \in SUBSET (1..n)
    OBVIOUS
  <2>2. h[1..0] = base
    BY <1>3, <2>1
  <2> QED BY <2>1, <2>2
<1>5. ASSUME NEW k \in 0..(n - 1), k \in Good PROVE k + 1 \in Good
  <2>1. Max(1..(k + 1)) = k + 1 /\ (1..(k + 1)) \ {k + 1} = 1..k
    <3>1. k + 1 \in Nat \ {0} /\ (k + 1) - 1 = k
      OBVIOUS
    <3> QED BY <3>1, MaxOfPrefix
  <2>2. k + 1 \in 1..n /\ k + 1 \in 0..n /\ k + 1 \in 1..(k + 1) /\ k \in Int
    OBVIOUS
  <2> HIDE DEF Covers
  <2>3. Covers(k)
    BY <1>5
  <2> HIDE DEF Good
  <2>4. \A i \in 1..(k + 1) : i \in 1..n /\ (i = k + 1 \/ i \in 1..k)
    BY <2>2
  <2>5. h[1..(k + 1)] = higherRiskLevel(h[1..k], list[k + 1].risk)
    BY <1>3, <2>1, <2>2, <2>4
  <2>6. /\ h[1..(k + 1)] \in {h[1..k], list[k + 1].risk}
        /\ riskLevelRank(h[1..(k + 1)]) >= riskLevelRank(h[1..k])
        /\ riskLevelRank(h[1..(k + 1)]) >= riskLevelRank(list[k + 1].risk)
    BY <2>5, HigherIsHigher
  <2>7. \A i \in 1..k : riskLevelRank(h[1..(k + 1)]) >= riskLevelRank(list[i].risk)
    <3> SUFFICES ASSUME NEW i \in 1..k
                 PROVE  riskLevelRank(h[1..(k + 1)]) >= riskLevelRank(list[i].risk)
      OBVIOUS
    <3>1. riskLevelRank(h[1..k]) >= riskLevelRank(list[i].risk)
      BY <2>3 DEF Covers
    <3>2. \A x, y, z \in 0..4 : x >= y /\ y >= z => x >= z
      OBVIOUS
    <3> QED BY <2>6, <3>1, <3>2, RiskRanks
  <2>8. h[1..(k + 1)] \in {base} \cup {list[i].risk : i \in 1..n}
    BY <2>2, <2>3, <2>6 DEF Covers
  <2>9. Covers(k + 1)
    BY <2>4, <2>6, <2>7, <2>8 DEF Covers
  <2> QED BY <2>2, <2>9 DEF Good
<1>6. n \in Good
  <2> HIDE DEF Good
  <2>1. \A k \in 0..n : k \in Good
    BY <1>4, <1>5, UpTo
  <2> QED BY <2>1
<1> QED BY <1>2, <1>6

-----------------------------------------------------------------------------
(* Sums over the answers for a file.                                       *)

First(s) == CHOOSE x \in s : TRUE

RowFold(h, list) ==
    h = [s \in SUBSET DOMAIN list |->
           IF s = {} THEN 0 ELSE list[First(s)].rows + h[s \ {First(s)}]]

TotalFold(h, list) ==
    h = [s \in SUBSET DOMAIN list |->
           IF s = {} THEN 0 ELSE list[First(s)].total + h[s \ {First(s)}]]

RowSum(list)   == (CHOOSE h : RowFold(h, list))[DOMAIN list]

TotalSum(list) == (CHOOSE h : TotalFold(h, list))[DOMAIN list]

(* What is left of a list when of each key only the first stays, by row.   *)
Deduplicated(all) ==
    SortStably([k \in DOMAIN FirstOfEach(all) |-> all[FirstOfEach(all)[k]]], ByRow)

LEMMA MergedIs ==
    ASSUME NEW e, NEW answers
    PROVE  mergeAIFileAnalyses(e, answers) =
             [mode     |-> "normalized_chunks",
              risk     |-> Highest("Low", answers),
              rows     |-> Min({e.items, RowSum(answers)}),
              total    |-> TotalSum(answers),
              findings |-> Deduplicated(FlattenSeq([k \in DOMAIN answers |-> answers[k].findings]))]
BY DEF mergeAIFileAnalyses, FoldLeft, MapThenSumSet, MapThenFoldSet, Highest, RiskFold,
       RowSum, RowFold, TotalSum, TotalFold, First, Deduplicated

-----------------------------------------------------------------------------

(* h adds up the numbers of g over any part of S.                          *)
Adds(h, S, g) ==
    h = [s \in SUBSET S |-> IF s = {} THEN 0 ELSE g[First(s)] + h[s \ {First(s)}]]

LEMMA SumExists ==
    ASSUME NEW S, IsFiniteSet(S), NEW g, \A x \in S : g[x] \in Nat
    PROVE  \E h : Adds(h, S, g)
<1> DEFINE pick == [s \in SUBSET S |-> First(s)]
           F    == [p \in S \X Nat |-> g[p[1]] + p[2]]
<1>1. \A s \in SUBSET S : pick[s] = First(s) /\ (s # {} => First(s) \in s)
  BY DEF First
<1>2. \A x \in S : \A d \in Nat : F[<<x, d>>] = g[x] + d /\ F[<<x, d>>] \in Nat
  OBVIOUS
<1> HIDE DEF pick, F
<1>3. Picks(pick, S)
  BY <1>1 DEF Picks
<1>4. PICK h : Folded(h, S, pick, F, 0)
  BY <1>3, FoldExists
<1>5. \A s \in SUBSET S : h[s] \in Nat
  <2>1. 0 \in Nat
    OBVIOUS
  <2> QED BY ONLY IsFiniteSet(S), <1>2, <1>3, <1>4, <2>1, FoldTyped
<1>6. ASSUME NEW s \in SUBSET S
      PROVE  h[s] = IF s = {} THEN 0 ELSE g[First(s)] + h[s \ {First(s)}]
  <2>1. h[s] = IF s = {} THEN 0 ELSE F[<<pick[s], h[s \ {pick[s]}]>>]
    BY <1>4, FoldedAt
  <2>2. s # {} => First(s) \in S /\ s \ {First(s)} \in SUBSET S
    BY <1>1
  <2> QED BY <1>1, <1>2, <1>5, <2>1, <2>2
<1>7. h = [s \in SUBSET S |-> h[s]]
  BY <1>4 DEF Folded
<1>8. h = [s \in SUBSET S |-> IF s = {} THEN 0 ELSE g[First(s)] + h[s \ {First(s)}]]
  BY <1>6, <1>7
<1> QED BY <1>8 DEF Adds

LEMMA SumIsNatural ==
    ASSUME NEW S, IsFiniteSet(S), NEW g, \A x \in S : g[x] \in Nat,
           NEW h, Adds(h, S, g)
    PROVE  h[S] \in Nat
<1> DEFINE sum == [s \in SUBSET S |-> IF s = {} THEN 0 ELSE g[First(s)] + h[s \ {First(s)}]]
<1>0. \A s \in SUBSET S : h[s] = IF s = {} THEN 0 ELSE g[First(s)] + h[s \ {First(s)}]
  <2>1. h = sum
    BY DEF Adds
  <2>2. \A s \in SUBSET S : sum[s] = IF s = {} THEN 0 ELSE g[First(s)] + h[s \ {First(s)}]
    OBVIOUS
  <2> HIDE DEF sum
  <2> QED BY <2>1, <2>2
<1> HIDE DEF sum
<1> DEFINE Bad == {s \in SUBSET S : h[s] \notin Nat}
<1> SUFFICES ASSUME Bad # {} PROVE FALSE
  <2>1. S \in SUBSET S
    OBVIOUS
  <2> QED BY <2>1
<1>1. PICK s \in Bad : \A u \in Bad : u \subseteq s => u = s
  <2>1. Bad \subseteq SUBSET S
    OBVIOUS
  <2> HIDE DEF Bad
  <2> QED BY <2>1, LeastSubset
<1>2. s \in SUBSET S /\ h[s] \notin Nat
  OBVIOUS
<1> DEFINE x == First(s)
<1>3. s # {}
  <2>1. {} \in SUBSET S /\ 0 \in Nat
    OBVIOUS
  <2> HIDE DEF Bad
  <2>2. h[{}] = 0
    BY <1>0, <2>1
  <2> QED BY <1>2, <2>1, <2>2
<1>4. x \in s
  BY <1>3 DEF First
<1>5. s \ {x} \in SUBSET S /\ s \ {x} \notin Bad
  <2> HIDE DEF x
  <2> QED BY <1>1, <1>2, <1>4
<1>6. h[s \ {x}] \in Nat /\ g[x] \in Nat
  <2> HIDE DEF x
  <2> QED BY <1>2, <1>4, <1>5
<1>7. h[s] = g[x] + h[s \ {x}]
  BY <1>0, <1>2, <1>3
<1> HIDE DEF x, Bad
<1> QED BY <1>2, <1>6, <1>7

LEMMA SumsAreNatural ==
    ASSUME NEW list, NEW n \in Nat, DOMAIN list = 1..n,
           \A k \in 1..n : list[k].rows \in Nat /\ list[k].total \in Nat
    PROVE  RowSum(list) \in Nat /\ TotalSum(list) \in Nat
<1>1. IsFiniteSet(1..n)
  BY FS_Interval
<1>2. \A s \in SUBSET (1..n) : s # {} => First(s) \in 1..n
  BY DEF First
<1>3. RowSum(list) \in Nat
  <2> DEFINE g == [k \in 1..n |-> list[k].rows]
             j == CHOOSE h : RowFold(h, list)
  <2>1. \A x \in 1..n : g[x] \in Nat /\ g[x] = list[x].rows
    OBVIOUS
  <2> HIDE DEF g
  <2>2. \A h : RowFold(h, list) <=> Adds(h, 1..n, g)
    BY <1>2, <2>1 DEF RowFold, Adds
  <2>3. \E h : RowFold(h, list)
    BY <1>1, <2>1, <2>2, SumExists
  <2>4. RowFold(j, list)
    BY <2>3
  <2>5. RowSum(list) = j[1..n]
    BY DEF RowSum
  <2> HIDE DEF j
  <2>6. Adds(j, 1..n, g)
    BY <2>2, <2>4
  <2> QED BY <1>1, <2>1, <2>5, <2>6, SumIsNatural
<1>4. TotalSum(list) \in Nat
  <2> DEFINE g == [k \in 1..n |-> list[k].total]
             j == CHOOSE h : TotalFold(h, list)
  <2>1. \A x \in 1..n : g[x] \in Nat /\ g[x] = list[x].total
    OBVIOUS
  <2> HIDE DEF g
  <2>2. \A h : TotalFold(h, list) <=> Adds(h, 1..n, g)
    BY <1>2, <2>1 DEF TotalFold, Adds
  <2>3. \E h : TotalFold(h, list)
    BY <1>1, <2>1, <2>2, SumExists
  <2>4. TotalFold(j, list)
    BY <2>3
  <2>5. TotalSum(list) = j[1..n]
    BY DEF TotalSum
  <2> HIDE DEF j
  <2>6. Adds(j, 1..n, g)
    BY <2>2, <2>4
  <2> QED BY <1>1, <2>1, <2>5, <2>6, SumIsNatural
<1> QED BY <1>3, <1>4

-----------------------------------------------------------------------------
(* One list after the other.                                               *)

FlatFold(f, n, seqs) ==
    f = [i \in 1..n |-> IF i = 1 THEN seqs[i] ELSE f[i - 1] \o seqs[i]]

Flat(seqs) == (CHOOSE f : FlatFold(f, Len(seqs), seqs))[Len(seqs)]

LEMMA FlattenIsFold ==
    ASSUME NEW seqs, Len(seqs) # 0
    PROVE  FlattenSeq(seqs) = Flat(seqs)
BY DEF FlattenSeq, Flat, FlatFold

LEMMA FlatFoldAt ==
    ASSUME NEW n \in Nat, NEW seqs, NEW f, FlatFold(f, n, seqs), NEW i \in 1..n
    PROVE  f[i] = IF i = 1 THEN seqs[i] ELSE f[i - 1] \o seqs[i]
<1> DEFINE g == [j \in 1..n |-> IF j = 1 THEN seqs[j] ELSE f[j - 1] \o seqs[j]]
<1>1. f = g
  BY DEF FlatFold
<1>2. g[i] = IF i = 1 THEN seqs[i] ELSE f[i - 1] \o seqs[i]
  OBVIOUS
<1> HIDE DEF g
<1> QED BY <1>1, <1>2

LEMMA FlatFoldNext ==
    ASSUME NEW n \in Nat, NEW seqs, NEW f, FlatFold(f, n, seqs),
           NEW k \in Nat, NEW i \in 1..n, i = k + 1
    PROVE  f[i] = IF k = 0 THEN seqs[i] ELSE f[k] \o seqs[i]
<1>1. f[i] = IF i = 1 THEN seqs[i] ELSE f[i - 1] \o seqs[i]
  BY FlatFoldAt
<1>2. i - 1 = k /\ (i = 1 <=> k = 0)
  OBVIOUS
<1> QED BY <1>1, <1>2

LEMMA FlatFoldExists ==
    ASSUME NEW n \in Nat, NEW seqs
    PROVE  \E f : FlatFold(f, n, seqs)
<1> DEFINE Good == {k \in 0..n : \E f : FlatFold(f, k, seqs)}
<1>1. 0 \in Good
  <2> DEFINE f == [i \in 1..0 |-> i]
  <2>1. \A i \in 1..0 : FALSE
    OBVIOUS
  <2>2. f = [i \in 1..0 |-> IF i = 1 THEN seqs[i] ELSE f[i - 1] \o seqs[i]]
    BY <2>1
  <2>3. FlatFold(f, 0, seqs)
    BY <2>2 DEF FlatFold
  <2> HIDE DEF f
  <2> QED BY <2>3
<1>2. ASSUME NEW k \in 0..(n - 1), k \in Good PROVE k + 1 \in Good
  <2>1. PICK f : FlatFold(f, k, seqs)
    BY <1>2
  <2> DEFINE g == [i \in 1..(k + 1) |->
                     IF i \in 1..k THEN f[i]
                     ELSE IF i = 1 THEN seqs[i] ELSE f[i - 1] \o seqs[i]]
  <2>2. \A i \in 1..k : f[i] = IF i = 1 THEN seqs[i] ELSE f[i - 1] \o seqs[i]
    BY <2>1, FlatFoldAt
  <2>3. \A i \in 1..(k + 1) : g[i] = IF i = 1 THEN seqs[i] ELSE f[i - 1] \o seqs[i]
    BY <2>2
  <2>4. \A i \in 1..(k + 1) : i # 1 => i - 1 \in 1..(k + 1) /\ i - 1 \in 1..k
    OBVIOUS
  <2>5. \A i \in 1..k : i \in 1..(k + 1)
    OBVIOUS
  <2>6. g = [i \in 1..(k + 1) |-> g[i]] /\ \A i \in 1..k : g[i] = f[i]
    BY <2>5
  <2> HIDE DEF g
  <2>7. \A i \in 1..(k + 1) : g[i] = IF i = 1 THEN seqs[i] ELSE g[i - 1] \o seqs[i]
    BY <2>3, <2>4, <2>6
  <2>8. FlatFold(g, k + 1, seqs)
    BY <2>6, <2>7 DEF FlatFold
  <2>9. k + 1 \in 0..n
    OBVIOUS
  <2> QED BY <2>8, <2>9
<1>3. n \in Good
  <2> HIDE DEF Good
  <2>1. n \in 0..n
    OBVIOUS
  <2> QED BY <1>1, <1>2, <2>1, UpTo
<1> QED BY <1>3

(* t is the first k lists in a row: every element comes from one of them,  *)
(* and before an element of a list are only elements of lists up to it.    *)
Flattened(t, k, seqs, Q) ==
    /\ t \in Seq(Q)
    /\ \A i \in 1..Len(t) : \E h \in 1..k : t[i] \in ToSet(seqs[h])
    /\ \A h \in 1..k : \A x \in ToSet(seqs[h]) : \E i \in 1..Len(t) :
         t[i] = x /\ \A j \in 1..i : \E g \in 1..h : t[j] \in ToSet(seqs[g])

LEMMA FlattenOneMore ==
    ASSUME NEW k \in Nat \ {0}, NEW seqs, NEW Q, NEW t, Flattened(t, k, seqs, Q),
           seqs[k + 1] \in Seq(Q)
    PROVE  Flattened(t \o seqs[k + 1], k + 1, seqs, Q)
<1> DEFINE s == seqs[k + 1]
           u == t \o s
           n == Len(t)
           m == Len(s)
<1>1. t \in Seq(Q) /\ s \in Seq(Q)
  BY DEF Flattened
<1>2. n \in Nat /\ m \in Nat /\ DOMAIN s = 1..m
  BY <1>1, LenProperties
<1>3. /\ u \in Seq(Q) /\ Len(u) = n + m
      /\ \A i \in 1..(n + m) : u[i] = IF i <= n THEN t[i] ELSE s[i - n]
  BY <1>1, ConcatProperties
<1> HIDE DEF u
<1>4. \A i \in 1..n : i \in 1..(n + m) /\ u[i] = t[i]
  BY <1>2, <1>3
<1>5. \A i \in 1..(n + m) : i \in 1..n \/ (i - n \in 1..m /\ u[i] = s[i - n])
  BY <1>2, <1>3
<1>6. \A i \in 1..m : n + i \in 1..(n + m) /\ u[n + i] = s[i]
  <2> SUFFICES ASSUME NEW i \in 1..m PROVE n + i \in 1..(n + m) /\ u[n + i] = s[i]
    OBVIOUS
  <2>1. n + i \in 1..(n + m) /\ ~ (n + i <= n) /\ (n + i) - n = i
    BY <1>2
  <2> QED BY <1>3, <2>1
<1>7. /\ \A h \in 1..k : h \in 1..(k + 1)
      /\ k + 1 \in 1..(k + 1)
      /\ \A h \in 1..(k + 1) : h \in 1..k \/ h = k + 1
  OBVIOUS
<1>8. \A i \in 1..m : s[i] \in ToSet(s)
  BY <1>2 DEF ToSet
<1>9. \A x \in ToSet(s) : \E i \in 1..m : s[i] = x
  BY <1>2 DEF ToSet
<1> HIDE DEF n, m
<1>10. \A i \in 1..(n + m) : \E h \in 1..(k + 1) : u[i] \in ToSet(seqs[h])
  <2> SUFFICES ASSUME NEW i \in 1..(n + m)
               PROVE  \E h \in 1..(k + 1) : u[i] \in ToSet(seqs[h])
    OBVIOUS
  <2>1. CASE i \in 1..n
    <3>1. \E h \in 1..k : t[i] \in ToSet(seqs[h])
      BY <2>1 DEF Flattened, n
    <3> QED BY <1>4, <1>7, <2>1, <3>1
  <2>2. CASE i - n \in 1..m /\ u[i] = s[i - n]
    BY <1>7, <1>8, <2>2
  <2> QED BY <1>5, <2>1, <2>2
<1>11. ASSUME NEW h \in 1..(k + 1), NEW x \in ToSet(seqs[h])
       PROVE  \E i \in 1..(n + m) :
                 u[i] = x /\ \A j \in 1..i : \E g \in 1..h : u[j] \in ToSet(seqs[g])
  <2>1. CASE h \in 1..k
    <3>1. PICK i \in 1..n :
             t[i] = x /\ \A j \in 1..i : \E g \in 1..h : t[j] \in ToSet(seqs[g])
      BY <2>1, ZenonT(60) DEF Flattened, n
    <3>2. \A j \in 1..i : j \in 1..n
      BY <1>2
    <3> QED BY <1>4, <3>1, <3>2
  <2>2. CASE h = k + 1
    <3>1. PICK i \in 1..m : s[i] = x
      BY <1>9, <2>2
    <3>2. \A j \in 1..(n + i) : j \in 1..(n + m)
      BY <1>2
    <3>3. \A j \in 1..(n + i) : \E g \in 1..h : u[j] \in ToSet(seqs[g])
      BY <1>10, <2>2, <3>2
    <3> QED BY <1>6, <3>1, <3>3
  <2> QED BY <1>7, <2>1, <2>2
<1>12. Flattened(u, k + 1, seqs, Q)
  BY <1>3, <1>10, <1>11 DEF Flattened
<1> QED BY <1>12 DEF u

LEMMA FlatIsFlattened ==
    ASSUME NEW n \in Nat \ {0}, NEW Q, NEW seqs, Len(seqs) = n,
           \A k \in 1..n : seqs[k] \in Seq(Q)
    PROVE  Flattened(FlattenSeq(seqs), n, seqs, Q)
<1> DEFINE f == CHOOSE g : FlatFold(g, n, seqs)
<1>1. FlatFold(f, n, seqs)
  BY FlatFoldExists
<1>2. FlattenSeq(seqs) = f[n]
  BY FlattenIsFold DEF Flat
<1> HIDE DEF f
<1> DEFINE Good == {k \in 0..n : k # 0 => Flattened(f[k], k, seqs, Q)}
<1>3. 0 \in Good
  OBVIOUS
<1>4. ASSUME NEW k \in 0..(n - 1), k \in Good PROVE k + 1 \in Good
  <2>1. k + 1 \in 1..n /\ k + 1 \in 0..n /\ (k + 1) - 1 = k
    OBVIOUS
  <2>2. f[k + 1] = IF k = 0 THEN seqs[k + 1] ELSE f[k] \o seqs[k + 1]
    <3>1. PICK i \in 1..n : i = k + 1
      BY <2>1
    <3>2. f[i] = IF k = 0 THEN seqs[i] ELSE f[k] \o seqs[i]
      BY ONLY n \in Nat, k \in 0..(n - 1), i \in 1..n, <1>1, <3>1, FlatFoldNext
    <3> QED BY <3>1, <3>2
  <2>3. CASE k = 0
    <3>1. f[k + 1] = seqs[1] /\ 1 \in 1..n
      BY <2>2, <2>3
    <3> DEFINE s == seqs[1]
    <3>2. s \in Seq(Q) /\ Len(s) \in Nat /\ DOMAIN s = 1..Len(s)
      BY <3>1, LenProperties
    <3>3. \A i \in 1..Len(s) : s[i] \in ToSet(s)
      BY <3>2 DEF ToSet
    <3>4. \A x \in ToSet(s) : \E i \in 1..Len(s) : s[i] = x
      BY <3>2 DEF ToSet
    <3>5. \A h \in 1..1 : h = 1
      OBVIOUS
    <3>6. 1 \in 1..1 /\ \A i \in 1..Len(s) : \A j \in 1..i : j \in 1..Len(s)
      BY <3>2
    <3>7. \A i \in 1..Len(s) : \E h \in 1..1 : s[i] \in ToSet(seqs[h])
      BY <3>3, <3>6
    <3>8. ASSUME NEW h \in 1..1, NEW x \in ToSet(seqs[h])
          PROVE  \E i \in 1..Len(s) :
                    s[i] = x /\ \A j \in 1..i : \E g \in 1..h : s[j] \in ToSet(seqs[g])
      <4>1. h = 1 /\ x \in ToSet(s)
        BY <3>5
      <4>2. PICK i \in 1..Len(s) : s[i] = x
        BY <3>4, <4>1
      <4> QED BY <3>6, <3>7, <4>1, <4>2
    <3>9. Flattened(s, 1, seqs, Q)
      BY <3>2, <3>7, <3>8 DEF Flattened
    <3>10. k + 1 = 1
      BY <2>3
    <3> HIDE DEF s
    <3>11. Flattened(f[k + 1], k + 1, seqs, Q)
      BY <3>1, <3>9, <3>10 DEF s
    <3> QED BY <2>1, <3>11
  <2>4. CASE k # 0
    <3>1. k \in Nat \ {0} /\ Flattened(f[k], k, seqs, Q) /\ seqs[k + 1] \in Seq(Q)
      BY <1>4, <2>1, <2>4
    <3>2. f[k + 1] = f[k] \o seqs[k + 1]
      BY <2>2, <2>4
    <3>3. Flattened(f[k + 1], k + 1, seqs, Q)
      BY <3>1, <3>2, FlattenOneMore
    <3> QED BY <2>1, <3>3
  <2> QED BY <2>3, <2>4
<1>5. n \in Good
  <2> HIDE DEF Good
  <2>1. n \in 0..n
    OBVIOUS
  <2> QED BY <1>3, <1>4, <2>1, UpTo
<1> QED BY <1>2, <1>5

-----------------------------------------------------------------------------
(* Of the findings of one key the first stays.                             *)

Kept(out, all) ==
    /\ Findings(out)
    /\ \A k \in DOMAIN out : out[k] \in ToSet(all)
    /\ \A i, j \in DOMAIN out :
         i # j => normalizedAIFindingKey(out[i]) # normalizedAIFindingKey(out[j])
    /\ \A i \in DOMAIN all :
         (\A j \in 1..(i - 1) : normalizedAIFindingKey(all[j]) # normalizedAIFindingKey(all[i]))
           => all[i] \in ToSet(out)

LEMMA DeduplicatedKeeps ==
    ASSUME NEW all, Findings(all)
    PROVE  Kept(Deduplicated(all), all)
<1> DEFINE n == Len(all)
           S == {k \in DOMAIN all : \A j \in 1..(k - 1) :
                   normalizedAIFindingKey(all[j]) # normalizedAIFindingKey(all[k])}
           P == FirstOfEach(all)
           c == Cardinality(S)
           list == [k \in DOMAIN P |-> all[P[k]]]
           out  == Deduplicated(all)
<1>1. n \in Nat /\ DOMAIN all = 1..n
  BY ListDomain DEF Findings
<1>2. S \in SUBSET (1..n)
  BY <1>1
<1>3. P = Ascending(S)
  BY DEF FirstOfEach
<1>4. out = SortStably(list, ByRow)
  BY DEF Deduplicated
<1>5. \A x, y \in S : x # y => normalizedAIFindingKey(all[x]) # normalizedAIFindingKey(all[y])
  <2> SUFFICES ASSUME NEW x \in S, NEW y \in S, x # y
               PROVE  normalizedAIFindingKey(all[x]) # normalizedAIFindingKey(all[y])
    OBVIOUS
  <2>1. x \in 1..n /\ y \in 1..n
    BY <1>1
  <2>2. CASE x < y
    <3>1. x \in 1..(y - 1)
      BY <2>1, <2>2
    <3> QED BY <3>1
  <2>3. CASE ~ (x < y)
    <3>1. y \in 1..(x - 1)
      BY <2>1, <2>3
    <3> QED BY <3>1
  <2> QED BY <2>2, <2>3
<1>6. \A i \in 1..n :
         (\A j \in 1..(i - 1) : normalizedAIFindingKey(all[j]) # normalizedAIFindingKey(all[i]))
           => i \in S
  BY <1>1
<1> HIDE DEF n, S, P, out
<1>7. IsFiniteSet(1..n)
  BY <1>1, FS_Interval
<1>8. IsFiniteSet(S) /\ c \in Nat
  BY <1>2, <1>7, FS_Subset, FS_CardinalityType
<1>9. S \subseteq Nat
  BY <1>2
<1> HIDE DEF c
<1>10. Enumerates(P, S)
  BY <1>3, <1>8, <1>9, AscendingInOrder
<1>11. /\ DOMAIN P = 1..c
       /\ \A k \in 1..c : P[k] \in S
       /\ \A x \in S : \E k \in 1..c : P[k] = x
       /\ \A j, k \in 1..c : P[j] = P[k] => j = k
  BY <1>10 DEF Enumerates, c
<1>12. DOMAIN list = 1..c /\ \A k \in 1..c : list[k] = all[P[k]]
  BY <1>11
<1> HIDE DEF list
<1>13. \A x \in S : x \in DOMAIN all /\ all[x] \in ToSet(all) /\ all[x].row \in Int
  BY <1>1, <1>2 DEF ToSet, Findings
<1>14. \A k \in 1..c : list[k].row \in Int
  BY <1>11, <1>12, <1>13
<1>15. PICK o : Rearranges(out, list, o)
  BY <1>4, <1>8, <1>12, <1>14, SortedByRow
<1>16. /\ \A k \in 1..c : o[k] \in 1..c
       /\ \A i \in 1..c : \E k \in 1..c : o[k] = i
       /\ \A j, k \in 1..c : o[j] = o[k] => j = k
       /\ out = [k \in 1..c |-> list[o[k]]]
  BY <1>12, <1>15 DEF Rearranges
<1>17. out = [k \in 1..c |-> out[k]] /\ \A k \in 1..c : out[k] = list[o[k]]
  BY <1>16
<1>18. IsList(out) /\ DOMAIN out = 1..c
  <2>1. IsList(out)
    BY <1>8, <1>17, FunctionIsList
  <2> QED BY <1>17, <2>1
<1>19. \A k \in 1..c : P[o[k]] \in S /\ out[k] = all[P[o[k]]]
  BY <1>11, <1>12, <1>16, <1>17
<1>20. Findings(out)
  BY <1>13, <1>18, <1>19 DEF Findings
<1>21. \A k \in DOMAIN out : out[k] \in ToSet(all)
  BY <1>13, <1>18, <1>19
<1>22. \A i, j \in DOMAIN out :
          i # j => normalizedAIFindingKey(out[i]) # normalizedAIFindingKey(out[j])
  <2> SUFFICES ASSUME NEW i \in 1..c, NEW j \in 1..c, i # j
               PROVE  normalizedAIFindingKey(out[i]) # normalizedAIFindingKey(out[j])
    BY <1>18
  <2>1. o[i] \in 1..c /\ o[j] \in 1..c /\ o[i] # o[j]
    BY <1>16
  <2>2. P[o[i]] # P[o[j]] /\ P[o[i]] \in S /\ P[o[j]] \in S
    BY <1>11, <2>1
  <2> QED BY <1>5, <1>19, <2>2
<1>23. \A x \in S : all[x] \in ToSet(out)
  <2> SUFFICES ASSUME NEW x \in S PROVE all[x] \in ToSet(out)
    OBVIOUS
  <2>1. PICK k \in 1..c : P[k] = x
    BY <1>11
  <2>2. PICK i \in 1..c : o[i] = k
    BY <1>16
  <2>3. out[i] = all[x]
    BY <1>19, <2>1, <2>2
  <2> QED BY <1>18, <2>3 DEF ToSet
<1>24. Kept(out, all)
  BY <1>1, <1>6, <1>20, <1>21, <1>22, <1>23 DEF Kept
<1> QED BY <1>24 DEF out

(* Of what the k lists say, whatever is not kept has one of its key that   *)
(* was said no later and is.                                               *)
SaidBefore(x, h, seqs, out) ==
    \E g \in 1..h : \E y \in ToSet(seqs[g]) :
      normalizedAIFindingKey(y) = normalizedAIFindingKey(x) /\ y \in ToSet(out)

LEMMA FirstIsKept ==
    ASSUME NEW Q, NEW seqs, NEW n \in Nat, NEW all, Flattened(all, n, seqs, Q),
           NEW out, Kept(out, all), NEW h \in 1..n, NEW x \in ToSet(seqs[h])
    PROVE  SaidBefore(x, h, seqs, out)
<1>1. PICK i \in 1..Len(all) :
         all[i] = x /\ \A j \in 1..i : \E g \in 1..h : all[j] \in ToSet(seqs[g])
  BY ZenonT(60) DEF Flattened
<1>2. Len(all) \in Nat /\ DOMAIN all = 1..Len(all)
  BY LenProperties DEF Flattened
<1> DEFINE Same == {j \in 1..i : normalizedAIFindingKey(all[j]) = normalizedAIFindingKey(x)}
<1>3. i \in Same /\ Same \subseteq Nat
  BY <1>1, <1>2
<1>4. PICK j \in Same : \A m \in Same : j <= m
  <2> HIDE DEF Same
  <2> QED BY <1>3, LeastNat
<1>5. j \in 1..i /\ normalizedAIFindingKey(all[j]) = normalizedAIFindingKey(x)
  OBVIOUS
<1>6. ASSUME NEW m \in 1..(j - 1)
      PROVE  normalizedAIFindingKey(all[m]) # normalizedAIFindingKey(all[j])
  <2>1. m \in 1..i /\ ~ (j <= m)
    BY <1>2, <1>5
  <2>2. m \notin Same
    <3> HIDE DEF Same
    <3> QED BY <1>4, <2>1
  <2> QED BY <1>5, <2>1, <2>2
<1>7. j \in DOMAIN all
  BY <1>2, <1>5
<1>8. all[j] \in ToSet(out)
  BY <1>6, <1>7 DEF Kept
<1>9. PICK g \in 1..h : all[j] \in ToSet(seqs[g])
  BY <1>1, <1>5
<1> QED BY <1>5, <1>8, <1>9 DEF SaidBefore

-----------------------------------------------------------------------------
(* What an analysis is, whatever the provider has said: no number is       *)
(* negative, and every severity and risk is one the code knows.            *)

KnownRisks == {"Unknown", "Low", "Medium", "High"}

KnownFindings(list) ==
    /\ IsList(list)
    /\ \A k \in DOMAIN list : list[k].row \in Nat /\ list[k].severity \in Severities

IsPart(p) ==
    /\ p.risk \in KnownRisks /\ p.rows \in Nat /\ p.total \in Nat
    /\ KnownFindings(p.findings)

IsAnalysis(a) ==
    /\ a.mode \in {"backend_rules", "backend_fallback", "raw_pdf", "normalized_chunks"}
    /\ IsPart(a)

IsEstimate(e) ==
    /\ e.items \in Nat /\ e.total \in Nat /\ e.score \in 0..100
    /\ e.pdf \in BOOLEAN
    /\ IsList(e.findings)
    /\ \A f \in ToSet(e.findings) : IsFinding(f) /\ f.row \in Nat /\ f.severity \in Severities

IsAnswer(said) ==
    /\ said.rows \in Int /\ said.total \in Int
    /\ IsList(said.findings)
    /\ \A f \in ToSet(said.findings) : IsFinding(f) /\ f.row \in Int

LEMMA KnownAreFindings ==
    ASSUME NEW list, KnownFindings(list)
    PROVE  Findings(list)
BY DEF KnownFindings, Findings

LEMMA ReadFinding ==
    ASSUME NEW f, IsFinding(f), f.row \in Int
    PROVE  LET g == [f EXCEPT !.severity = normalizeSeverity(@), !.row = AtLeast0(@)]
           IN  g.row \in Nat /\ g.severity \in Severities
<1> DEFINE g == [f EXCEPT !.severity = normalizeSeverity(@), !.row = AtLeast0(@)]
<1>1. g.row = AtLeast0(f.row) /\ g.severity = normalizeSeverity(f.severity)
  BY DEF IsFinding
<1>2. normalizeSeverity(f.severity) \in Severities
  BY DEF normalizeSeverity, Severities
<1>3. AtLeast0(f.row) \in Nat
  BY AtLeast0Natural
<1> HIDE DEF g
<1>4. g.row \in Nat /\ g.severity \in Severities
  BY <1>1, <1>2, <1>3
<1> QED BY <1>4 DEF g

LEMMA DecodedIsPart ==
    ASSUME NEW e, e.items \in Nat, NEW answer, IsAnswer(answer),
           MaxFindings \in Nat
    PROVE  IsPart(decodeAIFileAnalysis(e, answer))
<1> DEFINE said == answer.findings
           m    == Min({Len(said), MaxFindings})
           kept == SubSeq(said, 1, m)
           Read(f) == [f EXCEPT !.severity = normalizeSeverity(@), !.row = AtLeast0(@)]
           list == [k \in DOMAIN kept |-> Read(kept[k])]
           rows == IF SentRaw(e) THEN answer.rows ELSE Min({answer.rows, e.items})
           p    == decodeAIFileAnalysis(e, answer)
<1>1. p = [risk |-> normalizeRiskLevel(answer.risk), rows |-> AtLeast0(rows),
           total |-> AtLeast0(answer.total), findings |-> list]
  BY DEF decodeAIFileAnalysis
<1>2. Len(said) \in Nat /\ DOMAIN said = 1..Len(said) /\ said \in Seq(ToSet(said))
  BY ListDomain DEF IsAnswer, IsList
<1>3. m \in 0..Len(said)
  <2> HIDE DEF said
  <2>1. Len(said) \in Int /\ MaxFindings \in Int
    BY <1>2
  <2>2. m = IF Len(said) <= MaxFindings THEN Len(said) ELSE MaxFindings
    BY <2>1, TwoNumbers
  <2> HIDE DEF m
  <2> QED BY <1>2, <2>2
<1>4. /\ kept \in Seq(ToSet(said)) /\ Len(kept) = m
  <2> HIDE DEF said, m
  <2>1. 1 \in 1..(Len(said) + 1) /\ m \in (1 - 1)..Len(said) /\ m - 1 + 1 = m
    BY <1>2, <1>3
  <2>2. IF 1 <= m THEN Len(kept) = m - 1 + 1 ELSE Len(kept) = 0
    BY <1>2, <2>1, SubSeqProperties
  <2>3. kept \in Seq(ToSet(said))
    BY <1>2, <2>1, SubSeqProperties
  <2> HIDE DEF kept
  <2> QED BY <1>2, <1>3, <2>1, <2>2, <2>3
<1> HIDE DEF kept
<1>5. m \in Nat /\ DOMAIN kept = 1..m /\ \A k \in 1..m : kept[k] \in ToSet(said)
  BY <1>3, <1>4, LenProperties, ElementOfSeq
<1>6. \A k \in 1..m : Read(kept[k]).row \in Nat /\ Read(kept[k]).severity \in Severities
  <2> SUFFICES ASSUME NEW k \in 1..m
               PROVE  Read(kept[k]).row \in Nat /\ Read(kept[k]).severity \in Severities
    OBVIOUS
  <2>1. IsFinding(kept[k]) /\ kept[k].row \in Int
    BY <1>5 DEF IsAnswer
  <2> QED BY <2>1, ReadFinding
<1> HIDE DEF m, said, Read
<1>7. list = [k \in 1..m |-> list[k]] /\ \A k \in 1..m : list[k] = Read(kept[k])
  BY <1>5
<1> HIDE DEF list
<1>8. KnownFindings(list)
  <2>1. IsList(list) /\ DOMAIN list = 1..m
    BY <1>5, <1>7, FunctionIsList
  <2> QED BY <1>6, <1>7, <2>1 DEF KnownFindings
<1>9. rows \in Int /\ answer.total \in Int
  <2>1. answer.rows \in Int /\ answer.total \in Int /\ e.items \in Int
    BY DEF IsAnswer
  <2>2. Min({answer.rows, e.items}) = IF answer.rows <= e.items THEN answer.rows ELSE e.items
    BY <2>1, TwoNumbers
  <2> QED BY <2>1, <2>2
<1> HIDE DEF rows
<1>10. AtLeast0(rows) \in Nat /\ AtLeast0(answer.total) \in Nat
  BY <1>9, AtLeast0Natural
<1>11. normalizeRiskLevel(answer.risk) \in KnownRisks
  BY DEF normalizeRiskLevel, Risks, KnownRisks
<1> HIDE DEF p
<1>12. IsPart(p)
  BY <1>1, <1>8, <1>10, <1>11 DEF IsPart
<1> QED BY <1>12 DEF p

LEMMA RulesIsAnalysis ==
    ASSUME NEW e, IsEstimate(e)
    PROVE  IsAnalysis(rulesFileAnalysis(e))
<1> DEFINE list == [k \in DOMAIN e.findings |-> [e.findings[k] EXCEPT !.row = 0]]
           a    == rulesFileAnalysis(e)
           n    == Len(e.findings)
<1>1. a = [mode |-> "backend_rules", risk |-> buildAISummary(e), rows |-> e.items,
           total |-> e.total, findings |-> list]
  BY DEF rulesFileAnalysis
<1>2. buildAISummary(e) \in KnownRisks
  BY DEF buildAISummary, KnownRisks
<1>3. n \in Nat /\ DOMAIN e.findings = 1..n
  BY ListDomain DEF IsEstimate
<1>4. \A k \in 1..n : IsFinding(e.findings[k]) /\ e.findings[k].severity \in Severities
  BY <1>3 DEF IsEstimate, ToSet
<1> HIDE DEF n
<1>5. list = [k \in 1..n |-> list[k]]
      /\ \A k \in 1..n : list[k] = [e.findings[k] EXCEPT !.row = 0]
  BY <1>3
<1> HIDE DEF list
<1>6. \A k \in 1..n : list[k].row = 0 /\ list[k].severity = e.findings[k].severity
  <2> SUFFICES ASSUME NEW k \in 1..n
               PROVE  list[k].row = 0 /\ list[k].severity = e.findings[k].severity
    OBVIOUS
  <2> DEFINE f == e.findings[k]
             g == [f EXCEPT !.row = 0]
  <2>1. IsFinding(f) /\ list[k] = g
    BY <1>4, <1>5
  <2> HIDE DEF f
  <2>2. g.row = 0 /\ g.severity = f.severity
    BY <2>1 DEF IsFinding
  <2> HIDE DEF g
  <2> QED BY <2>1, <2>2 DEF f
<1>7. KnownFindings(list)
  <2>1. IsList(list) /\ DOMAIN list = 1..n
    BY <1>3, <1>5, FunctionIsList
  <2> QED BY <1>4, <1>6, <2>1 DEF KnownFindings
<1> HIDE DEF a
<1>8. IsPart(a) /\ a.mode = "backend_rules"
  BY <1>1, <1>2, <1>7 DEF IsPart, IsEstimate
<1>9. IsAnalysis(a)
  BY <1>8 DEF IsAnalysis
<1> QED BY <1>9 DEF a

LEMMA RawIsAnalysis ==
    ASSUME NEW p, IsPart(p)
    PROVE  IsAnalysis(rawFileAnalysis(p))
BY DEF IsPart, IsAnalysis, rawFileAnalysis

-----------------------------------------------------------------------------
(* The answers for a file put together.                                    *)

Lists(answers) == [k \in DOMAIN answers |-> answers[k].findings]

Merged(a, e, answers) ==
    /\ IsAnalysis(a)
    /\ a.rows <= e.items
    /\ \A i, j \in DOMAIN a.findings :
         i # j => normalizedAIFindingKey(a.findings[i]) # normalizedAIFindingKey(a.findings[j])
    /\ \A k \in DOMAIN answers :
         /\ riskLevelRank(a.risk) >= riskLevelRank(answers[k].risk)
         /\ \A f \in ToSet(answers[k].findings) : SaidBefore(f, k, Lists(answers), a.findings)

LEMMA ListOver ==
    ASSUME NEW s, IsList(s), NEW Q, ToSet(s) \subseteq Q
    PROVE  s \in Seq(Q)
<1> DEFINE n == Len(s)
<1>1. n \in Nat /\ DOMAIN s = 1..n
  BY ListDomain
<1>2. s \in Seq(ToSet(s))
  BY DEF IsList
<1>3. \A i \in 1..n : s[i] \in Q
  BY <1>1 DEF ToSet
<1>4. s = [i \in 1..n |-> s[i]]
  BY <1>2
<1> HIDE DEF n
<1>5. s \in [1..n -> Q]
  BY <1>3, <1>4
<1> QED BY <1>1, <1>5

LEMMA MergeKeeps ==
    ASSUME NEW e, e.items \in Nat, NEW answers, IsList(answers), Len(answers) # 0,
           \A k \in DOMAIN answers : IsPart(answers[k])
    PROVE  Merged(mergeAIFileAnalyses(e, answers), e, answers)
<1> DEFINE n    == Len(answers)
           seqs == Lists(answers)
           Q    == UNION {ToSet(seqs[k]) : k \in 1..n}
           all  == FlattenSeq(seqs)
           out  == Deduplicated(all)
           a    == mergeAIFileAnalyses(e, answers)
<1>1. n \in Nat \ {0} /\ DOMAIN answers = 1..n
  BY ListDomain
<1>2. a = [mode     |-> "normalized_chunks",
           risk     |-> Highest("Low", answers),
           rows     |-> Min({e.items, RowSum(answers)}),
           total    |-> TotalSum(answers),
           findings |-> out]
  BY MergedIs DEF Lists
<1>3. \A k \in 1..n : seqs[k] = answers[k].findings /\ KnownFindings(seqs[k])
  BY <1>1 DEF Lists, IsPart
<1>4. Len(seqs) = n
  <2>1. seqs = [k \in 1..n |-> seqs[k]]
    BY <1>1 DEF Lists
  <2> HIDE DEF n, seqs
  <2> QED BY <1>1, <2>1, FunctionIsList
<1>5. \A k \in 1..n : seqs[k] \in Seq(Q)
  <2> SUFFICES ASSUME NEW k \in 1..n PROVE seqs[k] \in Seq(Q)
    OBVIOUS
  <2>1. ToSet(seqs[k]) \subseteq Q
    OBVIOUS
  <2> HIDE DEF Q, n, seqs
  <2>2. IsList(seqs[k])
    BY <1>3 DEF KnownFindings
  <2> QED BY <2>1, <2>2, ListOver
<1>6. Flattened(all, n, seqs, Q)
  <2> HIDE DEF n, seqs, Q
  <2> QED BY <1>1, <1>4, <1>5, FlatIsFlattened
<1>7. \A x \in Q : x.row \in Nat /\ x.severity \in Severities
  <2> SUFFICES ASSUME NEW k \in 1..n, NEW x \in ToSet(seqs[k])
               PROVE  x.row \in Nat /\ x.severity \in Severities
    OBVIOUS
  <2> HIDE DEF seqs
  <2>1. PICK i \in DOMAIN seqs[k] : x = seqs[k][i]
    BY <1>3, ListDomain DEF ToSet, KnownFindings
  <2> QED BY <1>3, <2>1 DEF KnownFindings
<1> HIDE DEF n, seqs, Q, all, out, a
<1>8. IsList(all) /\ DOMAIN all = 1..Len(all) /\ \A i \in 1..Len(all) : all[i] \in Q
  <2>1. all \in Seq(Q)
    BY <1>6 DEF Flattened
  <2>2. Len(all) \in Nat /\ DOMAIN all = 1..Len(all) /\ \A i \in 1..Len(all) : all[i] \in Q
    BY <2>1, LenProperties, ElementOfSeq
  <2>3. all = [i \in 1..Len(all) |-> all[i]]
    BY <2>1
  <2>4. IsList(all)
    BY <2>2, <2>3, FunctionIsList
  <2> QED BY <2>2, <2>4
<1>9. Findings(all)
  BY <1>7, <1>8 DEF Findings
<1>10. Kept(out, all)
  BY <1>9, DeduplicatedKeeps DEF out
<1>11. KnownFindings(out)
  <2>1. \A x \in ToSet(all) : x \in Q
    BY <1>8 DEF ToSet
  <2> QED BY <1>7, <1>10, <2>1 DEF Kept, Findings, KnownFindings
<1>12. RowSum(answers) \in Nat /\ TotalSum(answers) \in Nat
  <2>1. \A k \in 1..n : answers[k].rows \in Nat /\ answers[k].total \in Nat
    BY <1>1 DEF IsPart
  <2> QED BY <1>1, <2>1, SumsAreNatural
<1> DEFINE rows == Min({e.items, RowSum(answers)})
           risk == Highest("Low", answers)
<1>13. rows \in Nat /\ rows <= e.items
  <2>0. e.items \in Int /\ RowSum(answers) \in Int
    BY <1>12
  <2>1. rows = IF e.items <= RowSum(answers) THEN e.items ELSE RowSum(answers)
    BY <2>0, TwoNumbers
  <2> HIDE DEF rows
  <2> QED BY <1>12, <2>1
<1>14. /\ risk \in {"Low"} \cup {answers[k].risk : k \in 1..n}
       /\ \A k \in 1..n : riskLevelRank(risk) >= riskLevelRank(answers[k].risk)
  BY <1>1, HighestCovers
<1> HIDE DEF rows, risk
<1>15. risk \in KnownRisks
  BY <1>1, <1>14 DEF IsPart, KnownRisks
<1>16. /\ a.mode = "normalized_chunks" /\ a.risk = risk /\ a.rows = rows
       /\ a.total = TotalSum(answers) /\ a.findings = out
  BY <1>2 DEF rows, risk
<1>17. IsAnalysis(a)
  BY <1>11, <1>12, <1>13, <1>15, <1>16 DEF IsAnalysis, IsPart
<1>18. ASSUME NEW k \in 1..n, NEW f \in ToSet(answers[k].findings)
       PROVE  SaidBefore(f, k, seqs, out)
  <2>1. f \in ToSet(seqs[k])
    BY <1>3
  <2> QED BY <1>1, <1>6, <1>10, <2>1, FirstIsKept
<1>19. Merged(a, e, answers)
  BY <1>1, <1>10, <1>13, <1>14, <1>16, <1>17, <1>18 DEF Merged, Kept, seqs
<1> QED BY <1>19 DEF a

-----------------------------------------------------------------------------
(* The report of a file.                                                   *)

(* The findings of the AI a report is made of.                             *)
Heeded(a) == IF isIndependentAIAnalysis(a) THEN a.findings ELSE <<>>

Covers(r, e, a) ==
    /\ \A f \in ToSet(e.findings) :
         f.severity \in {"Medium", "High"} => riskLevelRank(r.risk) >= severityRank(f.severity)
    /\ isIndependentAIAnalysis(a) => riskLevelRank(r.risk) >= riskLevelRank(a.risk)

Earned(r, e, a) ==
    /\ r.agreement \in 0..100
    /\ ~isIndependentAIAnalysis(a) => r.agreement = 0 /\ Confirmed(r.findings) = {}
    /\ r.findings # <<>> =>
         (r.agreement - 1) * Len(r.findings) < 100 * Cardinality(Confirmed(r.findings))
    /\ e.items > 0 => (r.agreement - 1) * e.items < 100 * a.rows

IsReport(r) ==
    /\ r.risk \in KnownRisks /\ r.aiRisk \in KnownRisks
    /\ r.total \in Nat /\ r.aiTotal \in Nat

ReportFindings(e, a) == sortUnifiedFindings(Unified(e.findings, Heeded(a)))

LEMMA ReportIs ==
    ASSUME NEW e, NEW a
    PROVE  LET r    == reconcileFile(e, a)
               risk == riskFromProviderFindings(e.findings)
           IN  /\ r.findings = ReportFindings(e, a)
               /\ r.total = e.total
               /\ isIndependentAIAnalysis(a) =>
                    /\ r.aiRisk = normalizeRiskLevel(a.risk)
                    /\ r.risk = higherRiskLevel(risk, a.risk)
                    /\ r.agreement = AgreementScore(e, a, ReportFindings(e, a))
                    /\ r.aiTotal = a.total
               /\ ~isIndependentAIAnalysis(a) =>
                    r.aiRisk = "Unknown" /\ r.risk = risk /\ r.agreement = 0 /\ r.aiTotal = 0
<1>1. CASE isIndependentAIAnalysis(a)
  BY <1>1 DEF reconcileFile, ReportFindings, Heeded
<1>2. CASE ~isIndependentAIAnalysis(a)
  BY <1>2 DEF reconcileFile, ReportFindings, Heeded
<1> QED BY <1>1, <1>2

LEMMA ReportIsReported ==
    ASSUME NEW e, IsEstimate(e), NEW a, IsAnalysis(a)
    PROVE  Reported(ReportFindings(e, a), e.findings, Heeded(a))
<1>1. Findings(e.findings)
  <2>1. DOMAIN e.findings = 1..Len(e.findings)
    BY ListDomain DEF IsEstimate
  <2>2. \A k \in DOMAIN e.findings : e.findings[k] \in ToSet(e.findings)
    BY DEF ToSet
  <2> QED BY <2>2 DEF Findings, IsEstimate
<1>2. Findings(Heeded(a))
  BY KnownAreFindings, EmptyList DEF Heeded, IsAnalysis, IsPart
<1> QED BY <1>1, <1>2, SortedIsReported DEF ReportFindings

LEMMA ReportCovers ==
    ASSUME NEW e, IsEstimate(e), NEW a, IsAnalysis(a)
    PROVE  Covers(reconcileFile(e, a), e, a) /\ IsReport(reconcileFile(e, a))
<1> DEFINE r    == reconcileFile(e, a)
           risk == riskFromProviderFindings(e.findings)
<1>1. /\ r.total = e.total
      /\ isIndependentAIAnalysis(a) => /\ r.aiRisk = normalizeRiskLevel(a.risk)
                                       /\ r.risk = higherRiskLevel(risk, a.risk)
                                       /\ r.aiTotal = a.total
      /\ ~isIndependentAIAnalysis(a) => r.aiRisk = "Unknown" /\ r.risk = risk /\ r.aiTotal = 0
  BY ReportIs
<1>2. /\ risk \in {"Low", "Medium", "High"}
      /\ \A f \in ToSet(e.findings) :
           f.severity \in {"Medium", "High"} => riskLevelRank(risk) >= severityRank(f.severity)
  <2>1. risk \in {"Low", "Medium", "High"}
    BY DEF riskFromProviderFindings
  <2>2. ASSUME NEW f \in ToSet(e.findings), f.severity \in {"Medium", "High"}
        PROVE  riskLevelRank(risk) >= severityRank(f.severity)
    <3>1. f.severity \in {e.findings[k].severity : k \in DOMAIN e.findings}
      BY DEF ToSet
    <3>2. CASE f.severity = "High"
      <4>1. risk = "High"
        BY <3>1, <3>2 DEF riskFromProviderFindings
      <4> QED BY <3>2, <4>1 DEF riskLevelRank, severityRank
    <3>3. CASE f.severity = "Medium"
      <4>1. risk \in {"High", "Medium"}
        BY <3>1, <3>3 DEF riskFromProviderFindings
      <4> QED BY <3>3, <4>1 DEF riskLevelRank, severityRank
    <3> QED BY <2>2, <3>2, <3>3
  <2> QED BY <2>1, <2>2
<1> HIDE DEF r, risk
<1>3. /\ higherRiskLevel(risk, a.risk) \in {risk, a.risk}
      /\ riskLevelRank(higherRiskLevel(risk, a.risk)) >= riskLevelRank(risk)
      /\ riskLevelRank(higherRiskLevel(risk, a.risk)) >= riskLevelRank(a.risk)
  BY HigherIsHigher
<1>4. r.risk \in {risk, a.risk} /\ riskLevelRank(r.risk) >= riskLevelRank(risk)
  <2>1. CASE isIndependentAIAnalysis(a)
    BY <1>1, <1>3, <2>1
  <2>2. CASE ~isIndependentAIAnalysis(a)
    <3>1. riskLevelRank(risk) \in Int
      BY RiskRanks
    <3> QED BY <1>1, <2>2, <3>1
  <2> QED BY <2>1, <2>2
<1>5. Covers(r, e, a)
  <2>1. \A f \in ToSet(e.findings) :
           f.severity \in {"Medium", "High"} => riskLevelRank(r.risk) >= severityRank(f.severity)
    <3> SUFFICES ASSUME NEW f \in ToSet(e.findings), f.severity \in {"Medium", "High"}
                 PROVE  riskLevelRank(r.risk) >= severityRank(f.severity)
      OBVIOUS
    <3>1. riskLevelRank(risk) >= severityRank(f.severity)
      BY <1>2
    <3>2. \A x, y, z \in Int : x >= y /\ y >= z => x >= z
      OBVIOUS
    <3>3. /\ riskLevelRank(r.risk) \in Int /\ riskLevelRank(risk) \in Int
          /\ severityRank(f.severity) \in Int
      BY RiskRanks, SeverityRanks
    <3> QED BY <1>4, <3>1, <3>2, <3>3
  <2> QED BY <1>1, <1>3, <2>1 DEF Covers
<1>6. IsReport(r)
  <2>1. a.risk \in KnownRisks /\ a.total \in Nat /\ e.total \in Nat /\ risk \in KnownRisks
    BY <1>2 DEF IsAnalysis, IsPart, IsEstimate, KnownRisks
  <2>2. normalizeRiskLevel(a.risk) \in KnownRisks /\ "Unknown" \in KnownRisks
    BY DEF normalizeRiskLevel, Risks, KnownRisks
  <2>3. r.risk \in KnownRisks
    BY <1>4, <2>1
  <2>4. r.total \in Nat
    BY <1>1, <2>1
  <2>5. CASE isIndependentAIAnalysis(a)
    BY <1>1, <2>1, <2>2, <2>3, <2>4, <2>5 DEF IsReport
  <2>6. CASE ~isIndependentAIAnalysis(a)
    BY <1>1, <2>2, <2>3, <2>4, <2>6 DEF IsReport
  <2> QED BY <2>5, <2>6
<1> QED BY <1>5, <1>6 DEF r

LEMMA Multiplied ==
    ASSUME NEW x \in Int, NEW y \in Int, x <= y, NEW c \in Nat
    PROVE  x * c <= y * c
<1>1. \A a, b \in Nat : a * b >= 0
  OBVIOUS
<1>2. y - x \in Nat
  OBVIOUS
<1>3. (y - x) * c >= 0
  BY <1>1, <1>2
<1>4. (y - x) * c = y * c - x * c /\ x * c \in Int /\ y * c \in Int
  OBVIOUS
<1> QED BY <1>3, <1>4

(* The score for a share of c in n findings, and of rows in so many.       *)
Score(c, n, rows, of) == Covered(IF n = 0 THEN 100 ELSE Rounded(100 * c, n), rows, of)

ScoreIsRight(s, c, n, rows, of) ==
    /\ s \in 0..100
    /\ n # 0 => (s - 1) * n < 100 * c
    /\ of > 0 => (s - 1) * of < 100 * rows

LEMMA ScoreBounds ==
    ASSUME NEW n \in Nat, NEW c \in 0..n, NEW rows \in Nat, NEW of \in Nat
    PROVE  ScoreIsRight(Score(c, n, rows, of), c, n, rows, of)
<1> DEFINE found == IF n = 0 THEN 100 ELSE Rounded(100 * c, n)
           s     == Covered(found, rows, of)
<1>1. found \in 0..100 /\ (n # 0 => (found - 1) * n < 100 * c)
  <2>1. CASE n = 0
    BY <2>1
  <2>2. CASE n # 0
    <3>1. 100 * c \in Nat /\ n \in Nat \ {0} /\ 100 * c <= 100 * n /\ 100 \in Nat
      BY <2>2
    <3> DEFINE R == Rounded(100 * c, n)
    <3>2. R \in Nat /\ (R - 1) * n < 100 * c /\ R <= 100
      BY <3>1, RoundedBounds
    <3>3. found = R
      BY <2>2
    <3> HIDE DEF R, found
    <3> QED BY <3>2, <3>3
  <2> QED BY <2>1, <2>2
<1> DEFINE Right == /\ s \in 0..100
                    /\ n # 0 => (s - 1) * n < 100 * c
                    /\ of > 0 => (s - 1) * of < 100 * rows
<1> HIDE DEF found, s
<1>2. ASSUME of = 0 \/ rows >= of PROVE Right
  <2>1. s = found
    BY <1>2 DEF Covered, s
  <2>2. of > 0 => (found - 1) * of < 100 * rows
    <3> SUFFICES ASSUME of > 0 PROVE (found - 1) * of < 100 * rows
      OBVIOUS
    <3>1. found - 1 \in Int /\ found - 1 <= 99
      BY <1>1
    <3>2. (found - 1) * of <= 99 * of
      BY <3>1, Multiplied
    <3>3. (found - 1) * of \in Int
      BY <3>1
    <3> DEFINE x == (found - 1) * of
    <3>4. x \in Int /\ x <= 99 * of /\ rows >= of
      BY <1>2, <3>2, <3>3
    <3> HIDE DEF x
    <3>5. x < 100 * rows
      BY <3>4
    <3> QED BY <3>5 DEF x
  <2> QED BY <1>1, <2>1, <2>2
<1>3. ASSUME ~ (of = 0 \/ rows >= of) PROVE Right
  <2> DEFINE R == Rounded(found * rows, of)
  <2>1. s = R
    BY <1>3 DEF Covered, s
  <2>2. found \in Nat /\ found * rows \in Nat /\ of \in Nat \ {0} /\ found <= 100
    BY <1>1, <1>3
  <2>3. found * rows <= found * of
    <3>1. rows <= of /\ rows \in Int /\ of \in Int
      BY <1>3
    <3>2. rows * found <= of * found
      BY <2>2, <3>1, Multiplied
    <3>3. rows * found = found * rows /\ of * found = found * of
      BY <2>2
    <3> QED BY <3>2, <3>3
  <2>4. R \in Nat /\ (R - 1) * of < found * rows /\ R <= found
    BY <2>2, <2>3, RoundedBounds
  <2> HIDE DEF R
  <2>5. R \in 0..100
    BY <2>2, <2>4
  <2>6. found * rows <= 100 * rows
    BY <2>2, Multiplied
  <2>7. (R - 1) * of < 100 * rows
    <3>1. (R - 1) * of \in Int /\ found * rows \in Int /\ 100 * rows \in Int
      BY <2>2, <2>4
    <3> QED BY <2>4, <2>6, <3>1
  <2>8. n # 0 => (R - 1) * n < 100 * c
    <3> SUFFICES ASSUME n # 0 PROVE (R - 1) * n < 100 * c
      OBVIOUS
    <3>1. R - 1 \in Int /\ found - 1 \in Int /\ R - 1 <= found - 1
      BY <2>2, <2>4
    <3>2. (R - 1) * n <= (found - 1) * n
      BY <3>1, Multiplied
    <3>3. (R - 1) * n \in Int /\ (found - 1) * n \in Int /\ 100 * c \in Int
      BY <3>1
    <3> QED BY <1>1, <3>2, <3>3
  <2> QED BY <2>1, <2>5, <2>7, <2>8
<1>4. Right
  BY <1>2, <1>3
<1> QED BY <1>4 DEF s, found, Score, ScoreIsRight

LEMMA ConfirmedAtMost ==
    ASSUME NEW list, IsList(list)
    PROVE  Cardinality(Confirmed(list)) \in 0..Len(list)
<1>1. Len(list) \in Nat /\ DOMAIN list = 1..Len(list)
  BY ListDomain
<1>2. IsFiniteSet(1..Len(list)) /\ Cardinality(1..Len(list)) = Len(list)
  <2>1. \A n \in Nat : IsFiniteSet(1..n) /\ Cardinality(1..n) = n
    BY FS_Interval
  <2> QED BY <1>1, <2>1
<1>3. Confirmed(list) \in SUBSET (1..Len(list))
  BY <1>1 DEF Confirmed
<1>4. IsFiniteSet(Confirmed(list)) /\ Cardinality(Confirmed(list)) <= Len(list)
  BY <1>2, <1>3, FS_Subset
<1>5. Cardinality(Confirmed(list)) \in Nat
  BY <1>4, FS_CardinalityType
<1> QED BY <1>1, <1>4, <1>5

LEMMA ReportEarned ==
    ASSUME NEW e, IsEstimate(e), NEW a, IsAnalysis(a)
    PROVE  Earned(reconcileFile(e, a), e, a)
<1> DEFINE r    == reconcileFile(e, a)
           list == ReportFindings(e, a)
           n    == Len(list)
           c    == Cardinality(Confirmed(list))
<1>1. /\ r.findings = list
      /\ isIndependentAIAnalysis(a) => r.agreement = AgreementScore(e, a, list)
      /\ ~isIndependentAIAnalysis(a) => r.agreement = 0
  BY ReportIs
<1>2. Reported(list, e.findings, Heeded(a))
  BY ReportIsReported
<1>3. e.items \in Nat /\ a.rows \in Nat
  BY DEF IsEstimate, IsAnalysis, IsPart
<1> HIDE DEF r, list
<1>4. IsList(list) /\ n \in Nat /\ DOMAIN list = 1..n /\ c \in 0..n
  BY <1>2, ListDomain, ConfirmedAtMost DEF Reported
<1>5. list = <<>> <=> n = 0
  BY <1>4, EmptyList, EmptySeq DEF IsList
<1> HIDE DEF n, c
<1>6. ASSUME isIndependentAIAnalysis(a) PROVE Earned(r, e, a)
  <2> DEFINE s == Score(c, n, a.rows, e.items)
  <2>1. AgreementScore(e, a, list) = s
    BY <1>5 DEF AgreementScore, Score, n, c
  <2>2. ScoreIsRight(s, c, n, a.rows, e.items)
    BY <1>3, <1>4, ScoreBounds
  <2> HIDE DEF s
  <2>3. r.agreement = s
    BY <1>1, <1>6, <2>1
  <2> QED BY <1>1, <1>5, <1>6, <2>2, <2>3 DEF Earned, ScoreIsRight, n, c
<1>7. ASSUME ~isIndependentAIAnalysis(a) PROVE Earned(r, e, a)
  <2>1. Heeded(a) = <<>> /\ r.agreement = 0
    BY <1>1, <1>7 DEF Heeded
  <2>2. \A k \in DOMAIN list : list[k].theirs = 0
    <3>1. Len(Heeded(a)) = 0
      BY <2>1, EmptyList
    <3>2. \A k \in DOMAIN list : list[k].theirs \in 0..0
      BY <1>2, <3>1 DEF Reported, Fair
    <3> QED BY <3>2
  <2>3. Confirmed(list) = {}
    BY <2>2 DEF Confirmed
  <2>4. c = 0
    BY <2>3, FS_EmptySet DEF c
  <2>5. n # 0 => (0 - 1) * n < 100 * c
    BY <1>4, <2>4
  <2>6. e.items > 0 => (0 - 1) * e.items < 100 * a.rows
    BY <1>3
  <2> QED BY <1>1, <1>5, <1>7, <2>1, <2>3, <2>5, <2>6 DEF Earned, n, c
<1>8. Earned(r, e, a)
  BY <1>6, <1>7
<1> QED BY <1>8 DEF r

(* The property EachFindingOnce of one report.                             *)
Once(list, ours, ai) ==
    LET Milder(f, g) == severityRank(f.severity) < severityRank(g.severity)
    IN  /\ \A b \in DOMAIN ours : Cardinality({i \in DOMAIN list : list[i].ours = b}) = 1
        /\ \A a \in DOMAIN ai : Cardinality({i \in DOMAIN list : list[i].theirs = a}) = 1
        /\ \A i \in DOMAIN list :
            LET b == list[i].ours
                a == list[i].theirs
            IN  /\ b \in 0..Len(ours) /\ a \in 0..Len(ai)
                /\ b > 0 => ~Milder(list[i], ours[b])
                /\ a > 0 => ~Milder(list[i], ai[a])
                /\ (a > 0 /\ b > 0) => sameRow(ours[b], ai[a]) \/ tokenOverlap(ours[b], ai[a])
                /\ i > 1 => ~Milder(list[i - 1], list[i])

LEMMA ReportedOnce ==
    ASSUME NEW list, NEW ours, NEW ai, Reported(list, ours, ai)
    PROVE  Once(list, ours, ai)
<1>1. \A b \in DOMAIN ours : Cardinality({i \in DOMAIN list : list[i].ours = b}) = 1
  <2> SUFFICES ASSUME NEW b \in DOMAIN ours
               PROVE  Cardinality({i \in DOMAIN list : list[i].ours = b}) = 1
    OBVIOUS
  <2>1. PICK i \in DOMAIN list :
           list[i].ours = b /\ \A j \in DOMAIN list : list[j].ours = b => j = i
    BY DEF Reported, OnceEach
  <2>2. {j \in DOMAIN list : list[j].ours = b} = {i}
    BY <2>1
  <2> QED BY <2>2, FS_Singleton
<1>2. \A a \in DOMAIN ai : Cardinality({i \in DOMAIN list : list[i].theirs = a}) = 1
  <2> SUFFICES ASSUME NEW a \in DOMAIN ai
               PROVE  Cardinality({i \in DOMAIN list : list[i].theirs = a}) = 1
    OBVIOUS
  <2>1. PICK i \in DOMAIN list :
           list[i].theirs = a /\ \A j \in DOMAIN list : list[j].theirs = a => j = i
    BY DEF Reported, OnceEach
  <2>2. {j \in DOMAIN list : list[j].theirs = a} = {i}
    BY <2>1
  <2> QED BY <2>2, FS_Singleton
<1>3. \A x, y : severityRank(x) >= severityRank(y) => ~ (severityRank(x) < severityRank(y))
  <2> SUFFICES ASSUME NEW x, NEW y, severityRank(x) >= severityRank(y)
               PROVE  ~ (severityRank(x) < severityRank(y))
    OBVIOUS
  <2>1. severityRank(x) \in Int /\ severityRank(y) \in Int
    BY SeverityRanks
  <2> QED BY <2>1
<1>4. ASSUME NEW i \in DOMAIN list
      PROVE  /\ list[i].ours \in 0..Len(ours) /\ list[i].theirs \in 0..Len(ai)
             /\ list[i].ours > 0 =>
                  ~ (severityRank(list[i].severity) < severityRank(ours[list[i].ours].severity))
             /\ list[i].theirs > 0 =>
                  ~ (severityRank(list[i].severity) < severityRank(ai[list[i].theirs].severity))
             /\ (list[i].theirs > 0 /\ list[i].ours > 0) =>
                  \/ sameRow(ours[list[i].ours], ai[list[i].theirs])
                  \/ tokenOverlap(ours[list[i].ours], ai[list[i].theirs])
  <2>1. Fair(list[i], ours, ai)
    BY DEF Reported
  <2> QED BY <1>3, <2>1 DEF Fair
<1>5. ASSUME NEW i \in DOMAIN list, i > 1
      PROVE  ~ (severityRank(list[i - 1].severity) < severityRank(list[i].severity))
  <2>1. Len(list) \in Nat /\ DOMAIN list = 1..Len(list)
    BY ListDomain DEF Reported
  <2>2. i - 1 \in DOMAIN list /\ i - 1 < i
    BY <1>5, <2>1
  <2>3. severityRank(list[i - 1].severity) >= severityRank(list[i].severity)
    BY <2>2 DEF Reported
  <2> QED BY <1>3, <2>3
<1> QED BY <1>1, <1>2, <1>4, <1>5 DEF Once

-----------------------------------------------------------------------------
(* Slices that grow.                                                       *)

OneMore(u, s, x) ==
    /\ IsList(u) /\ Len(u) = Len(s) + 1 /\ DOMAIN u = 1..(Len(s) + 1)
    /\ u[Len(s) + 1] = x
    /\ \A k \in 1..Len(s) : u[k] = s[k]

LEMMA Appended ==
    ASSUME NEW s, IsList(s), NEW x
    PROVE  OneMore(Append(s, x), s, x)
<1> DEFINE n == Len(s)
           Q == ToSet(s) \cup {x}
           u == Append(s, x)
<1>1. n \in Nat /\ DOMAIN s = 1..n /\ \A k \in 1..n : s[k] \in ToSet(s)
  BY ListDomain DEF ToSet
<1>2. s \in Seq(Q) /\ x \in Q
  <2>1. ToSet(s) \subseteq Q
    OBVIOUS
  <2> HIDE DEF Q
  <2>2. s \in Seq(Q)
    BY <2>1, ListOver
  <2> QED BY <2>2 DEF Q
<1> HIDE DEF Q, u
<1>3. /\ u \in Seq(Q) /\ Len(u) = n + 1
      /\ \A k \in 1..n : u[k] = s[k]
      /\ u[n + 1] = x
  BY <1>2, AppendProperties DEF u
<1>4. DOMAIN u = 1..(n + 1) /\ u = [k \in 1..(n + 1) |-> u[k]] /\ n + 1 \in Nat
  BY <1>1, <1>3, LenProperties
<1>5. IsList(u)
  BY <1>4, FunctionIsList
<1>6. OneMore(u, s, x)
  BY <1>3, <1>4, <1>5 DEF OneMore
<1> QED BY <1>6 DEF u

(* What HeardIsKept says of an analysis, of the answers it is made of.     *)
KeptAll(a, e, said) ==
    /\ a.rows <= e.items
    /\ \A i, j \in DOMAIN a.findings :
         i # j => normalizedAIFindingKey(a.findings[i]) # normalizedAIFindingKey(a.findings[j])
    /\ \A k \in DOMAIN said :
         /\ riskLevelRank(a.risk) >= riskLevelRank(said[k].risk)
         /\ \A f \in ToSet(said[k].findings) :
              \/ f \in ToSet(a.findings)
              \/ \E h \in 1..k : \E g \in ToSet(said[h].findings) :
                   /\ normalizedAIFindingKey(g) = normalizedAIFindingKey(f)
                   /\ g \in ToSet(a.findings)

LEMMA MergedIsKept ==
    ASSUME NEW e, e.items \in Nat, NEW said, IsList(said), Len(said) # 0,
           \A k \in DOMAIN said : IsPart(said[k])
    PROVE  /\ IsAnalysis(mergeAIFileAnalyses(e, said))
           /\ KeptAll(mergeAIFileAnalyses(e, said), e, said)
<1> DEFINE a == mergeAIFileAnalyses(e, said)
           n == Len(said)
<1>1. n \in Nat /\ DOMAIN said = 1..n
  BY ListDomain
<1>2. Merged(a, e, said)
  BY MergeKeeps
<1> HIDE DEF a, n
<1>3. ASSUME NEW k \in 1..n, NEW f \in ToSet(said[k].findings)
      PROVE  \E h \in 1..k : \E g \in ToSet(said[h].findings) :
                   /\ normalizedAIFindingKey(g) = normalizedAIFindingKey(f)
                   /\ g \in ToSet(a.findings)
  <2>1. SaidBefore(f, k, Lists(said), a.findings)
    BY <1>1, <1>2, <1>3 DEF Merged
  <2>2. PICK h \in 1..k : \E g \in ToSet(Lists(said)[h]) :
           normalizedAIFindingKey(g) = normalizedAIFindingKey(f) /\ g \in ToSet(a.findings)
    BY <2>1 DEF SaidBefore
  <2>3. h \in 1..n
    BY <1>1
  <2>4. Lists(said)[h] = said[h].findings
    BY <1>1, <2>3 DEF Lists
  <2> QED BY <2>2, <2>4
<1>4. \A k \in 1..n : riskLevelRank(a.risk) >= riskLevelRank(said[k].risk)
  BY <1>1, <1>2 DEF Merged
<1>5. IsAnalysis(a) /\ KeptAll(a, e, said)
  BY <1>1, <1>2, <1>3, <1>4 DEF KeptAll, Merged
<1> QED BY <1>5 DEF a

-----------------------------------------------------------------------------
(* The inductive invariant                                                 *)

TypeOK ==
    /\ batch \in Batches /\ provider \in Providers /\ attempt \in 1..MaxAttempts
    /\ IsList(parts) /\ \A k \in DOMAIN parts : IsPart(parts[k])
    /\ IsList(analyses) /\ \A k \in DOMAIN analyses : IsAnalysis(analyses[k])
    /\ IsList(reports) /\ \A k \in DOMAIN reports : IsReport(reports[k])

(* A raw document is not cut into parts.                                   *)
RawIsWhole == Asking /\ SentRaw(File) => parts = <<>>

InTurn == Len(reports) <= Len(analyses) /\ Len(analyses) <= Len(batch)

ReportsAreReconciled ==
    \A k \in DOMAIN reports : reports[k] = reconcileFile(batch[k], analyses[k])

OverallRisk(list) == Highest("", list)

SummaryIsOfAll ==
    summary # NoSummary =>
        Len(reports) = Len(batch) /\ summary.risk = OverallRisk(reports)

IInv == TypeOK /\ RawIsWhole /\ InTurn /\ ReportsAreReconciled /\ SummaryIsOfAll

LEMMA BatchIsTyped ==
    ASSUME NEW b \in Batches
    PROVE  IsList(b) /\ Len(b) \in Nat /\ DOMAIN b = 1..Len(b)
           /\ \A k \in 1..Len(b) : IsEstimate(b[k])
<1>1. IsList(b) /\ \A e \in ToSet(b) : IsEstimate(e)
  BY ReconcileAssumption DEF IsEstimate
<1>2. Len(b) \in Nat /\ DOMAIN b = 1..Len(b)
  BY <1>1, ListDomain
<1> QED BY <1>1, <1>2 DEF ToSet

LEMMA SaidIsAnswer ==
    ASSUME provider \in {"openai", "gemini", "anthropic"},
           NEW e, NEW reply \in Replies, Readable(e, reply)
    PROVE  IsAnswer(Said(reply))
<1> DEFINE body == reply.body
           B    == Blocks(body)
<1>1. IsList(body) /\ DOMAIN body = 1..Len(body) /\ Len(body) \in Nat
  <2>1. IsList(body)
    BY ReconcileAssumption
  <2> QED BY <2>1, ListDomain
<1>2. B \subseteq 1..Len(body)
  BY <1>1 DEF Blocks, extractOpenAIOutputText, geminiText, anthropicToolCall
<1>3. B # {} /\ Said(reply) # garbled
  BY DEF Readable, Decodable
<1>4. Min(B) \in B
  <2> HIDE DEF B
  <2>1. B \subseteq Nat
    BY <1>1, <1>2
  <2> QED BY <1>3, <2>1, MinIn
<1> DEFINE block == body[Min(B)]
<1>5. block \in ToSet(body) /\ Said(reply) = block.said
  BY <1>1, <1>2, <1>4 DEF ToSet, Said
<1> HIDE DEF block, B
<1>6. block.said # garbled => IsAnswer(block.said)
  BY <1>5, ReconcileAssumption DEF IsAnswer
<1> QED BY <1>3, <1>5, <1>6

-----------------------------------------------------------------------------
(* The steps                                                               *)

LEMMA InitHolds == Init => IInv
<1> SUFFICES ASSUME Init PROVE IInv
  OBVIOUS
<1>1. MaxAttempts \in Nat \ {0}
  BY ReconcileAssumption
<1>2. TypeOK
  BY <1>1, EmptyList DEF Init, TypeOK
<1>3. RawIsWhole /\ ReportsAreReconciled /\ SummaryIsOfAll
  BY EmptyList DEF Init, RawIsWhole, ReportsAreReconciled, SummaryIsOfAll
<1>4. InTurn
  <2>1. Len(batch) \in Nat
    BY BatchIsTyped DEF Init
  <2> QED BY <2>1, EmptyList DEF Init, InTurn
<1> QED BY <1>2, <1>3, <1>4 DEF IInv

LEMMA FileIsTyped ==
    ASSUME TypeOK, Asking
    PROVE  /\ IsEstimate(File)
           /\ Len(batch) \in Nat /\ Len(analyses) \in Nat
<1>1. Len(analyses) \in Nat /\ DOMAIN analyses = 1..Len(analyses)
  BY ListDomain DEF TypeOK
<1>2. Len(batch) \in Nat /\ \A k \in 1..Len(batch) : IsEstimate(batch[k])
  BY BatchIsTyped DEF TypeOK
<1>3. Len(analyses) + 1 \in 1..Len(batch)
  BY <1>1, <1>2 DEF Asking
<1> QED BY <1>1, <1>2, <1>3 DEF File

LEMMA DoneHolds ==
    ASSUME IInv, Asking, NEW a, IsAnalysis(a), FileIsDone(a)
    PROVE  IInv'
<1>1. /\ analyses' = Append(analyses, a) /\ parts' = <<>> /\ attempt' = 1
      /\ batch' = batch /\ provider' = provider /\ reports' = reports /\ summary' = summary
  BY DEF FileIsDone
<1> DEFINE n == Len(analyses)
<1>2. n \in Nat /\ DOMAIN analyses = 1..n
  BY ListDomain DEF IInv, TypeOK
<1>3. OneMore(analyses', analyses, a)
  BY <1>1, Appended DEF IInv, TypeOK
<1>4. /\ IsList(analyses') /\ Len(analyses') = n + 1 /\ DOMAIN analyses' = 1..(n + 1)
      /\ analyses'[n + 1] = a
      /\ \A k \in 1..n : analyses'[k] = analyses[k]
      /\ \A k \in 1..(n + 1) : k \in 1..n \/ k = n + 1
  BY <1>2, <1>3 DEF OneMore
<1>5. \A k \in DOMAIN analyses' : IsAnalysis(analyses'[k])
  BY <1>2, <1>4 DEF IInv, TypeOK
<1>6. 1 \in 1..MaxAttempts
  BY ReconcileAssumption
<1>7. TypeOK'
  BY <1>1, <1>4, <1>5, <1>6, EmptyList DEF IInv, TypeOK
<1>8. RawIsWhole'
  BY <1>1 DEF RawIsWhole
<1>9. Len(batch) \in Nat /\ Len(reports) \in Nat /\ DOMAIN reports = 1..Len(reports)
  BY BatchIsTyped, ListDomain DEF IInv, TypeOK
<1>10. InTurn'
  BY <1>1, <1>2, <1>4, <1>9 DEF IInv, InTurn, Asking
<1>11. ReportsAreReconciled'
  <2>1. \A k \in 1..Len(reports) : k \in 1..n
    BY <1>2, <1>9 DEF IInv, InTurn
  <2>2. \A k \in DOMAIN reports : reports[k] = reconcileFile(batch[k], analyses'[k])
    BY <1>4, <1>9, <2>1 DEF IInv, ReportsAreReconciled
  <2> QED BY <1>1, <2>2 DEF ReportsAreReconciled
<1>12. SummaryIsOfAll'
  BY <1>1 DEF IInv, SummaryIsOfAll, NoSummary
<1> QED BY <1>7, <1>8, <1>10, <1>11, <1>12 DEF IInv

LEMMA RulesHold ==
    ASSUME IInv, AnalyzeByRules
    PROVE  IInv'
<1>1. PICK a : a = rulesFileAnalysis(File)
  OBVIOUS
<1>2. Asking /\ FileIsDone(a)
  BY <1>1 DEF AnalyzeByRules
<1>3. IsAnalysis(a)
  BY <1>1, <1>2, FileIsTyped, RulesIsAnalysis DEF IInv
<1> QED BY <1>2, <1>3, DoneHolds

LEMMA FailureHolds ==
    ASSUME IInv, ChunkFails
    PROVE  IInv'
<1>1. PICK r : r = rulesFileAnalysis(File)
  OBVIOUS
<1> DEFINE a == [r EXCEPT !.mode = "backend_fallback"]
<1>2. Asking /\ FileIsDone(a)
  BY <1>1 DEF ChunkFails
<1>3. IsAnalysis(r)
  BY <1>1, <1>2, FileIsTyped, RulesIsAnalysis DEF IInv
<1>4. r = [mode |-> r.mode, risk |-> r.risk, rows |-> r.rows,
           total |-> r.total, findings |-> r.findings]
  BY <1>1 DEF rulesFileAnalysis
<1>5. /\ a.mode = "backend_fallback" /\ a.risk = r.risk /\ a.rows = r.rows
      /\ a.total = r.total /\ a.findings = r.findings
  BY <1>4
<1> HIDE DEF a
<1>6. IsAnalysis(a)
  BY <1>3, <1>5 DEF IsAnalysis, IsPart
<1> QED BY <1>2, <1>6, DoneHolds

LEMMA Answered ==
    ASSUME TypeOK, Asking, provider # "rules", NEW reply \in Replies, Readable(File, reply)
    PROVE  IsPart(decodeAIFileAnalysis(File, Said(reply)))
<1>1. provider \in {"openai", "gemini", "anthropic"}
  BY ReconcileAssumption DEF TypeOK
<1>2. IsAnswer(Said(reply))
  BY <1>1, SaidIsAnswer
<1>3. File.items \in Nat /\ MaxFindings \in Nat
  BY FileIsTyped, ReconcileAssumption DEF IsEstimate
<1> QED BY <1>2, <1>3, DecodedIsPart

(* No file is made of no chunks.                                           *)
LEMMA SomeChunks ==
    ASSUME NEW e, e.items \in Nat
    PROVE  Chunks(e) \in Nat \ {0}
<1>1. CASE e.items = 0 \/ SentRaw(e)
  BY <1>1 DEF Chunks
<1>2. CASE ~(e.items = 0 \/ SentRaw(e))
  <2> DEFINE R == RowsPerChunk
             n == e.items + R - 1
             q == n \div R
  <2>1. R \in Nat \ {0} /\ n \in Nat /\ n >= R
    BY <1>2, ReconcileAssumption
  <2>2. Chunks(e) = q
    BY <1>2 DEF Chunks
  <2> HIDE DEF R, n
  <2>3. q \in Int /\ n < (q + 1) * R
    BY <2>1
  <2> HIDE DEF q
  <2>4. \A i \in Int, r \in Nat : i <= 0 => i * r <= 0
    BY SMT
  <2>5. q > 0
    <3> SUFFICES ASSUME q <= 0 PROVE FALSE
      BY <2>3
    <3>1. q * R <= 0 /\ (q + 1) * R = q * R + R /\ q * R \in Int
      BY <2>1, <2>3, <2>4
    <3> QED BY <2>1, <2>3, <3>1
  <2> QED BY <2>2, <2>3, <2>5
<1> QED BY <1>1, <1>2

(* What is merged are the answers to all chunks, one at least.             *)
LEMMA AllAreMerged ==
    ASSUME TypeOK, MergeChunks
    PROVE  /\ File.items \in Nat /\ IsList(parts) /\ Len(parts) # 0
           /\ \A k \in DOMAIN parts : IsPart(parts[k])
           /\ FileIsDone(mergeAIFileAnalyses(File, parts))
<1>1. Asking /\ Len(parts) = Chunks(File) /\ FileIsDone(mergeAIFileAnalyses(File, parts))
  BY DEF MergeChunks
<1>2. File.items \in Nat
  BY <1>1, FileIsTyped DEF IsEstimate
<1>3. Len(parts) # 0
  BY <1>1, <1>2, SomeChunks
<1> QED BY <1>1, <1>2, <1>3 DEF TypeOK

LEMMA MergeHolds ==
    ASSUME IInv, MergeChunks
    PROVE  IInv'
<1>1. Asking /\ TypeOK
  BY DEF MergeChunks, IInv
<1>2. PICK a : a = mergeAIFileAnalyses(File, parts)
  OBVIOUS
<1>3. IsAnalysis(a) /\ FileIsDone(a)
  BY <1>1, <1>2, AllAreMerged, MergedIsKept
<1> QED BY <1>1, <1>3, DoneHolds

LEMMA RawHolds ==
    ASSUME IInv, AnalyzeRawPDF
    PROVE  IInv'
<1>1. PICK reply \in Replies :
         Readable(File, reply) /\ FileIsDone(rawFileAnalysis(Heard(reply)[1]))
  BY DEF AnalyzeRawPDF
<1>2. Asking /\ provider # "rules" /\ TypeOK
  BY DEF AnalyzeRawPDF, IInv, SentRaw
<1>3. PICK p : p = decodeAIFileAnalysis(File, Said(reply))
  OBVIOUS
<1>4. IsPart(p)
  BY <1>1, <1>2, <1>3, Answered
<1>5. PICK u : u = Append(parts, p)
  OBVIOUS
<1>6. OneMore(u, parts, p) /\ \A k \in DOMAIN parts : IsPart(parts[k])
  BY <1>2, <1>5, Appended DEF TypeOK
<1>7. Len(parts) \in Nat /\ DOMAIN parts = 1..Len(parts)
  BY <1>2, ListDomain DEF TypeOK
<1>8. IsPart(u[1])
  <2>1. 1 \in 1..Len(parts) \/ 1 = Len(parts) + 1
    BY <1>7
  <2> QED BY <1>4, <1>6, <1>7, <2>1 DEF OneMore
<1>9. PICK a : a = rawFileAnalysis(u[1])
  OBVIOUS
<1>10. FileIsDone(a)
  BY <1>1, <1>3, <1>5, <1>9 DEF Heard
<1>11. IsAnalysis(a)
  BY <1>8, <1>9, RawIsAnalysis
<1> QED BY <1>2, <1>10, <1>11, DoneHolds

LEMMA RetryHolds ==
    ASSUME IInv, RetryCall
    PROVE  IInv'
<1>1. /\ attempt' = attempt + 1 /\ attempt < MaxAttempts
      /\ batch' = batch /\ provider' = provider /\ parts' = parts
      /\ analyses' = analyses /\ reports' = reports /\ summary' = summary
  BY DEF RetryCall
<1>2. attempt + 1 \in 1..MaxAttempts
  <2>1. MaxAttempts \in Nat /\ attempt \in 1..MaxAttempts
    BY ReconcileAssumption DEF IInv, TypeOK
  <2> QED BY <1>1, <2>1
<1>3. TypeOK'
  BY <1>1, <1>2 DEF IInv, TypeOK
<1>4. RawIsWhole'
  BY <1>1 DEF IInv, RawIsWhole, Asking, SentRaw, File
<1>5. InTurn' /\ ReportsAreReconciled'
  BY <1>1 DEF IInv, InTurn, ReportsAreReconciled
<1>6. SummaryIsOfAll'
  BY <1>1 DEF IInv, SummaryIsOfAll, NoSummary
<1> QED BY <1>3, <1>4, <1>5, <1>6 DEF IInv

LEMMA ChunkHolds ==
    ASSUME IInv, AnalyzeChunk
    PROVE  IInv'
<1>1. PICK reply \in Replies : Readable(File, reply) /\ parts' = Heard(reply)
  BY DEF AnalyzeChunk
<1>2. /\ Asking /\ provider # "rules" /\ TypeOK
      /\ ~SentRaw(File)
      /\ attempt' = 1 /\ batch' = batch /\ provider' = provider
      /\ analyses' = analyses /\ reports' = reports /\ summary' = summary
  BY DEF AnalyzeChunk, IInv
<1>3. PICK p : p = decodeAIFileAnalysis(File, Said(reply))
  OBVIOUS
<1>4. IsPart(p)
  BY <1>1, <1>2, <1>3, Answered
<1>5. OneMore(parts', parts, p)
  BY <1>1, <1>2, <1>3, Appended DEF Heard, TypeOK
<1>6. Len(parts) \in Nat /\ DOMAIN parts = 1..Len(parts)
  BY <1>2, ListDomain DEF TypeOK
<1>7. IsList(parts') /\ \A k \in DOMAIN parts' : IsPart(parts'[k])
  <2>1. \A k \in 1..(Len(parts) + 1) : k \in 1..Len(parts) \/ k = Len(parts) + 1
    BY <1>6
  <2> QED BY <1>2, <1>4, <1>5, <1>6, <2>1 DEF OneMore, TypeOK
<1>8. 1 \in 1..MaxAttempts
  BY ReconcileAssumption
<1>9. TypeOK'
  BY <1>2, <1>7, <1>8 DEF TypeOK
<1>10. RawIsWhole'
  BY <1>2 DEF RawIsWhole, SentRaw, File
<1>11. InTurn' /\ ReportsAreReconciled'
  BY <1>2 DEF IInv, InTurn, ReportsAreReconciled
<1>12. SummaryIsOfAll'
  BY <1>2 DEF IInv, SummaryIsOfAll, NoSummary
<1> QED BY <1>9, <1>10, <1>11, <1>12 DEF IInv

LEMMA ReconcileHolds ==
    ASSUME IInv, ReconcileNext
    PROVE  IInv'
<1> DEFINE n == Len(reports)
<1>1. /\ ~Asking /\ n < Len(batch)
      /\ reports' = Append(reports, reconcileFile(batch[n + 1], analyses[n + 1]))
      /\ batch' = batch /\ provider' = provider /\ attempt' = attempt
      /\ parts' = parts /\ analyses' = analyses /\ summary' = summary
  BY DEF ReconcileNext
<1>2. /\ n \in Nat /\ DOMAIN reports = 1..n
      /\ Len(analyses) \in Nat /\ DOMAIN analyses = 1..Len(analyses)
  BY ListDomain DEF IInv, TypeOK
<1>3. Len(batch) \in Nat /\ \A k \in 1..Len(batch) : IsEstimate(batch[k])
  BY BatchIsTyped DEF IInv, TypeOK
<1>4. n + 1 <= Len(analyses) /\ n + 1 \in 1..Len(batch) /\ n + 1 \in 1..Len(analyses)
  BY <1>1, <1>2, <1>3 DEF Asking
<1>5. PICK r : r = reconcileFile(batch[n + 1], analyses[n + 1])
  OBVIOUS
<1>6. IsReport(r)
  <2>1. IsEstimate(batch[n + 1]) /\ IsAnalysis(analyses[n + 1])
    BY <1>2, <1>3, <1>4 DEF IInv, TypeOK
  <2> QED BY <1>5, <2>1, ReportCovers
<1>7. OneMore(reports', reports, r)
  BY <1>1, <1>5, Appended DEF IInv, TypeOK
<1>8. /\ IsList(reports') /\ Len(reports') = n + 1 /\ DOMAIN reports' = 1..(n + 1)
      /\ reports'[n + 1] = r
      /\ \A k \in 1..n : reports'[k] = reports[k]
      /\ \A k \in 1..(n + 1) : k \in 1..n \/ k = n + 1
  BY <1>2, <1>7 DEF OneMore
<1>9. \A k \in DOMAIN reports' : IsReport(reports'[k])
  BY <1>2, <1>6, <1>8 DEF IInv, TypeOK
<1>10. TypeOK'
  BY <1>1, <1>8, <1>9 DEF IInv, TypeOK
<1>11. RawIsWhole'
  BY <1>1 DEF RawIsWhole, Asking
<1>12. InTurn'
  BY <1>1, <1>4, <1>8 DEF IInv, InTurn
<1>13. ReportsAreReconciled'
  <2>1. \A k \in DOMAIN reports' : reports'[k] = reconcileFile(batch[k], analyses[k])
    BY <1>2, <1>5, <1>8 DEF IInv, ReportsAreReconciled
  <2> QED BY <1>1, <2>1 DEF ReportsAreReconciled
<1>14. SummaryIsOfAll'
  <2>1. summary = NoSummary
    BY <1>1, <1>2, <1>3 DEF IInv, SummaryIsOfAll
  <2> QED BY <1>1, <2>1 DEF SummaryIsOfAll, NoSummary
<1> QED BY <1>10, <1>11, <1>12, <1>13, <1>14 DEF IInv

LEMMA OverallRiskIs ==
    reconcileBatch.risk = OverallRisk(reports)
BY DEF reconcileBatch, OverallRisk, Highest, RiskFold, FoldLeft, MapThenFoldSet

LEMMA SumUpHolds ==
    ASSUME IInv, SumUp
    PROVE  IInv'
<1>1. /\ Len(reports) = Len(batch) /\ summary' = reconcileBatch
      /\ batch' = batch /\ provider' = provider /\ attempt' = attempt
      /\ parts' = parts /\ analyses' = analyses /\ reports' = reports
  BY DEF SumUp
<1>2. TypeOK'
  BY <1>1 DEF IInv, TypeOK
<1>3. RawIsWhole'
  BY <1>1 DEF IInv, RawIsWhole, Asking, SentRaw, File
<1>4. InTurn' /\ ReportsAreReconciled'
  BY <1>1 DEF IInv, InTurn, ReportsAreReconciled
<1>5. summary'.risk = OverallRisk(reports)
  BY <1>1, OverallRiskIs
<1>6. SummaryIsOfAll'
  BY <1>1, <1>5 DEF SummaryIsOfAll
<1> QED BY <1>2, <1>3, <1>4, <1>6 DEF IInv

LEMMA StutterHolds ==
    ASSUME IInv, UNCHANGED vars
    PROVE  IInv'
<1>1. /\ attempt' = attempt /\ batch' = batch /\ provider' = provider /\ parts' = parts
      /\ analyses' = analyses /\ reports' = reports /\ summary' = summary
  BY DEF vars
<1>2. TypeOK'
  BY <1>1 DEF IInv, TypeOK
<1>3. RawIsWhole'
  BY <1>1 DEF IInv, RawIsWhole, Asking, SentRaw, File
<1>4. InTurn' /\ ReportsAreReconciled'
  BY <1>1 DEF IInv, InTurn, ReportsAreReconciled
<1>5. SummaryIsOfAll'
  BY <1>1 DEF IInv, SummaryIsOfAll, NoSummary
<1> QED BY <1>2, <1>3, <1>4, <1>5 DEF IInv

LEMMA StepHolds == IInv /\ [Next]_vars => IInv'
<1> SUFFICES ASSUME IInv, [Next]_vars PROVE IInv'
  OBVIOUS
<1> QED BY RulesHold, RetryHolds, ChunkHolds, MergeHolds, RawHolds, FailureHolds,
           ReconcileHolds, SumUpHolds, StutterHolds DEF Next

(* Whatever is said and however calls fail, the reports are made of the    *)
(* analyses in turn, and no number, severity or risk is one the code does  *)
(* not know.                                                               *)
THEOREM TypeCorrect == Spec => []IInv
<1>1. Init => IInv
  BY InitHolds
<1>2. IInv /\ [Next]_vars => IInv'
  BY StepHolds
<1> QED BY <1>1, <1>2, PTL DEF Spec

-----------------------------------------------------------------------------
(* The properties                                                          *)

(* What every report is, by the invariant.                                 *)
LEMMA ReportsAreMade ==
    ASSUME IInv, NEW k \in DOMAIN reports
    PROVE  /\ reports[k] = reconcileFile(batch[k], analyses[k])
           /\ IsEstimate(batch[k]) /\ IsAnalysis(analyses[k])
<1>1. /\ Len(reports) \in Nat /\ DOMAIN reports = 1..Len(reports)
      /\ Len(analyses) \in Nat /\ DOMAIN analyses = 1..Len(analyses)
  BY ListDomain DEF IInv, TypeOK
<1>2. Len(batch) \in Nat /\ \A j \in 1..Len(batch) : IsEstimate(batch[j])
  BY BatchIsTyped DEF IInv, TypeOK
<1>3. k \in 1..Len(analyses) /\ k \in 1..Len(batch)
  BY <1>1, <1>2 DEF IInv, InTurn
<1> QED BY <1>1, <1>2, <1>3 DEF IInv, TypeOK, ReportsAreReconciled

LEMMA FindingsOnce == IInv => EachFindingOnce
<1> SUFFICES ASSUME IInv PROVE EachFindingOnce
  OBVIOUS
<1>1. ASSUME NEW k \in DOMAIN reports
      PROVE  Once(reports[k].findings, batch[k].findings, Heeded(analyses[k]))
  <2> DEFINE e == batch[k]
             a == analyses[k]
  <2>1. reports[k] = reconcileFile(e, a) /\ IsEstimate(e) /\ IsAnalysis(a)
    BY ReportsAreMade
  <2> HIDE DEF e, a
  <2>2. reports[k].findings = ReportFindings(e, a)
    BY <2>1, ReportIs
  <2>3. Reported(ReportFindings(e, a), e.findings, Heeded(a))
    BY <2>1, ReportIsReported
  <2>4. Once(reports[k].findings, e.findings, Heeded(a))
    BY <2>2, <2>3, ReportedOnce
  <2> QED BY <2>4 DEF e, a
<1> QED BY <1>1 DEF EachFindingOnce, Once, Heeded

(* However the AI answers, every finding of the backend and of an          *)
(* independent AI is in the report of its file exactly once, never milder  *)
(* than it was, confirmed only by one of its row or in its words, sorted.  *)
THEOREM FindingsAreReportedOnce == Spec => []EachFindingOnce
<1>1. IInv => EachFindingOnce
  BY FindingsOnce
<1> QED BY <1>1, TypeCorrect, PTL

LEMMA RisksCover == IInv => RiskCovers
<1> SUFFICES ASSUME IInv PROVE RiskCovers
  OBVIOUS
<1>1. ASSUME NEW k \in DOMAIN reports
      PROVE  Covers(reports[k], batch[k], analyses[k])
  BY ReportsAreMade, ReportCovers
<1>2. ASSUME summary # NoSummary, NEW k \in DOMAIN reports
      PROVE  riskLevelRank(summary.risk) >= riskLevelRank(reports[k].risk)
  <2>1. summary.risk = OverallRisk(reports)
    BY <1>2 DEF IInv, SummaryIsOfAll
  <2>2. Len(reports) \in Nat /\ DOMAIN reports = 1..Len(reports)
    BY ListDomain DEF IInv, TypeOK
  <2>3. \A base : \A j \in 1..Len(reports) :
           riskLevelRank(Highest(base, reports)) >= riskLevelRank(reports[j].risk)
    BY <2>2, HighestCovers
  <2> QED BY <2>1, <2>2, <2>3 DEF OverallRisk
<1> QED BY <1>1, <1>2 DEF RiskCovers, Covers

(* No file is reported with a lower risk than any of its findings or an    *)
(* independent AI gives it, and no batch with a lower one than a file.     *)
THEOREM RisksAreCovered == Spec => []RiskCovers
<1>1. IInv => RiskCovers
  BY RisksCover
<1> QED BY <1>1, TypeCorrect, PTL

LEMMA ScoresAreEarned == IInv => AgreementIsEarned
<1> SUFFICES ASSUME IInv PROVE AgreementIsEarned
  OBVIOUS
<1>1. ASSUME NEW k \in DOMAIN reports
      PROVE  Earned(reports[k], batch[k], analyses[k])
  BY ReportsAreMade, ReportEarned
<1> QED BY <1>1 DEF AgreementIsEarned, Earned

(* No report claims more agreement than the share of findings both have,   *)
(* or than the share of the rows the AI has read.                          *)
THEOREM AgreementIsAlwaysEarned == Spec => []AgreementIsEarned
<1>1. IInv => AgreementIsEarned
  BY ScoresAreEarned
<1> QED BY <1>1, TypeCorrect, PTL

(* What the step that completes a file has to do for HeardIsKept.          *)
KeptInStep ==
    parts # <<>> /\ parts' = <<>> =>
      (isIndependentAIAnalysis(Last(analyses')) => KeptAll(Last(analyses'), File, parts))

LEMMA LastAnalysis ==
    ASSUME TypeOK, NEW a, analyses' = Append(analyses, a)
    PROVE  Last(analyses') = a
<1>1. OneMore(analyses', analyses, a)
  BY Appended DEF TypeOK
<1> QED BY <1>1 DEF OneMore, Last

LEMMA StepKeeps == IInv /\ [Next]_vars => KeptInStep
<1> SUFFICES ASSUME IInv, [Next]_vars, parts # <<>>, parts' = <<>>,
                    isIndependentAIAnalysis(Last(analyses'))
             PROVE  KeptAll(Last(analyses'), File, parts)
  BY DEF KeptInStep
<1>1. TypeOK
  BY DEF IInv
<1>2. CASE AnalyzeByRules
  <2>1. PICK a : a = rulesFileAnalysis(File)
    OBVIOUS
  <2>2. Last(analyses') = a
    BY <1>1, <1>2, <2>1, LastAnalysis DEF AnalyzeByRules, FileIsDone
  <2>3. a.mode = "backend_rules"
    BY <2>1 DEF rulesFileAnalysis
  <2>4. ~isIndependentAIAnalysis(a)
    BY <2>3, Zenon DEF isIndependentAIAnalysis
  <2> QED BY <2>2, <2>4
<1>3. CASE ChunkFails
  <2>1. PICK r : r = rulesFileAnalysis(File)
    OBVIOUS
  <2> DEFINE a == [r EXCEPT !.mode = "backend_fallback"]
  <2>2. Last(analyses') = a
    BY <1>1, <1>3, <2>1, LastAnalysis DEF ChunkFails, FileIsDone
  <2>3. r = [mode |-> r.mode, risk |-> r.risk, rows |-> r.rows,
             total |-> r.total, findings |-> r.findings]
    BY <2>1 DEF rulesFileAnalysis
  <2>4. a.mode = "backend_fallback"
    BY <2>3
  <2> HIDE DEF a
  <2>5. ~isIndependentAIAnalysis(a)
    BY <2>4, Zenon DEF isIndependentAIAnalysis
  <2> QED BY <2>2, <2>5
<1>4. CASE MergeChunks
  <2>1. PICK a : a = mergeAIFileAnalyses(File, parts)
    OBVIOUS
  <2>2. FileIsDone(a) /\ KeptAll(a, File, parts)
    BY <1>1, <1>4, <2>1, AllAreMerged, MergedIsKept
  <2>3. Last(analyses') = a
    BY <1>1, <2>2, LastAnalysis DEF FileIsDone
  <2> QED BY <2>2, <2>3
<1>5. CASE AnalyzeRawPDF
  BY <1>5 DEF AnalyzeRawPDF, IInv, RawIsWhole
<1>6. CASE AnalyzeChunk
  <2>1. PICK reply : parts' = Heard(reply)
    BY <1>6 DEF AnalyzeChunk
  <2>2. OneMore(parts', parts, decodeAIFileAnalysis(File, Said(reply)))
    BY <1>1, <2>1, Appended DEF Heard, TypeOK
  <2>3. Len(parts) \in Nat
    BY <1>1, ListDomain DEF TypeOK
  <2>4. Len(parts') # 0
    BY <2>2, <2>3 DEF OneMore
  <2> QED BY <2>4, EmptyList
<1>7. CASE RetryCall \/ ReconcileNext \/ SumUp \/ UNCHANGED vars
  BY <1>7 DEF RetryCall, ReconcileNext, SumUp, vars
<1> QED BY <1>2, <1>3, <1>4, <1>5, <1>6, <1>7 DEF Next

(* Whatever a provider said of any part of a file, from the first to the   *)
(* last, is in the file's analysis, once, in the first form it had: its    *)
(* findings and its risk; and no more rows than the file has.              *)
THEOREM EverythingHeardIsKept == Spec => HeardIsKept
<1>1. IInv /\ [Next]_vars => [KeptInStep]_vars
  BY StepKeeps
<1> QED BY <1>1, TypeCorrect, PTL DEF Spec, HeardIsKept, KeptInStep, KeptAll

=============================================================================
