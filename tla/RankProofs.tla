------------------------------ MODULE RankProofs ------------------------------
(***************************************************************************)
(* Counting the positions of a set: what Rank returns, and what becomes of *)
(* a stack with one entry for each position when the positions from some   *)
(* place on are taken away.                                                *)
(***************************************************************************)
EXTENDS Ranks, FiniteSetTheorems, SequenceTheorems, TLAPS

\* A finite set of positions.
Positions(S) == IsFiniteSet(S) /\ \A s \in S : s \in Nat \ {0}

LEMMA PositionsUpTo ==
    ASSUME NEW a \in Nat, NEW S, \A s \in S : s \in 1..a
    PROVE  Positions(S)
<1>1. IsFiniteSet(1..a)
  BY FS_Interval
<1>2. S \in SUBSET (1..a)
  OBVIOUS
<1>3. IsFiniteSet(S)
  BY <1>1, <1>2, FS_Subset
<1> QED
  BY <1>3 DEF Positions

LEMMA RankFinite ==
    ASSUME NEW S, Positions(S), NEW k
    PROVE  IsFiniteSet({j \in S : j <= k}) /\ Rank(S, k) <= Cardinality(S)
<1>1. IsFiniteSet(S) /\ {j \in S : j <= k} \in SUBSET S
  BY DEF Positions
<1> QED
  BY <1>1, FS_Subset DEF Rank

\* Ranks are natural numbers; the last one is the size of the set.
LEMMA RankType ==
    ASSUME NEW S, Positions(S)
    PROVE  /\ Cardinality(S) \in Nat
           /\ \A k : Rank(S, k) \in Nat /\ Rank(S, k) <= Cardinality(S)
BY RankFinite, FS_CardinalityType DEF Rank, Positions

\* The rank depends only on the positions up to k.
LEMMA RankSame ==
    ASSUME NEW S, NEW T, NEW k, {j \in T : j <= k} = {j \in S : j <= k}
    PROVE  Rank(T, k) = Rank(S, k)
BY DEF Rank

LEMMA RankAll ==
    ASSUME NEW S, Positions(S), NEW k, \A s \in S : s <= k
    PROVE  Rank(S, k) = Cardinality(S)
<1>1. {j \in S : j <= k} = S
  OBVIOUS
<1> QED
  BY <1>1 DEF Rank

LEMMA RankNone ==
    ASSUME NEW S, Positions(S)
    PROVE  Rank(S, 0) = 0
<1>1. {j \in S : j <= 0} = {}
  BY DEF Positions
<1> QED
  BY <1>1, FS_EmptySet DEF Rank

\* One position further the rank is greater by one if the position is in the set.
LEMMA RankNext ==
    ASSUME NEW S, Positions(S), NEW k \in Nat \ {0}
    PROVE  Rank(S, k) = IF k \in S THEN Rank(S, k - 1) + 1 ELSE Rank(S, k - 1)
<1> DEFINE P == {j \in S : j <= k - 1}
<1>1. IsFiniteSet(P)
  BY RankFinite
<1>2. k \notin P
  OBVIOUS
<1>3. {j \in S : j <= k} = IF k \in S THEN P \cup {k} ELSE P
  BY DEF Positions
<1>4. Cardinality(P \cup {k}) = Cardinality(P) + 1
  BY <1>1, <1>2, FS_AddElement
<1> QED
  BY <1>3, <1>4 DEF Rank

\* Ranks grow with the position.
LEMMA RankMonotone ==
    ASSUME NEW S, Positions(S), NEW j \in Int, NEW k \in Int, j <= k
    PROVE  Rank(S, j) <= Rank(S, k)
<1>1. {i \in S : i <= j} \in SUBSET {i \in S : i <= k}
  BY DEF Positions
<1>2. IsFiniteSet({i \in S : i <= k})
  BY RankFinite
<1> QED
  BY <1>1, <1>2, FS_Subset DEF Rank

LEMMA RankPositive ==
    ASSUME NEW S, Positions(S), NEW k \in S
    PROVE  /\ Rank(S, k) \in 1..Cardinality(S)
           /\ Rank(S, k) = Rank(S, k - 1) + 1
<1>1. k \in Nat \ {0}
  BY DEF Positions
<1>2. Rank(S, k) = Rank(S, k - 1) + 1
  BY <1>1, RankNext
<1> QED
  BY <1>1, <1>2, RankType

\* Positions are numbered one by one.
LEMMA RankStrict ==
    ASSUME NEW S, Positions(S), NEW k \in S, NEW j \in Int, j < k
    PROVE  Rank(S, j) < Rank(S, k)
<1>1. j <= k - 1 /\ k - 1 \in Int
  BY DEF Positions
<1> QED
  BY <1>1, RankMonotone, RankPositive, RankType

\* A set of numbers that is not empty has a least one.
LEMMA LeastNumber ==
    ASSUME NEW Q \in SUBSET Nat, Q # {}
    PROVE  \E k \in Q : \A q \in Q : k <= q
<1>1. \E k \in Q : \A q \in Q : ~(<<q, k>> \in OpToRel(<, Nat))
  BY NatLessThanWellFounded, WFMin, Zenon
<1>2. \A q, k \in Nat : ~(<<q, k>> \in OpToRel(<, Nat)) => k <= q
  BY DEF OpToRel
<1> QED
  BY <1>1, <1>2

\* A finite set of positions is bounded.
LEMMA PositionsBound ==
    ASSUME NEW S, Positions(S)
    PROVE  \E a \in Nat : \A s \in S : s <= a
<1> DEFINE Q == {i \in Nat : \E k \in Nat : i = Cardinality(S) - Rank(S, k)}
<1>0. Cardinality(S) \in Nat /\ \A k : Rank(S, k) \in Nat /\ Rank(S, k) <= Cardinality(S)
  BY RankType
<1>1. Cardinality(S) - Rank(S, 0) \in Q
  BY <1>0
<1>3. PICK i \in Q : \A q \in Q : i <= q
  <2>1. Q \in SUBSET Nat /\ Q # {}
    BY <1>1
  <2> HIDE DEF Q
  <2> QED
    BY <2>1, LeastNumber
<1>4. PICK k \in Nat : i = Cardinality(S) - Rank(S, k)
  OBVIOUS
<1>5. ASSUME NEW s \in S, s > k PROVE FALSE
  <2>1. s \in Nat
    BY DEF Positions
  <2>2. Cardinality(S) - Rank(S, s) \in Q
    BY <1>0, <2>1
  <2>3. Rank(S, k) < Rank(S, s)
    BY <1>5, RankStrict
  <2> QED
    BY <1>0, <1>3, <1>4, <2>2, <2>3
<1> QED
  BY <1>5 DEF Positions

\* Every number up to the size of the set is the rank of a position.
LEMMA RankOnto ==
    ASSUME NEW S, Positions(S), NEW i \in 1..Cardinality(S)
    PROVE  \E k \in S : Rank(S, k) = i
<1> DEFINE Q == {k \in Nat : i <= Rank(S, k)}
<1>0. Cardinality(S) \in Nat /\ \A k : Rank(S, k) \in Nat
  BY RankType
<1>1. PICK a \in Nat : \A s \in S : s <= a
  BY PositionsBound
<1>2. a \in Q
  BY <1>0, <1>1, RankAll
<1>4. PICK k \in Q : \A q \in Q : k <= q
  <2>1. Q \in SUBSET Nat /\ Q # {}
    BY <1>2
  <2> HIDE DEF Q
  <2> QED
    BY <2>1, LeastNumber
<1>5. k # 0
  BY <1>4, RankNone
<1>6. k - 1 \in Nat /\ k - 1 \notin Q
  BY <1>4, <1>5
<1>7. Rank(S, k) = IF k \in S THEN Rank(S, k - 1) + 1 ELSE Rank(S, k - 1)
  BY <1>5, RankNext
<1> QED
  BY <1>0, <1>4, <1>6, <1>7

\* The positions after b, counted from the end.
LEMMA RankAfter ==
    ASSUME NEW S, Positions(S), NEW b \in Nat
    PROVE  Cardinality(S) - Cardinality({j \in S : j > b}) = Rank(S, b)
<1> DEFINE L == {j \in S : j <= b}
           R == {j \in S : j > b}
<1>1. IsFiniteSet(S) /\ Cardinality(S) \in Nat
  BY RankType DEF Positions
<1>2. IsFiniteSet(L) /\ IsFiniteSet(R) /\ IsFiniteSet({}) /\ Cardinality({}) = 0
  BY <1>1, FS_Subset, FS_EmptySet
<1>3. L \cup R = S /\ L \cap R = {}
  BY DEF Positions
<1>4. Cardinality(L) \in Nat /\ Cardinality(R) \in Nat
  BY <1>2, FS_CardinalityType
<1>5. Cardinality(S) = Cardinality(L) + Cardinality(R) - Cardinality(L \cap R)
  BY <1>2, <1>3, FS_Union
<1> QED
  BY <1>1, <1>2, <1>3, <1>4, <1>5 DEF Rank

\* T is S without the positions from n on, with n itself or not.
CutAt(S, n, T) ==
    /\ Positions(S) /\ n \in Nat \ {0}
    /\ \A t \in T : t \in 1..n
    /\ \A k \in 1..(n - 1) : k \in T <=> k \in S

\* d is stack e without the entries of the positions from n on, and with the new
\* entry x if n is in T.
StackAt(e, S, n, T, d, x) ==
    LET kept == SubSeq(e, 1, Rank(S, n - 1))
    IN  Rank(S, n - 1) <= Len(e) /\ d = IF n \in T THEN Append(kept, x) ELSE kept

\* The entries of the positions that stay are where they were, counted from the
\* first, and the new one is on top.
LEMMA StackCut ==
    ASSUME NEW S, NEW n, NEW T, CutAt(S, n, T),
           NEW X, NEW e \in Seq(X), NEW d, NEW x, StackAt(e, S, n, T, d, x)
    PROVE  /\ Len(d) = Cardinality(T)
           /\ \A k \in T : k < n =>
                 /\ k \in S /\ Rank(T, k) = Rank(S, k)
                 /\ d[Rank(T, k)] = e[Rank(S, k)]
           /\ n \in T => Rank(T, n) = Len(d) /\ d[Rank(T, n)] = x
<1> USE DEF CutAt, StackAt
<1> DEFINE m == Rank(S, n - 1)
<1>0. Positions(T)
  BY PositionsUpTo
<1>1. m \in Nat /\ n - 1 \in Nat
  BY RankType
<1>2. \A k \in Int : k < n => Rank(T, k) = Rank(S, k)
  <2> TAKE k \in Int
  <2> HAVE k < n
  <2>1. {j \in T : j <= k} = {j \in S : j <= k}
    BY DEF Positions
  <2> QED
    BY <2>1, RankSame
<1>3. Cardinality(T) = IF n \in T THEN m + 1 ELSE m
  <2>1. Cardinality(T) = Rank(T, n)
    BY <1>0, RankAll
  <2>2. Rank(T, n) = IF n \in T THEN Rank(T, n - 1) + 1 ELSE Rank(T, n - 1)
    BY <1>0, RankNext
  <2> QED
    BY <1>1, <1>2, <2>1, <2>2
<1>4. /\ SubSeq(e, 1, m) \in Seq(X) /\ Len(SubSeq(e, 1, m)) = m
      /\ \A i \in 1..m : SubSeq(e, 1, m)[i] = e[i]
  <2> HIDE DEF m
  <2>1. m <= Len(e)
    BY DEF m
  <2> QED
    BY <1>1, <2>1
<1>5. Len(d) = Cardinality(T) /\ (\A i \in 1..m : d[i] = e[i]) /\ (n \in T => d[m + 1] = x)
  <2> DEFINE r == SubSeq(e, 1, m)
  <2>1. d = IF n \in T THEN Append(r, x) ELSE r
    OBVIOUS
  <2> HIDE DEF m, r
  <2>2. r \in Seq(X) /\ Len(r) = m /\ \A i \in 1..m : r[i] = e[i]
    BY <1>4 DEF r
  <2>3. /\ Len(Append(r, x)) = m + 1 /\ Append(r, x)[m + 1] = x
        /\ \A i \in 1..m : Append(r, x)[i] = r[i]
    BY <1>1, <2>2
  <2> QED
    BY <1>3, <2>1, <2>2, <2>3
<1>6. ASSUME NEW k \in T, k < n
      PROVE  k \in S /\ Rank(T, k) = Rank(S, k) /\ d[Rank(T, k)] = e[Rank(S, k)]
  <2>1. k \in S /\ Rank(T, k) = Rank(S, k)
    BY <1>2, <1>6
  <2>2. Rank(S, k) \in 1..m
    BY <1>1, <1>6, <2>1, RankPositive, RankMonotone, RankType
  <2> QED
    BY <1>5, <2>1, <2>2
<1>7. ASSUME n \in T PROVE Rank(T, n) = Len(d) /\ d[Rank(T, n)] = x
  <2>1. Rank(T, n) = Cardinality(T)
    BY <1>0, RankAll
  <2> QED
    BY <1>3, <1>5, <1>7, <2>1
<1> QED
  BY <1>5, <1>6, <1>7


-----------------------------------------------------------------------------
\* Different elements have different numbers.
LEMMA RankInjective ==
    ASSUME NEW S, Positions(S), NEW j \in S, NEW k \in S, Rank(S, j) = Rank(S, k)
    PROVE  j = k
<1>1. j \in Int /\ k \in Int /\ Rank(S, j) \in Nat /\ Rank(S, k) \in Nat
  BY RankType DEF Positions
<1>2. ~(j < k) /\ ~(k < j)
  BY <1>1, RankStrict
<1> QED
  BY <1>1, <1>2

\* InOrder lists the elements, each one at its number.
LEMMA InOrderLists ==
    ASSUME NEW S, Positions(S)
    PROVE  /\ Cardinality(S) \in Nat
           /\ InOrder(S) \in Seq(S) /\ Len(InOrder(S)) = Cardinality(S)
           /\ DOMAIN InOrder(S) = 1..Cardinality(S)
           /\ \A n \in 1..Cardinality(S) : InOrder(S)[n] \in S /\ Rank(S, InOrder(S)[n]) = n
           /\ \A k \in S : Rank(S, k) \in 1..Cardinality(S) /\ InOrder(S)[Rank(S, k)] = k
<1> DEFINE c == Cardinality(S)
           at(n) == CHOOSE k \in S : Rank(S, k) = n
<1>1. c \in Nat
  BY RankType
<1>2. ASSUME NEW n \in 1..c PROVE at(n) \in S /\ Rank(S, at(n)) = n
  BY RankOnto, Zenon
<1>3. InOrder(S) = [n \in 1..c |-> at(n)]
  BY DEF InOrder
<1>4. ASSUME NEW k \in S PROVE Rank(S, k) \in 1..c /\ at(Rank(S, k)) = k
  <2>1. Rank(S, k) \in 1..c
    BY RankPositive
  <2>2. at(Rank(S, k)) \in S /\ Rank(S, at(Rank(S, k))) = Rank(S, k)
    BY <1>2, <2>1
  <2> HIDE DEF at
  <2> QED
    BY <2>1, <2>2, RankInjective
<1> HIDE DEF c, at
<1>5. /\ InOrder(S) \in Seq(S) /\ Len(InOrder(S)) = c /\ DOMAIN InOrder(S) = 1..c
      /\ \A n \in 1..c : InOrder(S)[n] = at(n)
  BY <1>1, <1>2, <1>3
<1> QED
  BY <1>1, <1>2, <1>4, <1>5 DEF c

=============================================================================
