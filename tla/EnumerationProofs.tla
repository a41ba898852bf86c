------------------------- MODULE EnumerationProofs -------------------------
(***************************************************************************)
(* Counting the positions of a finite set numbers them from 1 on, in       *)
(* order.                                                                  *)
(***************************************************************************)
EXTENDS Enumeration, FiniteSetTheorems, SequenceTheorems, WellFoundedInduction, TLAPS

(* A set of numbers has a least element, and a bounded one a greatest.     *)
LEMMA LeastOf ==
  ASSUME NEW T \in SUBSET Nat, T # {}
  PROVE  \E x \in T : \A y \in T : x <= y
  <1>1. PICK x \in T : \A y \in T : ~(<<y, x>> \in OpToRel(<, Nat))
    BY NatLessThanWellFounded, WFMin
  <1>2. \A y \in T : ~(y < x)
    BY <1>1 DEF OpToRel
  <1> QED BY <1>2

(* The greatest is the one the least of the differences belongs to.        *)
LEMMA GreatestOf ==
  ASSUME NEW n \in Nat, NEW T, T # {}, \A i \in T : i \in Nat /\ i < n
  PROVE  \E x \in T : \A y \in T : x >= y
  <1> DEFINE D == {d \in Nat : \E i \in T : d = n - i}
  <1>1. D # {}
    <2>1. PICK i \in T : TRUE
      OBVIOUS
    <2>2. n - i \in Nat
      BY <2>1
    <2> QED BY <2>1, <2>2
  <1>2. D \in SUBSET Nat
    OBVIOUS
  <1>3. \A i \in T : n - i \in D
    OBVIOUS
  <1>4. \A d \in D : d \in Nat /\ n - d \in T
    OBVIOUS
  <1> HIDE DEF D
  <1>5. PICK d \in D : \A e \in D : d <= e
    BY <1>1, <1>2, LeastOf
  <1>6. n - d \in T /\ \A y \in T : n - d >= y
    BY <1>3, <1>4, <1>5
  <1> QED BY <1>6

(* Positions up to n are finitely many.                                    *)
LEMMA PositionsFinite ==
  ASSUME NEW n \in Nat, NEW S \in SUBSET (1 .. n)
  PROVE  IsFiniteSet(S) /\ Cardinality(S) \in Nat /\ Cardinality(S) <= n
  <1>1. IsFiniteSet(1 .. n) /\ Cardinality(1 .. n) = n
    <2>1. IsFiniteSet(1 .. n) /\ Cardinality(1 .. n) = IF 1 <= n THEN n - 1 + 1 ELSE 0
      BY FS_Interval
    <2> QED BY <2>1
  <1>2. IsFiniteSet(S) /\ Cardinality(S) <= Cardinality(1 .. n)
    BY <1>1, FS_Subset
  <1> QED BY <1>1, <1>2, FS_CardinalityType

(* No more are counted than there are.                                     *)
LEMMA CountType ==
  ASSUME NEW n \in Nat, NEW S \in SUBSET (1 .. n), NEW i
  PROVE  CountTo(S, i) \in 0 .. Cardinality(S) /\ Cardinality(S) \in 0 .. n
  <1> DEFINE T == {j \in S : j <= i}
  <1>1. IsFiniteSet(S) /\ Cardinality(S) \in Nat /\ Cardinality(S) <= n
    BY PositionsFinite
  <1>2. IsFiniteSet(T) /\ Cardinality(T) <= Cardinality(S)
    <2>1. T \in SUBSET S
      OBVIOUS
    <2> HIDE DEF T
    <2> QED BY <1>1, <2>1, FS_Subset
  <1>3. Cardinality(T) \in Nat
    BY <1>2, FS_CardinalityType
  <1> QED BY <1>1, <1>2, <1>3 DEF CountTo

(* Nothing is counted before the first position, and all at the last.      *)
LEMMA CountEnds ==
  ASSUME NEW n \in Nat, NEW S \in SUBSET (1 .. n)
  PROVE  CountTo(S, 0) = 0 /\ CountTo(S, n) = Cardinality(S)
  <1>0. \A j \in S : j \in Nat /\ 1 <= j /\ j <= n
    OBVIOUS
  <1>1. {j \in S : j <= 0} = {}
    <2>1. \A j \in S : ~(j <= 0)
      BY <1>0
    <2> QED BY <2>1, Zenon
  <1>2. {j \in S : j <= n} = S
    BY <1>0
  <1> QED BY <1>1, <1>2, FS_EmptySet DEF CountTo

(* The count goes up by one at a position of the set, and nowhere else.    *)
LEMMA CountStep ==
  ASSUME NEW n \in Nat, NEW S \in SUBSET (1 .. n), NEW i \in Nat
  PROVE  CountTo(S, i+1) = CountTo(S, i) + (IF i+1 \in S THEN 1 ELSE 0)
  <1> DEFINE T == {j \in S : j <= i}  U == {j \in S : j <= i+1}
  <1>0. \A j \in S : j \in Nat
    OBVIOUS
  <1>1. IsFiniteSet(T)
    <2>1. T \in SUBSET S
      OBVIOUS
    <2> HIDE DEF T
    <2> QED BY <2>1, PositionsFinite, FS_Subset
  <1>2. CountTo(S, i) = Cardinality(T) /\ CountTo(S, i+1) = Cardinality(U)
    BY Zenon DEF CountTo
  <1>3. \A j \in S : j <= i+1 <=> j <= i \/ j = i+1
    BY <1>0
  <1>4. ~(i+1 <= i)
    OBVIOUS
  <1>5. Cardinality(T) \in Nat
    BY <1>1, FS_CardinalityType
  <1>6. CASE i+1 \in S
    <2>1. U = T \cup {i+1} /\ i+1 \notin T
      BY <1>3, <1>4, <1>6, Zenon
    <2> HIDE DEF T, U
    <2>2. Cardinality(U) = Cardinality(T) + 1
      BY <1>1, <2>1, FS_AddElement
    <2> QED BY <1>2, <1>6, <2>2
  <1>7. CASE i+1 \notin S
    <2>1. U = T
      BY <1>3, <1>7, Zenon
    <2> HIDE DEF T, U
    <2> QED BY <1>2, <1>5, <1>7, <2>1
  <1> QED BY <1>6, <1>7

(* A position past another one of the set counts for more.                 *)
LEMMA CountGrows ==
  ASSUME NEW n \in Nat, NEW S \in SUBSET (1 .. n), NEW i \in Nat, NEW j \in Nat, i < j
  PROVE  /\ CountTo(S, i) <= CountTo(S, j)
         /\ j \in S => CountTo(S, i) < CountTo(S, j)
  <1> DEFINE C(m) == CountTo(S, m)
  <1> DEFINE T == {d \in Nat : ~(C(i) <= C(i+d))}
  <1>0. ASSUME NEW m \in Nat
        PROVE  C(m) \in Nat /\ C(m+1) = C(m) + (IF m+1 \in S THEN 1 ELSE 0)
    <2>1. CountTo(S, m) \in 0 .. Cardinality(S) /\ Cardinality(S) \in 0 .. n
      BY CountType
    <2>2. CountTo(S, m+1) = CountTo(S, m) + (IF m+1 \in S THEN 1 ELSE 0)
      BY CountStep
    <2> QED BY <2>1, <2>2
  <1> HIDE DEF C
  <1>1. T = {}
    <2> SUFFICES ASSUME T # {} PROVE FALSE
      OBVIOUS
    <2>1. PICK d \in T : \A e \in T : d <= e
      BY LeastOf
    <2>2. d # 0
      BY <1>0, <2>1
    <2>3. C(i) <= C(i + (d-1))
      BY <2>1, <2>2
    <2>4. C(i + (d-1)) <= C(i + (d-1) + 1) /\ i + (d-1) + 1 = i + d
      BY <1>0, <2>2
    <2> QED BY <1>0, <2>1, <2>2, <2>3, <2>4
  <1>2. \A d \in Nat : C(i) <= C(i+d)
    BY <1>1
  <1>3. C(i) <= C(j)
    <2>1. j - i \in Nat /\ i + (j - i) = j
      OBVIOUS
    <2> QED BY <1>2, <2>1
  <1>4. ASSUME j \in S PROVE C(i) < C(j)
    <2>1. j - 1 - i \in Nat /\ i + (j - 1 - i) = j - 1 /\ j - 1 \in Nat /\ (j-1) + 1 = j
      OBVIOUS
    <2>2. C(i) <= C(j-1)
      BY <1>2, <2>1
    <2>3. C(j) = C(j-1) + 1
      BY <1>0, <1>4, <2>1
    <2> QED BY <1>0, <2>1, <2>2, <2>3
  <1> QED BY <1>3, <1>4 DEF C

(* The position that is counted as the k-th is the k-th element.           *)
LEMMA NthOfCount ==
  ASSUME NEW n \in Nat, NEW S \in SUBSET (1 .. n), NEW i \in S
  PROVE  CountTo(S, i) \in 1 .. Cardinality(S) /\ Nth(S, CountTo(S, i)) = i
  <1>1. i \in Nat /\ 0 < i
    OBVIOUS
  <1>2. CountTo(S, 0) < CountTo(S, i)
    BY <1>1, CountGrows
  <1>3. CountTo(S, i) \in 1 .. Cardinality(S)
    BY <1>2, CountType, CountEnds
  <1>4. ASSUME NEW j \in S, CountTo(S, j) = CountTo(S, i)
        PROVE  j = i
    <2>1. j \in Nat /\ CountTo(S, i) \in Nat
      BY <1>3
    <2>2. CASE i < j
      <3>1. CountTo(S, i) < CountTo(S, j)
        BY <1>1, <2>1, <2>2, CountGrows
      <3> QED BY <1>4, <2>1, <3>1
    <2>3. CASE j < i
      <3>1. CountTo(S, j) < CountTo(S, i)
        BY <1>1, <2>1, <2>3, CountGrows
      <3> QED BY <1>4, <2>1, <3>1
    <2> QED BY <1>1, <2>1, <2>2, <2>3
  <1> QED BY <1>3, <1>4 DEF Nth

(* Every number up to the size of the set is the count of one position.    *)
LEMMA NthIs ==
  ASSUME NEW n \in Nat, NEW S \in SUBSET (1 .. n), NEW k \in 1 .. Cardinality(S)
  PROVE  Nth(S, k) \in S /\ CountTo(S, Nth(S, k)) = k
  <1> DEFINE C(m) == CountTo(S, m)
             T == {i \in Nat : k <= C(i)}
  <1>0. ASSUME NEW m \in Nat
        PROVE  C(m) \in Nat /\ C(m+1) = C(m) + (IF m+1 \in S THEN 1 ELSE 0)
    <2>1. CountTo(S, m) \in 0 .. Cardinality(S) /\ Cardinality(S) \in 0 .. n
      BY CountType
    <2>2. CountTo(S, m+1) = CountTo(S, m) + (IF m+1 \in S THEN 1 ELSE 0)
      BY CountStep
    <2> QED BY <2>1, <2>2
  <1>1. C(0) = 0 /\ C(n) = Cardinality(S) /\ k \in Nat /\ k # 0 /\ Cardinality(S) \in Nat
    BY CountEnds, CountType
  <1> HIDE DEF C
  <1>2. n \in T
    BY <1>1
  <1>3. PICK i \in T : \A j \in T : i <= j
    BY <1>2, LeastOf
  <1>4. i # 0
    BY <1>1, <1>3
  <1>5. i-1 \in Nat /\ (i-1)+1 = i /\ i-1 \notin T
    BY <1>3, <1>4
  <1>6. ~(k <= C(i-1)) /\ k <= C(i) /\ C(i-1) \in Nat
    BY <1>0, <1>3, <1>5
  <1>7. C(i) = C(i-1) + (IF i \in S THEN 1 ELSE 0)
    BY <1>0, <1>5
  <1>8. i \in S /\ C(i) = k
    BY <1>1, <1>6, <1>7
  <1> QED BY <1>8 DEF Nth, C

(* The elements picked are a sequence; the k-th is the one at the position *)
(* that is counted as the k-th.                                            *)
LEMMA ElementsAre ==
  ASSUME NEW A, NEW s \in Seq(A), NEW S \in SUBSET (1 .. Len(s))
  PROVE  /\ ElementsAt(s, S) \in Seq(A)
         /\ Len(ElementsAt(s, S)) = Cardinality(S) /\ Cardinality(S) \in 0 .. Len(s)
         /\ \A i \in S : /\ CountTo(S, i) \in 1 .. Cardinality(S)
                         /\ ElementsAt(s, S)[CountTo(S, i)] = s[i]
  <1>0. Len(s) \in Nat
    OBVIOUS
  <1>1. Cardinality(S) \in 0 .. Len(s)
    BY <1>0, CountType
  <1>2. ASSUME NEW k \in 1 .. Cardinality(S)
        PROVE  s[Nth(S, k)] \in A
    <2>1. Nth(S, k) \in S
      BY <1>0, NthIs
    <2> QED BY <2>1, ElementOfSeq
  <1> DEFINE m == Cardinality(S)  e == [k \in 1 .. m |-> s[Nth(S, k)]]
  <1>3. m \in Nat /\ \A k \in 1 .. m : e[k] \in A
    BY <1>1, <1>2
  <1> HIDE DEF m
  <1>4. e \in Seq(A) /\ Len(e) = m
    BY <1>3, IsASeq
  <1>5. ElementsAt(s, S) = e
    BY DEF ElementsAt, m
  <1>6. ASSUME NEW i \in S
        PROVE  CountTo(S, i) \in 1 .. m /\ e[CountTo(S, i)] = s[i]
    <2>1. CountTo(S, i) \in 1 .. Cardinality(S) /\ Nth(S, CountTo(S, i)) = i
      BY <1>0, NthOfCount
    <2> QED BY <2>1 DEF m
  <1> HIDE DEF e
  <1> QED BY <1>1, <1>4, <1>5, <1>6 DEF m
=============================================================================
