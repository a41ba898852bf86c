--------------------------- MODULE KeyHeapProofs ---------------------------
(***************************************************************************)
(* Who owns which block of the key arrays, for any number of lists, keys   *)
(* and blocks, an allocator that may pick any free block, and allocations  *)
(* that fail at any point.                                                 *)
(***************************************************************************)
EXTENDS KeyHeap, TLAPS, FiniteSetTheorems, SequenceTheorems

(* The blocks a list reaches.                                              *)
Reached(l) == ({l.header, l.items} \cup ToSet(l.keys)) \ {Null}

ListType == [header : Blocks \cup {Null}, items : Blocks \cup {Null},
             reserved : Nat, keys : Seq(Blocks)]
BlockType == [use : {"header", "items", "key"}, holds : Nat]
Typed(blocks) == DOMAIN blocks \subseteq Blocks /\ blocks \in [DOMAIN blocks -> BlockType]

(* A list whose pointers, counts and blocks agree.                         *)
WellFormed(l, blocks) ==
  /\ l \in ListType
  /\ Reached(l) \subseteq DOMAIN blocks
  /\ l.header # Null => blocks[l.header].use = "header"
  /\ l.header = Null => l = NoList
  /\ l.items # Null => blocks[l.items].use = "items" /\ blocks[l.items].holds = l.reserved
  /\ \A b \in ToSet(l.keys) : blocks[b].use = "key"
  /\ IsInjective(l.keys)
  /\ Len(l.keys) <= l.reserved
  /\ l.items = Null <=> l.reserved = 0

(* Every list is well formed, no two share a block, and a block that none  *)
(* reaches is an item array.                                               *)
Sound(lists, blocks) ==
  /\ Typed(blocks)
  /\ lists \in [Lists -> ListType]
  /\ \A t \in Lists : WellFormed(lists[t], blocks)
  /\ \A t, u \in Lists : t # u => Reached(lists[t]) \cap Reached(lists[u]) = {}
  /\ \A b \in DOMAIN blocks :
       (\A t \in Lists : b \notin Reached(lists[t])) => blocks[b].use = "items"

(* What every step preserves.  It holds after undefined behaviour too, for *)
(* that ends the model and only a failing copy, which changes no list, has *)
(* it.                                                                     *)
Inv == undefined \in BOOLEAN /\ Sound(list, heap)
-----------------------------------------------------------------------------
(* Sequences of pointers.                                                  *)
LEMMA Elements ==
  ASSUME NEW S, NEW s \in Seq(S)
  PROVE  /\ ToSet(s) \subseteq S
         /\ \A i \in 1 .. Len(s) : s[i] \in ToSet(s)
         /\ \A x \in ToSet(s) : \E i \in 1 .. Len(s) : x = s[i]
         /\ s = <<>> <=> ToSet(s) = {}
  <1>1. DOMAIN s = 1 .. Len(s) /\ Len(s) \in Nat /\ \A i \in 1 .. Len(s) : s[i] \in S
    OBVIOUS
  <1>2. /\ ToSet(s) \subseteq S
        /\ \A i \in 1 .. Len(s) : s[i] \in ToSet(s)
        /\ \A x \in ToSet(s) : \E i \in 1 .. Len(s) : x = s[i]
    BY <1>1 DEF ToSet
  <1>3. ASSUME s = <<>> PROVE ToSet(s) = {}
    <2>1. Len(s) = 0
      BY <1>3
    <2> QED BY <1>1, <1>2, <2>1
  <1>4. ASSUME s # <<>> PROVE ToSet(s) # {}
    <2>1. Len(s) # 0
      BY <1>4, EmptySeq
    <2>2. 1 \in 1 .. Len(s)
      BY <1>1, <2>1
    <2> QED BY <1>2, <2>2
  <1> QED BY <1>2, <1>3, <1>4

LEMMA ElementsConcat ==
  ASSUME NEW S, NEW s \in Seq(S), NEW x
  PROVE  /\ ToSet(s \o <<x>>) = ToSet(s) \cup {x}
         /\ Len(s \o <<x>>) = Len(s) + 1
         /\ \A i \in 1 .. Len(s) : (s \o <<x>>)[i] = s[i]
         /\ (s \o <<x>>)[Len(s)+1] = x
  <1>1. /\ Len(s \o <<x>>) = Len(s) + 1
        /\ \A i \in 1 .. Len(s) : (s \o <<x>>)[i] = s[i]
        /\ (s \o <<x>>)[Len(s)+1] = x
        /\ DOMAIN (s \o <<x>>) = 1 .. Len(s)+1
        /\ DOMAIN s = 1 .. Len(s) /\ Len(s) \in Nat
    OBVIOUS
  <1>2. ToSet(s \o <<x>>) = ToSet(s) \cup {x}
    BY <1>1 DEF ToSet
  <1> QED BY <1>1, <1>2

LEMMA InsertAtIs ==
  ASSUME NEW S, NEW s \in Seq(S), NEW at \in 1 .. Len(s)+1, NEW x \in S,
         IsInjective(s), x \notin ToSet(s)
  PROVE  /\ InsertAt(s, at, x) \in Seq(S)
         /\ Len(InsertAt(s, at, x)) = Len(s) + 1
         /\ ToSet(InsertAt(s, at, x)) = ToSet(s) \cup {x}
         /\ IsInjective(InsertAt(s, at, x))
  <1> DEFINE r == InsertAt(s, at, x)
  <1>0. Len(s) \in Nat /\ DOMAIN s = 1 .. Len(s)
    OBVIOUS
  <1>1. /\ r \in Seq(S) /\ Len(r) = Len(s) + 1
        /\ \A i \in 1 .. Len(s)+1 :
             r[i] = IF i < at THEN s[i] ELSE IF i = at THEN x ELSE s[i-1]
    <2> DEFINE before == SubSeq(s, 1, at-1)
               after == SubSeq(s, at, Len(s))
               upto == before \o <<x>>
    <2>0. at \in Int /\ at-1 \in Int /\ 1 \in Int /\ Len(s) \in Int
          /\ 1 <= at /\ at <= Len(s)+1
      BY <1>0
    <2>1. \A i \in 1 .. at-1 : s[i] \in S
      BY <1>0, <2>0
    <2>2. \A i \in at .. Len(s) : s[i] \in S
      BY <1>0, <2>0
    <2>3. /\ before \in Seq(S) /\ Len(before) = at-1
          /\ \A i \in 1 .. at-1 : before[i] = s[i]
      <3>1. /\ before \in Seq(S)
            /\ Len(before) = IF 1 <= at-1 THEN (at-1)-1+1 ELSE 0
            /\ \A i \in 1 .. (at-1)-1+1 : before[i] = s[1+i-1]
        BY <2>0, <2>1, SubSeqProperties
      <3> HIDE DEF before
      <3>2. \A i \in 1 .. at-1 : 1+i-1 = i /\ i \in 1 .. (at-1)-1+1
        BY <2>0
      <3> QED BY <2>0, <3>1, <3>2
    <2>4. /\ after \in Seq(S) /\ Len(after) = Len(s)-at+1
          /\ \A i \in 1 .. Len(s)-at+1 : after[i] = s[at+i-1]
      <3>1. /\ after \in Seq(S)
            /\ Len(after) = IF at <= Len(s) THEN Len(s)-at+1 ELSE 0
            /\ \A i \in 1 .. Len(s)-at+1 : after[i] = s[at+i-1]
        BY <2>0, <2>2, SubSeqProperties
      <3> HIDE DEF after
      <3> QED BY <2>0, <3>1
    <2> HIDE DEF before, after
    <2>5. <<x>> \in Seq(S) /\ Len(<<x>>) = 1 /\ <<x>>[1] = x
      OBVIOUS
    <2>6. /\ upto \in Seq(S) /\ Len(upto) = at
          /\ \A i \in 1 .. at : upto[i] = IF i < at THEN s[i] ELSE x
      <3>1. /\ upto \in Seq(S) /\ Len(upto) = Len(before) + Len(<<x>>)
            /\ \A i \in 1 .. Len(before) + Len(<<x>>) :
                 upto[i] = IF i <= Len(before) THEN before[i] ELSE <<x>>[i - Len(before)]
        BY <2>3, <2>5, ConcatProperties
      <3> HIDE DEF upto
      <3>2. Len(upto) = at
        BY <2>0, <2>3, <2>5, <3>1
      <3>3. ASSUME NEW i \in 1 .. at PROVE upto[i] = IF i < at THEN s[i] ELSE x
        <4>1. upto[i] = IF i <= at-1 THEN before[i] ELSE <<x>>[i - (at-1)]
          <5>1. Len(before) = at-1 /\ Len(before) + Len(<<x>>) = at
            BY <2>0, <2>3, <2>5
          <5> QED BY <3>1, <5>1, Zenon
        <4>2. CASE i < at
          BY <2>0, <2>3, <4>1, <4>2
        <4>3. CASE i = at
          <5>1. i - (at-1) = 1 /\ ~(i <= at-1)
            BY <2>0, <4>3
          <5> QED BY <2>5, <4>1, <4>3, <5>1
        <4> QED BY <2>0, <4>2, <4>3
      <3> QED BY <3>1, <3>2, <3>3
    <2> HIDE DEF upto
    <2>7. /\ r \in Seq(S) /\ Len(r) = Len(upto) + Len(after)
          /\ \A i \in 1 .. Len(upto) + Len(after) :
               r[i] = IF i <= Len(upto) THEN upto[i] ELSE after[i - Len(upto)]
      <3>1. r = upto \o after
        BY DEF InsertAt, upto, before, after
      <3> HIDE DEF r
      <3> QED BY <2>4, <2>6, <3>1, ConcatProperties
    <2> HIDE DEF r
    <2>8. Len(r) = Len(s)+1
      BY <2>0, <2>4, <2>6, <2>7
    <2>9. ASSUME NEW i \in 1 .. Len(s)+1
          PROVE  r[i] = IF i < at THEN s[i] ELSE IF i = at THEN x ELSE s[i-1]
      <3>1. r[i] = IF i <= at THEN upto[i] ELSE after[i-at]
        BY <2>0, <2>4, <2>6, <2>7
      <3>2. CASE i <= at
        BY <2>0, <2>6, <3>1, <3>2
      <3>3. CASE i > at
        <4>1. i-at \in 1 .. Len(s)-at+1 /\ at+(i-at)-1 = i-1 /\ ~(i <= at) /\ ~(i < at) /\ i # at
          BY <2>0, <3>3
        <4> QED BY <2>4, <3>1, <4>1
      <3> QED BY <2>0, <3>2, <3>3
    <2> QED BY <2>7, <2>8, <2>9
  <1>2. DOMAIN r = 1 .. Len(s)+1
    BY <1>0, <1>1
  <1> HIDE DEF r
  <1>3. ASSUME NEW i \in 1 .. Len(s)+1 PROVE r[i] = x \/ r[i] \in ToSet(s)
    <2>1. \A j \in 1 .. Len(s) : s[j] \in ToSet(s)
      BY Elements
    <2>2. (i < at => i \in 1 .. Len(s)) /\ (i > at => i-1 \in 1 .. Len(s))
      BY <1>0
    <2> QED BY <1>0, <1>1, <2>1, <2>2
  <1>4. r[at] = x
    BY <1>0, <1>1
  <1>5. \A i \in 1 .. Len(s) : \E j \in 1 .. Len(s)+1 : r[j] = s[i]
    <2> SUFFICES ASSUME NEW i \in 1 .. Len(s) PROVE \E j \in 1 .. Len(s)+1 : r[j] = s[i]
      OBVIOUS
    <2>1. CASE i < at
      <3>1. i \in 1 .. Len(s)+1
        BY <1>0
      <3> QED BY <1>1, <2>1, <3>1
    <2>2. CASE i >= at
      <3>1. i+1 \in 1 .. Len(s)+1 /\ ~(i+1 < at) /\ i+1 # at /\ (i+1)-1 = i
        BY <1>0, <2>2
      <3> QED BY <1>1, <3>1
    <2> QED BY <1>0, <2>1, <2>2
  <1>6. ToSet(r) = ToSet(s) \cup {x}
    <2>1. \A y \in ToSet(r) : \E i \in 1 .. Len(s)+1 : y = r[i]
      BY <1>2 DEF ToSet
    <2>2. \A y \in ToSet(s) : \E i \in 1 .. Len(s) : y = s[i]
      BY Elements
    <2>3. \A i \in 1 .. Len(s)+1 : r[i] \in ToSet(r)
      BY <1>2 DEF ToSet
    <2>4. at \in 1 .. Len(s)+1
      OBVIOUS
    <2> QED BY <1>3, <1>4, <1>5, <2>1, <2>2, <2>3, <2>4
  <1>7. IsInjective(r)
    <2> SUFFICES ASSUME NEW i \in 1 .. Len(s)+1, NEW j \in 1 .. Len(s)+1, i < j
                 PROVE  r[i] # r[j]
      BY <1>0, <1>2 DEF IsInjective
    <2>1. \A m, n \in 1 .. Len(s) : m # n => s[m] # s[n]
      BY <1>0 DEF IsInjective
    <2>2. \A m \in 1 .. Len(s) : s[m] # x
      BY <1>0 DEF ToSet
    <2>3. CASE j < at
      BY <1>0, <1>1, <2>1, <2>3
    <2>4. CASE j = at
      BY <1>0, <1>1, <2>2, <2>4
    <2>5. CASE j > at /\ i < at
      <3>1. r[i] = s[i] /\ r[j] = s[j-1] /\ i \in 1 .. Len(s) /\ j-1 \in 1 .. Len(s) /\ i # j-1
        BY <1>0, <1>1, <2>5
      <3> QED BY <2>1, <3>1
    <2>6. CASE j > at /\ i = at
      <3>1. r[i] = x /\ r[j] = s[j-1] /\ j-1 \in 1 .. Len(s)
        BY <1>0, <1>1, <2>6
      <3> QED BY <2>2, <3>1
    <2>7. CASE j > at /\ i > at
      <3>1. r[i] = s[i-1] /\ r[j] = s[j-1] /\ i-1 \in 1 .. Len(s) /\ j-1 \in 1 .. Len(s) /\ i-1 # j-1
        BY <1>0, <1>1, <2>7
      <3> QED BY <2>1, <3>1
    <2> QED BY <1>0, <2>3, <2>4, <2>5, <2>6, <2>7
  <1> QED BY <1>1, <1>6, <1>7 DEF r

LEMMA RemoveAtIs ==
  ASSUME NEW S, NEW s \in Seq(S), NEW at \in 1 .. Len(s), IsInjective(s)
  PROVE  /\ RemoveAt(s, at) \in Seq(S)
         /\ Len(RemoveAt(s, at)) = Len(s) - 1
         /\ ToSet(RemoveAt(s, at)) = ToSet(s) \ {s[at]}
         /\ IsInjective(RemoveAt(s, at))
  <1> DEFINE r == RemoveAt(s, at)
  <1>0. Len(s) \in Nat /\ DOMAIN s = 1 .. Len(s)
    OBVIOUS
  <1>1. /\ r \in Seq(S) /\ Len(r) = Len(s) - 1
        /\ \A i \in 1 .. Len(s)-1 : r[i] = IF i < at THEN s[i] ELSE s[i+1]
    <2> DEFINE before == SubSeq(s, 1, at-1)
               after == SubSeq(s, at+1, Len(s))
    <2>0. at \in Int /\ at-1 \in Int /\ at+1 \in Int /\ 1 \in Int /\ Len(s) \in Int
          /\ 1 <= at /\ at <= Len(s)
      BY <1>0
    <2>1. \A i \in 1 .. at-1 : s[i] \in S
      BY <1>0, <2>0
    <2>2. \A i \in at+1 .. Len(s) : s[i] \in S
      BY <1>0, <2>0
    <2>3. /\ before \in Seq(S) /\ Len(before) = at-1
          /\ \A i \in 1 .. at-1 : before[i] = s[i]
      <3>1. /\ before \in Seq(S)
            /\ Len(before) = IF 1 <= at-1 THEN (at-1)-1+1 ELSE 0
            /\ \A i \in 1 .. (at-1)-1+1 : before[i] = s[1+i-1]
        BY <2>0, <2>1, SubSeqProperties
      <3> HIDE DEF before
      <3>2. \A i \in 1 .. at-1 : 1+i-1 = i /\ i \in 1 .. (at-1)-1+1
        BY <2>0
      <3> QED BY <2>0, <3>1, <3>2
    <2>4. /\ after \in Seq(S) /\ Len(after) = Len(s)-at
          /\ \A i \in 1 .. Len(s)-at : after[i] = s[at+i]
      <3>1. /\ after \in Seq(S)
            /\ Len(after) = IF at+1 <= Len(s) THEN Len(s)-(at+1)+1 ELSE 0
            /\ \A i \in 1 .. Len(s)-(at+1)+1 : after[i] = s[(at+1)+i-1]
        BY <2>0, <2>2, SubSeqProperties
      <3> HIDE DEF after
      <3>2. \A i \in 1 .. Len(s)-at : (at+1)+i-1 = at+i /\ i \in 1 .. Len(s)-(at+1)+1
        BY <2>0
      <3> QED BY <2>0, <3>1, <3>2
    <2> HIDE DEF before, after
    <2>5. /\ r \in Seq(S) /\ Len(r) = Len(before) + Len(after)
          /\ \A i \in 1 .. Len(before) + Len(after) :
               r[i] = IF i <= Len(before) THEN before[i] ELSE after[i - Len(before)]
      <3>1. r = before \o after
        BY DEF RemoveAt, before, after
      <3> HIDE DEF r
      <3> QED BY <2>3, <2>4, <3>1, ConcatProperties
    <2> HIDE DEF r
    <2>6. Len(r) = Len(s)-1
      BY <2>0, <2>3, <2>4, <2>5
    <2>7. ASSUME NEW i \in 1 .. Len(s)-1
          PROVE  r[i] = IF i < at THEN s[i] ELSE s[i+1]
      <3>1. r[i] = IF i <= at-1 THEN before[i] ELSE after[i-(at-1)]
        BY <2>0, <2>3, <2>4, <2>5
      <3>2. CASE i < at
        BY <2>0, <2>3, <3>1, <3>2
      <3>3. CASE ~(i < at)
        <4>1. i-(at-1) \in 1 .. Len(s)-at /\ at+(i-(at-1)) = i+1 /\ ~(i <= at-1)
          BY <2>0, <3>3
        <4> QED BY <2>4, <3>1, <3>3, <4>1
      <3> QED BY <3>2, <3>3
    <2> QED BY <2>5, <2>6, <2>7
  <1>2. DOMAIN r = 1 .. Len(s)-1
    BY <1>0, <1>1
  <1> HIDE DEF r
  <1>3. \A m, n \in 1 .. Len(s) : m # n => s[m] # s[n]
    BY <1>0 DEF IsInjective
  <1>4. ASSUME NEW i \in 1 .. Len(s)-1
        PROVE  \E j \in 1 .. Len(s) : j # at /\ r[i] = s[j]
    <2>1. CASE i < at
      BY <1>0, <1>1, <2>1
    <2>2. CASE ~(i < at)
      <3>1. i+1 \in 1 .. Len(s) /\ i+1 # at
        BY <1>0, <2>2
      <3> QED BY <1>1, <2>2, <3>1
    <2> QED BY <2>1, <2>2
  <1>5. ASSUME NEW j \in 1 .. Len(s), j # at
        PROVE  \E i \in 1 .. Len(s)-1 : r[i] = s[j]
    <2>1. CASE j < at
      BY <1>0, <1>1, <2>1
    <2>2. CASE j > at
      <3>1. j-1 \in 1 .. Len(s)-1 /\ ~(j-1 < at) /\ (j-1)+1 = j
        BY <1>0, <2>2
      <3> QED BY <1>1, <3>1
    <2> QED BY <1>0, <1>5, <2>1, <2>2
  <1>6. ToSet(r) = ToSet(s) \ {s[at]}
    <2>1. ToSet(r) \subseteq ToSet(s) \ {s[at]}
      BY <1>0, <1>2, <1>3, <1>4 DEF ToSet
    <2>2. ToSet(s) \ {s[at]} \subseteq ToSet(r)
      BY <1>0, <1>2, <1>5 DEF ToSet
    <2> QED BY <2>1, <2>2
  <1>7. IsInjective(r)
    <2> SUFFICES ASSUME NEW i \in 1 .. Len(s)-1, NEW j \in 1 .. Len(s)-1, i < j
                 PROVE  r[i] # r[j]
      BY <1>0, <1>2 DEF IsInjective
    <2>1. CASE j < at
      BY <1>0, <1>1, <1>3, <2>1
    <2>2. CASE i < at /\ ~(j < at)
      <3>1. r[i] = s[i] /\ r[j] = s[j+1] /\ i \in 1 .. Len(s) /\ j+1 \in 1 .. Len(s) /\ i # j+1
        BY <1>0, <1>1, <2>2
      <3> QED BY <1>3, <3>1
    <2>3. CASE ~(i < at)
      <3>1. r[i] = s[i+1] /\ r[j] = s[j+1] /\ i+1 \in 1 .. Len(s) /\ j+1 \in 1 .. Len(s) /\ i+1 # j+1
        BY <1>0, <1>1, <2>3
      <3> QED BY <1>3, <3>1
    <2> QED BY <2>1, <2>2, <2>3
  <1> QED BY <1>1, <1>6, <1>7 DEF r

(* The elements of a sequence are finitely many, at most its length.       *)
LEMMA FewElements ==
  ASSUME NEW S, NEW s \in Seq(S)
  PROVE  IsFiniteSet(ToSet(s)) /\ Cardinality(ToSet(s)) \in Nat /\ Cardinality(ToSet(s)) <= Len(s)
  <1>1. Len(s) \in Nat /\ s \in Surjection(1 .. Len(s), ToSet(s))
    BY DEF ToSet, Surjection
  <1>2. IsFiniteSet(1 .. Len(s)) /\ Cardinality(1 .. Len(s)) = Len(s)
    <2>1. 1 \in Int /\ Len(s) \in Int /\ (IF 1 > Len(s) THEN 0 ELSE Len(s)-1+1) = Len(s)
      BY <1>1
    <2> QED BY <2>1, FS_Interval
  <1>3. IsFiniteSet(ToSet(s)) /\ Cardinality(ToSet(s)) <= Cardinality(1 .. Len(s))
    BY <1>1, <1>2, FS_Surjection
  <1> QED BY <1>2, <1>3, FS_CardinalityType

LEMMA PositionIs ==
  ASSUME list \in [Lists -> ListType], NEW t \in Lists, NEW k \in Keys
  PROVE  /\ Position(t, k) \in 1 .. Len(list[t].keys) + 1
         /\ Holds(t, k) => Position(t, k) \in 1 .. Len(list[t].keys)
  <1> DEFINE s == list[t].keys
             smaller == {b \in ToSet(s) : Name(b) < k}
  <1>1. s \in Seq(Blocks) /\ Len(s) \in Nat
    BY DEF ListType
  <1>2. IsFiniteSet(ToSet(s)) /\ Cardinality(ToSet(s)) \in Nat /\ Cardinality(ToSet(s)) <= Len(s)
    BY <1>1, FewElements
  <1>3. smaller \in SUBSET ToSet(s)
    OBVIOUS
  <1>4. /\ IsFiniteSet(smaller) /\ Cardinality(smaller) <= Cardinality(ToSet(s))
        /\ Cardinality(smaller) = Cardinality(ToSet(s)) => ToSet(s) = smaller
    BY <1>2, <1>3, FS_Subset
  <1>5. Cardinality(smaller) \in Nat
    BY <1>4, FS_CardinalityType
  <1>6. Position(t, k) = Cardinality(smaller) + 1
    BY DEF Position
  <1>7. Holds(t, k) => Cardinality(smaller) # Cardinality(ToSet(s))
    <2> SUFFICES ASSUME Holds(t, k), ToSet(s) = smaller PROVE FALSE
      BY <1>4
    <2>1. PICK b \in ToSet(s) : Name(b) = k
      BY DEF Holds
    <2>2. b \in smaller /\ Name(b) < k
      BY <2>1
    <2>3. k \in Nat
      BY KeysAssumption
    <2> QED BY <2>1, <2>2, <2>3
  <1> HIDE DEF smaller
  <1> QED BY <1>1, <1>2, <1>4, <1>5, <1>6, <1>7
-----------------------------------------------------------------------------
(* Blocks.                                                                 *)
LEMMA BlockIs ==
  ASSUME NEW use \in {"header", "items", "key"}, NEW n \in Nat
  PROVE  /\ Block(use, n) \in BlockType
         /\ Block(use, n).use = use
         /\ Block(use, n).holds = n
  BY DEF Block, BlockType

LEMMA WithoutIs ==
  ASSUME Typed(heap), NEW ptrs
  PROVE  /\ Typed(Without(ptrs))
         /\ DOMAIN Without(ptrs) = Allocated \ ToSet(ptrs)
         /\ \A x \in Allocated \ ToSet(ptrs) : Without(ptrs)[x] = heap[x]
  BY DEF Without, Typed, Allocated

LEMMA MallocIs ==
  ASSUME NEW F, F \subseteq Blocks
  PROVE  Malloc(F) \subseteq F
  BY MallocAssumption

(* A list is well formed when the blocks agree with its parts.             *)
LEMMA WellFormedIs ==
  ASSUME NEW l \in ListType, NEW bl,
         l.header # Null, l.header \in DOMAIN bl, bl[l.header].use = "header",
         l.items # Null =>
           l.items \in DOMAIN bl /\ bl[l.items].use = "items" /\ bl[l.items].holds = l.reserved,
         \A b \in ToSet(l.keys) : b \in DOMAIN bl /\ bl[b].use = "key",
         IsInjective(l.keys), Len(l.keys) <= l.reserved, l.items = Null <=> l.reserved = 0
  PROVE  WellFormed(l, bl)
  <1>1. Reached(l) \subseteq DOMAIN bl
    BY DEF Reached
  <1> QED BY <1>1 DEF WellFormed

LEMMA Moved ==
  ASSUME NEW l \in ListType, NEW i, NEW n
  PROVE  [l EXCEPT !.items = i, !.reserved = n]
           = [header |-> l.header, items |-> i, reserved |-> n, keys |-> l.keys]
  <1> DEFINE l1 == [l EXCEPT !.items = i]
  <1>1. l1 = [header |-> l.header, items |-> i, reserved |-> l.reserved, keys |-> l.keys]
    BY DEF ListType
  <1> HIDE DEF l1
  <1>2. [l1 EXCEPT !.reserved = n]
          = [header |-> l.header, items |-> i, reserved |-> n, keys |-> l.keys]
    BY <1>1
  <1> QED BY <1>2, Zenon DEF l1

LEMMA NoListIs ==
  ASSUME NEW bl
  PROVE  WellFormed(NoList, bl) /\ Reached(NoList) = {}
  <1>1. /\ NoList.header = Null /\ NoList.items = Null
        /\ NoList.reserved = 0 /\ NoList.keys = <<>> /\ NoList \in ListType
    BY DEF NoList, ListType
  <1>2. ToSet(<<>>) = {} /\ IsInjective(<<>>) /\ Len(<<>>) = 0
    BY DEF ToSet, IsInjective
  <1>3. Reached(NoList) = {}
    BY <1>1, <1>2 DEF Reached
  <1> QED BY <1>1, <1>2, <1>3 DEF WellFormed

(* What a list reaches is typed.                                           *)
LEMMA Parts ==
  ASSUME NEW ls, NEW bl, Sound(ls, bl), NEW t \in Lists
  PROVE  /\ ls[t] \in ListType
         /\ ls[t].header \in Blocks \cup {Null} /\ ls[t].items \in Blocks \cup {Null}
         /\ ls[t].reserved \in Nat /\ ls[t].keys \in Seq(Blocks) /\ Len(ls[t].keys) \in Nat
         /\ ls[t] = [header |-> ls[t].header, items |-> ls[t].items,
                     reserved |-> ls[t].reserved, keys |-> ls[t].keys]
         /\ WellFormed(ls[t], bl)
         /\ Reached(ls[t]) = ({ls[t].header, ls[t].items} \cup ToSet(ls[t].keys)) \ {Null}
         /\ Reached(ls[t]) \subseteq DOMAIN bl
         /\ ToSet(ls[t].keys) \subseteq Reached(ls[t])
         /\ Typed(bl)
  <1>1. ls[t] \in ListType /\ WellFormed(ls[t], bl) /\ Typed(bl)
    BY DEF Sound
  <1>2. /\ ls[t].header \in Blocks \cup {Null} /\ ls[t].items \in Blocks \cup {Null}
        /\ ls[t].reserved \in Nat /\ ls[t].keys \in Seq(Blocks) /\ Len(ls[t].keys) \in Nat
        /\ ls[t] = [header |-> ls[t].header, items |-> ls[t].items,
                    reserved |-> ls[t].reserved, keys |-> ls[t].keys]
    BY <1>1 DEF ListType
  <1>3. ToSet(ls[t].keys) \subseteq Blocks
    BY <1>2, Elements
  <1>4. ToSet(ls[t].keys) \subseteq Reached(ls[t])
    BY <1>3, BlocksAssumption DEF Reached
  <1>5. Reached(ls[t]) \subseteq DOMAIN bl
    BY <1>1 DEF WellFormed
  <1> QED BY <1>1, <1>2, <1>4, <1>5 DEF Reached

(* A call that replaces one list, changes no block the others reach and    *)
(* leaves nothing unreached but item arrays.                               *)
LEMMA OneList ==
  ASSUME NEW ls, NEW bl, NEW bl2, NEW t \in Lists, NEW new, Sound(ls, bl),
         Typed(bl2), WellFormed(new, bl2),
         \A b \in Reached(new) : b \in DOMAIN bl => b \in Reached(ls[t]),
         \A b \in DOMAIN bl : b \notin Reached(ls[t]) => b \in DOMAIN bl2 /\ bl2[b] = bl[b],
         \A b \in DOMAIN bl2 : \/ b \in Reached(new)
                               \/ b \in DOMAIN bl /\ b \notin Reached(ls[t])
                               \/ bl2[b].use = "items"
  PROVE  Sound([ls EXCEPT ![t] = new], bl2)
  <1> DEFINE ls2 == [ls EXCEPT ![t] = new]
  <1>1. ls \in [Lists -> ListType] /\ new \in ListType
    BY DEF Sound, WellFormed
  <1>2. ls2 \in [Lists -> ListType] /\ ls2[t] = new /\ \A u \in Lists : u # t => ls2[u] = ls[u]
    BY <1>1
  <1> HIDE DEF ls2
  <1>3. ASSUME NEW u \in Lists, u # t
        PROVE  /\ WellFormed(ls[u], bl2)
               /\ Reached(ls[u]) \subseteq DOMAIN bl
               /\ \A b \in Reached(ls[u]) : b \notin Reached(ls[t]) /\ b \in DOMAIN bl2 /\ bl2[b] = bl[b]
    <2>1. Reached(ls[u]) \subseteq DOMAIN bl /\ WellFormed(ls[u], bl)
          /\ ToSet(ls[u].keys) \subseteq Reached(ls[u])
      BY Parts
    <2>2. Reached(ls[t]) \cap Reached(ls[u]) = {}
      BY <1>3 DEF Sound
    <2>3. \A b \in Reached(ls[u]) : b \notin Reached(ls[t]) /\ b \in DOMAIN bl2 /\ bl2[b] = bl[b]
      BY <2>1, <2>2
    <2>4. ls[u].header # Null => ls[u].header \in Reached(ls[u])
      BY DEF Reached
    <2>5. ls[u].items # Null => ls[u].items \in Reached(ls[u])
      BY DEF Reached
    <2>6. WellFormed(ls[u], bl2)
      BY <2>1, <2>3, <2>4, <2>5 DEF WellFormed
    <2> QED BY <2>1, <2>3, <2>6
  <1>4. \A u \in Lists : WellFormed(ls2[u], bl2)
    BY <1>2, <1>3
  <1>5. ASSUME NEW u \in Lists, u # t PROVE Reached(new) \cap Reached(ls[u]) = {}
    BY <1>3, <1>5
  <1>6. \A u, v \in Lists : u # v => Reached(ls2[u]) \cap Reached(ls2[v]) = {}
    <2> SUFFICES ASSUME NEW u \in Lists, NEW v \in Lists, u # v
                 PROVE  Reached(ls2[u]) \cap Reached(ls2[v]) = {}
      OBVIOUS
    <2>1. CASE u = t
      BY <1>2, <1>5, <2>1
    <2>2. CASE v = t
      BY <1>2, <1>5, <2>2
    <2>3. CASE u # t /\ v # t
      BY <1>2, <2>3 DEF Sound
    <2> QED BY <2>1, <2>2, <2>3
  <1>7. ASSUME NEW b \in DOMAIN bl2, \A u \in Lists : b \notin Reached(ls2[u])
        PROVE  bl2[b].use = "items"
    <2>1. b \notin Reached(new)
      BY <1>2, <1>7
    <2>2. CASE b \in DOMAIN bl /\ b \notin Reached(ls[t])
      <3>1. \A u \in Lists : b \notin Reached(ls[u])
        BY <1>2, <1>7, <2>2
      <3> QED BY <2>2, <3>1 DEF Sound
    <2> QED BY <2>1, <2>2
  <1>8. Sound(ls2, bl2)
    BY <1>2, <1>4, <1>6, <1>7 DEF Sound
  <1> QED BY <1>8 DEF ls2
-----------------------------------------------------------------------------
(* Creation, with or without an item array: of a new list, of the copy of  *)
(* an empty one.                                                           *)
LEMMA Created ==
  ASSUME Sound(list, heap), NEW t \in Lists, ~IsOpen(t), NEW h \in Malloc(Fresh)
  PROVE  Sound([list EXCEPT ![t] = [header |-> h, items |-> Null, reserved |-> 0, keys |-> <<>>]],
               Put(h, Header, heap))
  <1> DEFINE new == [header |-> h, items |-> Null, reserved |-> 0, keys |-> <<>>]
             bl2 == Put(h, Header, heap)
  <1>1. h \in Blocks /\ h \notin Allocated /\ Typed(heap) /\ Header \in BlockType /\ Header.use = "header"
    BY MallocIs, BlockIs DEF Fresh, Sound, Header
  <1>2. /\ Typed(bl2) /\ DOMAIN bl2 = {h} \cup Allocated /\ bl2[h] = Header
        /\ \A x \in Allocated : bl2[x] = heap[x]
    BY <1>1 DEF Put, Typed, Allocated
  <1>3. ToSet(<<>>) = {} /\ IsInjective(<<>>) /\ Len(<<>>) <= 0 /\ <<>> \in Seq(Blocks)
    BY DEF ToSet, IsInjective
  <1> HIDE DEF bl2
  <1>4. WellFormed(new, bl2) /\ Reached(new) = {h}
    <2>1. /\ new \in ListType /\ new.header = h /\ new.items = Null
          /\ new.reserved = 0 /\ new.keys = <<>> /\ h # Null
      BY <1>1, <1>3, BlocksAssumption DEF ListType
    <2> HIDE DEF new
    <2>2. \A b \in ToSet(new.keys) : b \in DOMAIN bl2 /\ bl2[b].use = "key"
      BY <1>3, <2>1
    <2>3. WellFormed(new, bl2)
      BY <1>1, <1>2, <1>3, <2>1, <2>2, WellFormedIs
    <2> QED BY <1>3, <2>1, <2>3 DEF Reached
  <1> HIDE DEF new
  <1>5. Reached(list[t]) = {}
    <2>1. list[t] = NoList
      <3>1. WellFormed(list[t], heap)
        BY Parts
      <3> QED BY <3>1 DEF IsOpen, WellFormed
    <2> QED BY <2>1, NoListIs
  <1>6. Sound([list EXCEPT ![t] = new], bl2)
    BY <1>1, <1>2, <1>4, <1>5, OneList DEF Allocated
  <1> QED BY <1>6 DEF new, bl2

LEMMA CreatedWith ==
  ASSUME Sound(list, heap), NEW t \in Lists, ~IsOpen(t), NEW h \in Malloc(Fresh),
         NEW i \in Malloc(Fresh \ {h}), NEW n \in Nat, n # 0
  PROVE  Sound([list EXCEPT ![t] = [header |-> h, items |-> i, reserved |-> n, keys |-> <<>>]],
               Put(i, Block("items", n), Put(h, Header, heap)))
  <1> DEFINE new == [header |-> h, items |-> i, reserved |-> n, keys |-> <<>>]
             bl1 == Put(h, Header, heap)
             bl2 == Put(i, Block("items", n), bl1)
  <1>1. h \in Blocks /\ h \notin Allocated /\ Typed(heap) /\ Header \in BlockType /\ Header.use = "header"
    BY MallocIs, BlockIs DEF Fresh, Sound, Header
  <1>2. i \in Blocks /\ i \notin Allocated /\ i # h
    <2>1. Fresh \ {h} \subseteq Blocks
      BY DEF Fresh
    <2> QED BY <2>1, MallocIs DEF Fresh
  <1>3. /\ Typed(bl1) /\ DOMAIN bl1 = {h} \cup Allocated /\ bl1[h] = Header
        /\ \A x \in Allocated : bl1[x] = heap[x]
    <2>1. /\ Typed(bl1) /\ DOMAIN bl1 = {h} \cup DOMAIN heap /\ bl1[h] = Header
          /\ \A x \in DOMAIN heap : x # h => bl1[x] = heap[x]
      BY <1>1 DEF Put, Typed
    <2> HIDE DEF bl1
    <2> QED BY <1>1, <2>1 DEF Allocated
  <1>4. /\ Block("items", n) \in BlockType /\ Block("items", n).use = "items"
        /\ Block("items", n).holds = n
    BY BlockIs
  <1> HIDE DEF bl1
  <1>5. /\ Typed(bl2) /\ DOMAIN bl2 = {i, h} \cup Allocated /\ bl2[h] = Header
        /\ bl2[i] = Block("items", n)
        /\ \A x \in Allocated : bl2[x] = heap[x]
    <2>1. /\ Typed(bl2) /\ DOMAIN bl2 = {i} \cup DOMAIN bl1 /\ bl2[i] = Block("items", n)
          /\ \A x \in DOMAIN bl1 : x # i => bl2[x] = bl1[x]
      BY <1>2, <1>3, <1>4 DEF Put, Typed
    <2> HIDE DEF bl2
    <2> QED BY <1>1, <1>2, <1>3, <2>1
  <1>6. ToSet(<<>>) = {} /\ IsInjective(<<>>) /\ Len(<<>>) <= n /\ <<>> \in Seq(Blocks)
    BY DEF ToSet, IsInjective
  <1> HIDE DEF bl2
  <1>7. WellFormed(new, bl2) /\ Reached(new) = {h, i}
    <2>1. /\ new \in ListType /\ new.header = h /\ new.items = i
          /\ new.reserved = n /\ new.keys = <<>> /\ h # Null /\ i # Null
      BY <1>1, <1>2, <1>6, BlocksAssumption DEF ListType
    <2> HIDE DEF new
    <2>2. \A b \in ToSet(new.keys) : b \in DOMAIN bl2 /\ bl2[b].use = "key"
      BY <1>6, <2>1
    <2>3. /\ new.items \in DOMAIN bl2 /\ bl2[new.items].use = "items"
          /\ bl2[new.items].holds = new.reserved
          /\ new.header \in DOMAIN bl2 /\ bl2[new.header].use = "header"
      BY <1>1, <1>4, <1>5, <2>1
    <2>4. IsInjective(new.keys) /\ Len(new.keys) <= new.reserved
          /\ (new.items = Null <=> new.reserved = 0) /\ new.header # Null
      BY <1>6, <2>1
    <2>5. WellFormed(new, bl2)
      BY <2>1, <2>2, <2>3, <2>4, WellFormedIs
    <2> QED BY <1>6, <2>1, <2>5 DEF Reached
  <1> HIDE DEF new
  <1>8. Reached(list[t]) = {}
    <2>1. list[t] = NoList
      <3>1. WellFormed(list[t], heap)
        BY Parts
      <3> QED BY <3>1 DEF IsOpen, WellFormed
    <2> QED BY <2>1, NoListIs
  <1>9. Sound([list EXCEPT ![t] = new], bl2)
    BY <1>1, <1>2, <1>5, <1>7, <1>8, OneList DEF Allocated
  <1> QED BY <1>9 DEF new, bl1, bl2

(* Freeing a list: the item array is what stays.                           *)
LEMMA Freed ==
  ASSUME Sound(list, heap), NEW t \in Lists, IsOpen(t)
  PROVE  /\ Sound([list EXCEPT ![t] = NoList], Without(Disposed(t)))
         /\ Defined(Disposed(t))
  <1> DEFINE s == list[t].keys
             h == list[t].header
             r == Disposed(t)
             bl2 == Without(r)
  <1>1. /\ s \in Seq(Blocks) /\ Len(s) \in Nat /\ h \in Blocks \cup {Null} /\ h # Null
        /\ WellFormed(list[t], heap) /\ Reached(list[t]) \subseteq Allocated
        /\ ToSet(s) \subseteq Reached(list[t]) /\ Typed(heap)
        /\ Reached(list[t]) = ({h, list[t].items} \cup ToSet(s)) \ {Null}
    BY Parts DEF IsOpen, Allocated
  <1>2. /\ heap[h].use = "header" /\ \A b \in ToSet(s) : heap[b].use = "key"
        /\ list[t].items # Null => heap[list[t].items].use = "items"
        /\ IsInjective(s)
    BY <1>1 DEF WellFormed
  <1>3. /\ ToSet(r) = ToSet(s) \cup {h} /\ Len(r) = Len(s) + 1
        /\ \A i \in 1 .. Len(s) : r[i] = s[i]
        /\ r[Len(s)+1] = h /\ r \in Seq(Blocks \cup {Null})
    <2>1. s \in Seq(Blocks \cup {Null}) /\ r = s \o <<h>>
      BY <1>1 DEF Disposed
    <2> QED BY <1>1, <2>1, ElementsConcat
  <1> HIDE DEF r
  <1>4. /\ Typed(bl2) /\ DOMAIN bl2 = Allocated \ (ToSet(s) \cup {h})
        /\ \A x \in DOMAIN bl2 : bl2[x] = heap[x]
    BY <1>1, <1>3, WithoutIs
  <1> HIDE DEF bl2
  <1>5. WellFormed(NoList, bl2) /\ Reached(NoList) = {}
    BY NoListIs
  <1>6. Sound([list EXCEPT ![t] = NoList], bl2)
    <2>1. h \in Reached(list[t])
      BY <1>1
    <2>2. \A b \in Allocated : b \notin Reached(list[t]) => b \in DOMAIN bl2 /\ bl2[b] = heap[b]
      BY <1>1, <1>4, <2>1
    <2>3. \A b \in DOMAIN bl2 : b \in Reached(list[t]) => bl2[b].use = "items"
      BY <1>1, <1>2, <1>4
    <2> QED BY <1>4, <1>5, <2>2, <2>3, OneList DEF Allocated
  <1>7. Defined(r)
    <2>1. DOMAIN r = 1 .. Len(s)+1
      BY <1>1, <1>3
    <2>2. \A x \in ToSet(r) : x \in Allocated
      BY <1>1, <1>3
    <2>3. \A i \in 1 .. Len(s)+1 : r[i] \in Allocated
      BY <2>1, <2>2 DEF ToSet
    <2>4. ASSUME NEW i \in 1 .. Len(s)+1, NEW j \in 1 .. i-1 PROVE r[j] # r[i]
      <3>1. j \in 1 .. Len(s) /\ j # i /\ (i \in 1 .. Len(s) \/ i = Len(s)+1)
        BY <1>1
      <3>2. CASE i \in 1 .. Len(s)
        BY <1>1, <1>2, <1>3, <3>1, <3>2 DEF IsInjective
      <3>3. CASE i = Len(s)+1
        <4>1. s[j] \in ToSet(s)
          BY <1>1, <3>1, Elements
        <4>2. r[j] = s[j] /\ r[i] = h
          BY <1>3, <3>1, <3>3
        <4>3. heap[s[j]].use = "key" /\ heap[h].use = "header"
          BY <1>2, <4>1
        <4> QED BY <4>2, <4>3
      <3> QED BY <3>1, <3>2, <3>3
    <2> QED BY <2>1, <2>3, <2>4 DEF Defined
  <1> QED BY <1>6, <1>7 DEF r, bl2

(* realloc or the first malloc of an item array of n slots.                *)
LEMMA Reallocated ==
  ASSUME Sound(list, heap), NEW t \in Lists, IsOpen(t), NEW i \in Moves(list[t].items),
         NEW n \in Nat, n # 0, Len(list[t].keys) <= n
  PROVE  /\ Sound([list EXCEPT ![t] = [list[t] EXCEPT !.items = i, !.reserved = n]],
                  Resized(list[t].items, i, n))
         /\ Defined(<<list[t].items>>)
  <1> DEFINE l == list[t]
             new == [header |-> l.header, items |-> i, reserved |-> n, keys |-> l.keys]
             bl1 == Without(<<l.items>>)
             bl2 == Put(i, Block("items", n), bl1)
  <1>1. /\ l.keys \in Seq(Blocks) /\ Len(l.keys) \in Nat /\ l.header \in Blocks /\ l.header # Null
        /\ WellFormed(l, heap) /\ Reached(l) \subseteq Allocated
        /\ ToSet(l.keys) \subseteq Reached(l) /\ Typed(heap)
        /\ Reached(l) = ({l.header, l.items} \cup ToSet(l.keys)) \ {Null}
        /\ l.items \in Blocks \cup {Null}
        /\ [l EXCEPT !.items = i, !.reserved = n] = new
    <2>1. /\ l.keys \in Seq(Blocks) /\ Len(l.keys) \in Nat /\ l.header \in Blocks \cup {Null}
          /\ WellFormed(l, heap) /\ Reached(l) \subseteq DOMAIN heap
          /\ ToSet(l.keys) \subseteq Reached(l) /\ Typed(heap)
          /\ Reached(l) = ({l.header, l.items} \cup ToSet(l.keys)) \ {Null}
          /\ l.items \in Blocks \cup {Null}
          /\ l = [header |-> l.header, items |-> l.items, reserved |-> l.reserved, keys |-> l.keys]
      BY Parts, Zenon
    <2>2. l.header # Null
      BY DEF IsOpen
    <2>3. [l EXCEPT !.items = i, !.reserved = n] = new
      <3>1. l \in ListType
        BY Parts
      <3> QED BY <3>1, Moved
    <2> HIDE DEF l
    <2> QED BY <2>1, <2>2, <2>3 DEF Allocated
  <1>2. /\ heap[l.header].use = "header" /\ \A b \in ToSet(l.keys) : heap[b].use = "key"
        /\ l.items # Null => heap[l.items].use = "items"
        /\ IsInjective(l.keys) /\ Len(l.keys) <= n
    BY <1>1 DEF WellFormed
  <1>3. ToSet(<<l.items>>) = {l.items}
    BY DEF ToSet
  <1>4. /\ Typed(bl1) /\ DOMAIN bl1 = Allocated \ {l.items}
        /\ \A x \in DOMAIN bl1 : bl1[x] = heap[x]
    BY <1>1, <1>3, WithoutIs
  <1>5. i \in Blocks /\ (i \notin Allocated \/ (i = l.items /\ i # Null))
    BY <1>1, MallocIs DEF Moves, Fresh
  <1>6. /\ Block("items", n) \in BlockType /\ Block("items", n).use = "items"
        /\ Block("items", n).holds = n
    BY BlockIs
  <1> HIDE DEF bl1
  <1>7. /\ Typed(bl2) /\ DOMAIN bl2 = {i} \cup (Allocated \ {l.items})
        /\ bl2[i] = Block("items", n)
        /\ \A x \in Allocated \ {l.items, i} : bl2[x] = heap[x]
    <2>1. /\ Typed(bl2) /\ DOMAIN bl2 = {i} \cup DOMAIN bl1 /\ bl2[i] = Block("items", n)
          /\ \A x \in DOMAIN bl1 : x # i => bl2[x] = bl1[x]
      BY <1>4, <1>5, <1>6 DEF Put, Typed
    <2> HIDE DEF bl2, l
    <2> QED BY <1>4, <2>1
  <1> HIDE DEF bl2
  <1>8. \A b \in {l.header} \cup ToSet(l.keys) : b \in Allocated /\ b # l.items /\ b # i
    <2>1. \A b \in {l.header} \cup ToSet(l.keys) : b \in Allocated /\ b # Null
      BY <1>1, BlocksAssumption
    <2> QED BY <1>2, <1>5, <2>1
  <1>9. WellFormed(new, bl2) /\ Reached(new) = ({l.header, i} \cup ToSet(l.keys)) \ {Null}
    <2> HIDE DEF l
    <2>1. /\ new \in ListType /\ new.header = l.header /\ new.items = i
          /\ new.reserved = n /\ new.keys = l.keys /\ i # Null
      BY <1>1, <1>5, BlocksAssumption DEF ListType
    <2> HIDE DEF new
    <2>2. new.header \in DOMAIN bl2 /\ bl2[new.header].use = "header" /\ new.header # Null
      BY <1>1, <1>2, <1>7, <1>8, <2>1
    <2>3. /\ new.items \in DOMAIN bl2 /\ bl2[new.items].use = "items"
          /\ bl2[new.items].holds = new.reserved
      BY <1>6, <1>7, <2>1
    <2>4. \A b \in ToSet(new.keys) : b \in DOMAIN bl2 /\ bl2[b].use = "key"
      BY <1>2, <1>7, <1>8, <2>1
    <2>5. IsInjective(new.keys) /\ Len(new.keys) <= new.reserved
          /\ (new.items = Null <=> new.reserved = 0)
      BY <1>2, <2>1
    <2>6. WellFormed(new, bl2)
      BY <2>1, <2>2, <2>3, <2>4, <2>5, WellFormedIs
    <2> QED BY <2>1, <2>6 DEF Reached
  <1>10. Sound([list EXCEPT ![t] = new], bl2)
    <2>1. \A b \in Reached(new) : b \in Allocated => b \in Reached(l)
      BY <1>1, <1>5, <1>9
    <2>2. \A b \in Allocated : b \notin Reached(l) => b \in DOMAIN bl2 /\ bl2[b] = heap[b]
      <3> SUFFICES ASSUME NEW b \in Allocated, b \notin Reached(l)
                   PROVE  b \in Allocated \ {l.items, i}
        BY <1>7
      <3>1. b # Null
        BY <1>1, BlocksAssumption DEF Typed, Allocated
      <3>2. b # l.items
        BY <1>1, <3>1
      <3> QED BY <1>5, <3>2
    <2>3. \A b \in DOMAIN bl2 : b \in Reached(new) \/ (b \in Allocated /\ b \notin Reached(l))
      <3> SUFFICES ASSUME NEW b \in DOMAIN bl2, b \in Reached(l), b # i
                   PROVE  b \in Reached(new)
        BY <1>5, <1>7, <1>9, BlocksAssumption
      <3> QED BY <1>1, <1>7, <1>9
    <2> HIDE DEF new
    <2> QED BY <1>7, <1>9, <2>1, <2>2, <2>3, OneList DEF Allocated
  <1>11. Defined(<<l.items>>)
    <2>1. l.items # Null => l.items \in Allocated
      BY <1>1
    <2>2. DOMAIN <<l.items>> = 1 .. 1 /\ <<l.items>>[1] = l.items
      OBVIOUS
    <2>3. \A n1 \in 1 .. 1 : n1 = 1 /\ 1 .. n1-1 = {}
      OBVIOUS
    <2> HIDE DEF l
    <2> QED BY <2>1, <2>2, <2>3, Zenon DEF Defined
  <1> QED BY <1>1, <1>10, <1>11 DEF bl1, bl2, Resized

(* A new key in a list with a free slot.                                   *)
LEMMA Inserted ==
  ASSUME NEW ls, NEW bl, Sound(ls, bl), NEW t \in Lists, ls[t].header # Null,
         Len(ls[t].keys) < ls[t].reserved, NEW k \in Nat,
         NEW at \in 1 .. Len(ls[t].keys)+1, NEW b \in Blocks, b \notin DOMAIN bl
  PROVE  Sound([ls EXCEPT ![t] = [ls[t] EXCEPT !.keys = InsertAt(@, at, b)]],
               Put(b, Block("key", k), bl))
  <1> DEFINE l == ls[t]
             keys == InsertAt(l.keys, at, b)
             new == [l EXCEPT !.keys = keys]
             bl2 == Put(b, Block("key", k), bl)
  <1>1. /\ l \in ListType /\ l.header \in Blocks \cup {Null} /\ l.items \in Blocks \cup {Null}
        /\ l.reserved \in Nat /\ l.keys \in Seq(Blocks) /\ Len(l.keys) \in Nat
        /\ WellFormed(l, bl) /\ Typed(bl) /\ Reached(l) \subseteq DOMAIN bl
        /\ ToSet(l.keys) \subseteq Reached(l)
    BY Parts, Zenon
  <1>2. /\ l.header # Null /\ Len(l.keys) < l.reserved
        /\ l.header \in DOMAIN bl /\ bl[l.header].use = "header"
        /\ l.items # Null => l.items \in DOMAIN bl
        /\ l.items # Null => bl[l.items].use = "items" /\ bl[l.items].holds = l.reserved
        /\ \A x \in ToSet(l.keys) : x \in DOMAIN bl /\ bl[x].use = "key"
        /\ IsInjective(l.keys) /\ (l.items = Null <=> l.reserved = 0)
    BY <1>1 DEF WellFormed, Reached
  <1>3. b \notin ToSet(l.keys) /\ at \in 1 .. Len(l.keys)+1
    BY <1>1
  <1> HIDE DEF l
  <1>4. /\ keys \in Seq(Blocks) /\ Len(keys) = Len(l.keys) + 1
        /\ ToSet(keys) = ToSet(l.keys) \cup {b} /\ IsInjective(keys)
    BY <1>1, <1>2, <1>3, InsertAtIs
  <1> HIDE DEF keys
  <1>5. /\ new.header = l.header /\ new.items = l.items /\ new.reserved = l.reserved
        /\ new.keys = keys /\ new \in ListType
    BY <1>1, <1>4 DEF ListType
  <1>6. /\ Block("key", k) \in BlockType /\ Block("key", k).use = "key"
    BY BlockIs
  <1>7. /\ Typed(bl2) /\ DOMAIN bl2 = {b} \cup DOMAIN bl /\ bl2[b].use = "key"
        /\ \A x \in DOMAIN bl : bl2[x] = bl[x]
    BY <1>1, <1>6 DEF Put, Typed
  <1> HIDE DEF bl2, new
  <1>8. WellFormed(new, bl2)
    <2>1. /\ new.header # Null /\ new.header \in DOMAIN bl2 /\ bl2[new.header].use = "header"
          /\ (new.items # Null =>
                new.items \in DOMAIN bl2 /\ bl2[new.items].use = "items"
                /\ bl2[new.items].holds = new.reserved)
      BY <1>2, <1>5, <1>7
    <2>2. \A x \in ToSet(new.keys) : x \in DOMAIN bl2 /\ bl2[x].use = "key"
      BY <1>2, <1>4, <1>5, <1>7
    <2>3. /\ IsInjective(new.keys) /\ Len(new.keys) <= new.reserved
          /\ (new.items = Null <=> new.reserved = 0)
      BY <1>1, <1>2, <1>4, <1>5
    <2> QED BY <1>5, <2>1, <2>2, <2>3, WellFormedIs
  <1>9. Reached(new) = Reached(l) \cup {b}
    <2>1. b # Null
      BY BlocksAssumption
    <2> QED BY <1>4, <1>5, <2>1 DEF Reached
  <1>10. Sound([ls EXCEPT ![t] = new], bl2)
    <2>1. Reached(l) = Reached(ls[t])
      BY DEF l
    <2> QED BY <1>1, <1>7, <1>8, <1>9, <2>1, OneList
  <1> QED BY <1>10 DEF l, keys, new, bl2

(* The key block of the removed item is freed and its slot closed.         *)
LEMMA Removed ==
  ASSUME Sound(list, heap), NEW t \in Lists, NEW at \in 1 .. Len(list[t].keys)
  PROVE  /\ Sound([list EXCEPT ![t] = [list[t] EXCEPT !.keys = RemoveAt(@, at)]],
                  Without(<<list[t].keys[at]>>))
         /\ Defined(<<list[t].keys[at]>>)
  <1> DEFINE l == list[t]
             b == l.keys[at]
             keys == RemoveAt(l.keys, at)
             new == [l EXCEPT !.keys = keys]
             bl2 == Without(<<b>>)
  <1>1. /\ l \in ListType /\ l.header \in Blocks \cup {Null} /\ l.items \in Blocks \cup {Null}
        /\ l.reserved \in Nat /\ l.keys \in Seq(Blocks) /\ Len(l.keys) \in Nat
        /\ WellFormed(l, heap) /\ Typed(heap) /\ Reached(l) \subseteq DOMAIN heap
        /\ ToSet(l.keys) \subseteq Reached(l)
    BY Parts, Zenon
  <1>2. l.header # Null
    <2> SUFFICES ASSUME l.header = Null PROVE FALSE
      OBVIOUS
    <2>1. l.keys = <<>>
      BY <1>1 DEF WellFormed, NoList
    <2> QED BY <2>1
  <1>3. /\ l.header \in DOMAIN heap /\ heap[l.header].use = "header"
        /\ l.items # Null => l.items \in DOMAIN heap
        /\ l.items # Null => heap[l.items].use = "items" /\ heap[l.items].holds = l.reserved
        /\ \A x \in ToSet(l.keys) : x \in DOMAIN heap /\ heap[x].use = "key"
        /\ IsInjective(l.keys) /\ (l.items = Null <=> l.reserved = 0)
        /\ Len(l.keys) <= l.reserved
    BY <1>1, <1>2 DEF WellFormed, Reached
  <1>4. at \in 1 .. Len(l.keys)
    OBVIOUS
  <1> HIDE DEF l
  <1>5. /\ keys \in Seq(Blocks) /\ Len(keys) = Len(l.keys) - 1
        /\ ToSet(keys) = ToSet(l.keys) \ {b} /\ IsInjective(keys)
        /\ b \in ToSet(l.keys)
    <2>1. b \in ToSet(l.keys)
      BY <1>1, <1>4, Elements
    <2>2. /\ keys \in Seq(Blocks) /\ Len(keys) = Len(l.keys) - 1
          /\ ToSet(keys) = ToSet(l.keys) \ {b} /\ IsInjective(keys)
      BY <1>1, <1>3, <1>4, RemoveAtIs
    <2> QED BY <2>1, <2>2
  <1> HIDE DEF keys, b
  <1>6. /\ new.header = l.header /\ new.items = l.items /\ new.reserved = l.reserved
        /\ new.keys = keys /\ new \in ListType
    BY <1>1, <1>5 DEF ListType
  <1>7. /\ Typed(bl2) /\ DOMAIN bl2 = DOMAIN heap \ {b}
        /\ \A x \in DOMAIN bl2 : bl2[x] = heap[x]
    <2>1. ToSet(<<b>>) = {b}
      BY DEF ToSet
    <2> QED BY <1>1, <2>1, WithoutIs DEF Allocated
  <1> HIDE DEF bl2, new
  <1>8. b # l.header /\ b # l.items /\ b # Null
    <2>1. b \in DOMAIN heap /\ heap[b].use = "key"
      BY <1>3, <1>5
    <2>2. b # Null
      BY <1>1, <2>1, BlocksAssumption DEF Typed
    <2> QED BY <1>3, <2>1, <2>2
  <1>9. WellFormed(new, bl2)
    <2>1. /\ new.header # Null /\ new.header \in DOMAIN bl2 /\ bl2[new.header].use = "header"
          /\ (new.items # Null =>
                new.items \in DOMAIN bl2 /\ bl2[new.items].use = "items"
                /\ bl2[new.items].holds = new.reserved)
      BY <1>2, <1>3, <1>6, <1>7, <1>8
    <2>2. \A x \in ToSet(new.keys) : x \in DOMAIN bl2 /\ bl2[x].use = "key"
      BY <1>3, <1>5, <1>6, <1>7
    <2>3. /\ IsInjective(new.keys) /\ Len(new.keys) <= new.reserved
          /\ (new.items = Null <=> new.reserved = 0)
      BY <1>1, <1>3, <1>5, <1>6
    <2> QED BY <1>6, <2>1, <2>2, <2>3, WellFormedIs
  <1>10. Reached(new) = Reached(l) \ {b}
    BY <1>5, <1>6, <1>8 DEF Reached
  <1>11. Sound([list EXCEPT ![t] = new], bl2)
    <2>1. Reached(l) = Reached(list[t]) /\ b \in Reached(l)
      BY <1>1, <1>5 DEF l
    <2> QED BY <1>1, <1>7, <1>9, <1>10, <2>1, OneList
  <1>12. Defined(<<b>>)
    <2>1. b # Null => b \in Allocated
      BY <1>3, <1>5 DEF Allocated
    <2>2. DOMAIN <<b>> = 1 .. 1 /\ <<b>>[1] = b
      OBVIOUS
    <2>3. \A n1 \in 1 .. 1 : n1 = 1 /\ 1 .. n1-1 = {}
      OBVIOUS
    <2> QED BY <2>1, <2>2, <2>3, Zenon DEF Defined
  <1> QED BY <1>11, <1>12 DEF l, keys, new, bl2, b

(* The array of an empty list is freed and the list knows it.              *)
LEMMA EmptiedIs ==
  ASSUME Sound(list, heap), NEW t \in Lists, IsOpen(t), list[t].keys = <<>>
  PROVE  /\ Sound([list EXCEPT ![t] = [list[t] EXCEPT !.items = Null, !.reserved = 0]],
                  Without(<<list[t].items>>))
         /\ Defined(<<list[t].items>>)
  <1> DEFINE l == list[t]
             new == [l EXCEPT !.items = Null, !.reserved = 0]
             bl2 == Without(<<l.items>>)
  <1>1. /\ l \in ListType /\ l.header \in Blocks \cup {Null} /\ l.items \in Blocks \cup {Null}
        /\ l.keys \in Seq(Blocks)
        /\ WellFormed(l, heap) /\ Typed(heap) /\ Reached(l) \subseteq DOMAIN heap
        /\ Reached(l) = ({l.header, l.items} \cup ToSet(l.keys)) \ {Null}
    BY Parts, Zenon
  <1>2. l.header # Null /\ l.keys = <<>>
    BY DEF IsOpen
  <1> HIDE DEF l
  <1>3. /\ l.header \in DOMAIN heap /\ heap[l.header].use = "header"
        /\ l.items # Null => l.items \in DOMAIN heap /\ heap[l.items].use = "items"
        /\ IsInjective(l.keys)
    BY <1>1, <1>2 DEF WellFormed
  <1>4. new = [header |-> l.header, items |-> Null, reserved |-> 0, keys |-> l.keys]
    BY <1>1, Moved
  <1>5. /\ new.header = l.header /\ new.items = Null /\ new.reserved = 0
        /\ new.keys = <<>> /\ new \in ListType
    <2> HIDE DEF new
    <2> QED BY <1>1, <1>2, <1>4 DEF ListType
  <1>6. ToSet(<<>>) = {} /\ Len(<<>>) <= 0 /\ ToSet(<<l.items>>) = {l.items}
    BY DEF ToSet
  <1>7. /\ Typed(bl2) /\ DOMAIN bl2 = DOMAIN heap \ {l.items}
        /\ \A x \in DOMAIN bl2 : bl2[x] = heap[x]
    BY <1>1, <1>6, WithoutIs DEF Allocated
  <1> HIDE DEF bl2, new
  <1>8. l.header # l.items
    BY <1>2, <1>3
  <1>9. WellFormed(new, bl2) /\ Reached(new) = {l.header}
    <2>1. /\ new.header # Null /\ new.header \in DOMAIN bl2 /\ bl2[new.header].use = "header"
          /\ new.items = Null
      BY <1>2, <1>3, <1>5, <1>7, <1>8
    <2>2. \A x \in ToSet(new.keys) : x \in DOMAIN bl2 /\ bl2[x].use = "key"
      BY <1>5, <1>6
    <2>3. /\ IsInjective(new.keys) /\ Len(new.keys) <= new.reserved
          /\ (new.items = Null <=> new.reserved = 0)
      BY <1>2, <1>3, <1>5, <1>6
    <2>4. WellFormed(new, bl2)
      BY <1>5, <2>1, <2>2, <2>3, WellFormedIs
    <2> QED BY <1>2, <1>5, <1>6, <2>4 DEF Reached
  <1>10. Sound([list EXCEPT ![t] = new], bl2)
    <2>1. Reached(list[t]) = {l.header, l.items} \ {Null}
      BY <1>1, <1>2, <1>6 DEF l
    <2>2. \A b \in DOMAIN heap : b \in Blocks /\ b # Null
      BY <1>1, BlocksAssumption DEF Typed
    <2>3. \A b \in Reached(new) : b \in Reached(list[t])
      BY <1>2, <1>9, <2>1
    <2>4. \A b \in DOMAIN heap : b \notin Reached(list[t]) => b \in DOMAIN bl2 /\ bl2[b] = heap[b]
      BY <1>7, <2>1, <2>2
    <2>5. \A b \in DOMAIN bl2 : b \in Reached(new) \/ (b \in DOMAIN heap /\ b \notin Reached(list[t]))
      BY <1>7, <1>9, <2>1
    <2> QED BY <1>7, <1>9, <2>3, <2>4, <2>5, OneList
  <1>11. Defined(<<l.items>>)
    <2>1. l.items # Null => l.items \in Allocated
      BY <1>3 DEF Allocated
    <2>2. DOMAIN <<l.items>> = 1 .. 1 /\ <<l.items>>[1] = l.items
      OBVIOUS
    <2>3. \A n1 \in 1 .. 1 : n1 = 1 /\ 1 .. n1-1 = {}
      OBVIOUS
    <2> QED BY <2>1, <2>2, <2>3, Zenon DEF Defined
  <1> QED BY <1>10, <1>11 DEF l, new, bl2

(* Blocks allocated one after the other are different and were free.       *)
LEMMA DuplicatesAre ==
  ASSUME NEW keys \in Seq(Blocks), NEW from, from \subseteq Blocks,
         NEW copies \in Duplicates(keys, from)
  PROVE  /\ copies \in Seq(Blocks) /\ Len(copies) = Len(keys)
         /\ DOMAIN copies = 1 .. Len(keys)
         /\ IsInjective(copies) /\ ToSet(copies) \subseteq from
  <1>1. /\ copies \in [1 .. Len(keys) -> from] /\ Len(keys) \in Nat
        /\ \A n \in 1 .. Len(keys) : copies[n] \in Malloc(from \ {copies[m] : m \in 1 .. n-1})
    BY DEF Duplicates
  <1>2. ASSUME NEW n \in 1 .. Len(keys), NEW m \in 1 .. n-1 PROVE copies[m] # copies[n]
    <2>1. from \ {copies[j] : j \in 1 .. n-1} \subseteq Blocks
      OBVIOUS
    <2>2. Malloc(from \ {copies[j] : j \in 1 .. n-1}) \subseteq from \ {copies[j] : j \in 1 .. n-1}
      BY <2>1, MallocIs
    <2>3. copies[n] \in from \ {copies[j] : j \in 1 .. n-1}
      BY <1>1, <2>2
    <2> QED BY <2>3
  <1>3. DOMAIN copies = 1 .. Len(keys) /\ copies \in Seq(Blocks) /\ Len(copies) = Len(keys)
    <2>1. copies \in [1 .. Len(keys) -> Blocks]
      BY <1>1
    <2> QED BY <1>1, <2>1
  <1>4. IsInjective(copies)
    <2> SUFFICES ASSUME NEW n \in 1 .. Len(keys), NEW m \in 1 .. Len(keys), m # n
                 PROVE  copies[m] # copies[n]
      BY <1>3 DEF IsInjective
    <2>1. m \in 1 .. n-1 \/ n \in 1 .. m-1
      BY <1>1
    <2> QED BY <1>2, <2>1
  <1>5. ToSet(copies) \subseteq from
    BY <1>1, <1>3 DEF ToSet
  <1> QED BY <1>3, <1>4, <1>5

(* A copy shares no block with its original or with another list.          *)
LEMMA Copied ==
  ASSUME Sound(list, heap), NEW s \in Lists, NEW t \in Lists, ~IsOpen(t), list[s].keys # <<>>,
         NEW h \in Malloc(Fresh), NEW i \in Malloc(Fresh \ {h}),
         NEW copies \in Duplicates(list[s].keys, Fresh \ {h, i})
  PROVE  Sound([list EXCEPT ![t] = [header |-> h, items |-> i,
                  reserved |-> list[s].reserved, keys |-> copies]],
               Put(h, Header, Put(i, Block("items", list[s].reserved),
                                  WithCopies(list[s].keys, copies))))
  <1> DEFINE n == list[s].reserved
             keys == list[s].keys
             new == [header |-> h, items |-> i, reserved |-> n, keys |-> copies]
             bl0 == WithCopies(keys, copies)
             bl1 == Put(i, Block("items", n), bl0)
             bl2 == Put(h, Header, bl1)
  <1>1. /\ n \in Nat /\ keys \in Seq(Blocks) /\ Len(keys) \in Nat /\ Typed(heap)
        /\ WellFormed(list[s], heap) /\ ToSet(keys) \subseteq Reached(list[s])
        /\ Reached(list[s]) \subseteq DOMAIN heap
    BY Parts, Zenon
  <1>2. Len(keys) <= n /\ Len(keys) # 0
    <2>1. Len(keys) # 0
      BY <1>1, EmptySeq
    <2> QED BY <1>1, <2>1 DEF WellFormed
  <1>3. h \in Blocks /\ h \notin Allocated /\ Header \in BlockType /\ Header.use = "header"
    BY MallocIs, BlockIs DEF Fresh, Header
  <1>4. i \in Blocks /\ i \notin Allocated /\ i # h
    <2>1. Fresh \ {h} \subseteq Blocks
      BY DEF Fresh
    <2> QED BY <2>1, MallocIs DEF Fresh
  <1>5. /\ copies \in Seq(Blocks) /\ Len(copies) = Len(keys) /\ DOMAIN copies = 1 .. Len(keys)
        /\ IsInjective(copies) /\ ToSet(copies) \subseteq Fresh \ {h, i}
    <2>1. Fresh \ {h, i} \subseteq Blocks
      BY DEF Fresh
    <2> QED BY <1>1, <2>1, DuplicatesAre
  <1>6. /\ Block("items", n) \in BlockType /\ Block("items", n).use = "items"
        /\ Block("items", n).holds = n
    BY <1>1, BlockIs
  <1>7. \A k \in 1 .. Len(keys) : Name(keys[k]) \in Nat
    <2> SUFFICES ASSUME NEW k \in 1 .. Len(keys) PROVE Name(keys[k]) \in Nat
      OBVIOUS
    <2>1. keys[k] \in ToSet(keys)
      BY <1>1, Elements
    <2>2. keys[k] \in DOMAIN heap
      BY <1>1, <2>1
    <2> HIDE DEF keys
    <2> QED BY <1>1, <2>2 DEF Typed, BlockType, Name
  <1> HIDE DEF n, keys
  <1>8. /\ Typed(bl0) /\ DOMAIN bl0 = Allocated \cup ToSet(copies)
        /\ \A x \in Allocated : bl0[x] = heap[x]
        /\ \A x \in ToSet(copies) : bl0[x].use = "key"
    <2> DEFINE at(x) == CHOOSE k \in DOMAIN copies : copies[k] = x
               holds(x) == Name(keys[at(x)])
    <2>1. Range(copies) = ToSet(copies)
      BY DEF Range, ToSet
    <2>2. bl0 = [x \in Allocated \cup ToSet(copies) |->
                   IF x \in Allocated THEN heap[x] ELSE Block("key", holds(x))]
      BY <2>1 DEF WithCopies
    <2>3. ASSUME NEW x \in ToSet(copies) PROVE holds(x) \in Nat
      <3>1. \E k \in DOMAIN copies : copies[k] = x
        BY DEF ToSet
      <3>2. at(x) \in DOMAIN copies
        BY <3>1
      <3> HIDE DEF at
      <3> QED BY <1>5, <1>7, <3>2
    <2> HIDE DEF holds, bl0
    <2>4. \A x \in ToSet(copies) : x \in Blocks /\ x \notin Allocated
      BY <1>5 DEF Fresh
    <2>5. \A x \in ToSet(copies) : /\ Block("key", holds(x)) \in BlockType
                                   /\ Block("key", holds(x)).use = "key"
      BY <2>3, BlockIs
    <2>6. DOMAIN bl0 = Allocated \cup ToSet(copies)
      BY <2>2
    <2>7. \A x \in Allocated : bl0[x] = heap[x] /\ heap[x] \in BlockType /\ x \in Blocks
      BY <1>1, <2>2 DEF Typed, Allocated
    <2>8. \A x \in ToSet(copies) : bl0[x] = Block("key", holds(x))
      BY <2>2, <2>4
    <2>9. Typed(bl0)
      <3>1. \A x \in DOMAIN bl0 : bl0[x] \in BlockType /\ x \in Blocks
        BY <2>4, <2>5, <2>6, <2>7, <2>8
      <3>2. bl0 = [x \in DOMAIN bl0 |-> bl0[x]]
        BY <2>2
      <3> QED BY <3>1, <3>2 DEF Typed
    <2> QED BY <2>5, <2>6, <2>7, <2>8, <2>9
  <1> HIDE DEF bl0
  <1>9. i \notin DOMAIN bl0 /\ h \notin DOMAIN bl0
    BY <1>3, <1>4, <1>5, <1>8
  <1>10. /\ Typed(bl1) /\ DOMAIN bl1 = {i} \cup DOMAIN bl0 /\ bl1[i] = Block("items", n)
         /\ \A x \in DOMAIN bl0 : bl1[x] = bl0[x]
    BY <1>4, <1>6, <1>8, <1>9 DEF Put, Typed
  <1> HIDE DEF bl1
  <1>11. /\ Typed(bl2) /\ DOMAIN bl2 = {h} \cup DOMAIN bl1 /\ bl2[h] = Header
         /\ \A x \in DOMAIN bl1 : x # h => bl2[x] = bl1[x]
    BY <1>3, <1>10 DEF Put, Typed
  <1> HIDE DEF bl2
  <1>12. /\ DOMAIN bl2 = {h, i} \cup Allocated \cup ToSet(copies)
         /\ bl2[h].use = "header" /\ bl2[i].use = "items" /\ bl2[i].holds = n
         /\ \A x \in Allocated : bl2[x] = heap[x]
         /\ \A x \in ToSet(copies) : bl2[x].use = "key"
    <2>1. \A x \in DOMAIN bl0 : bl2[x] = bl0[x]
      BY <1>9, <1>10, <1>11
    <2> QED BY <1>3, <1>4, <1>6, <1>8, <1>10, <1>11, <2>1
  <1>13. /\ new \in ListType /\ new.header = h /\ new.items = i
         /\ new.reserved = n /\ new.keys = copies /\ h # Null /\ i # Null
    BY <1>1, <1>3, <1>4, <1>5, BlocksAssumption DEF ListType
  <1> HIDE DEF new
  <1>14. WellFormed(new, bl2)
    <2>1. /\ new.header \in DOMAIN bl2 /\ bl2[new.header].use = "header" /\ new.header # Null
          /\ new.items \in DOMAIN bl2 /\ bl2[new.items].use = "items"
          /\ bl2[new.items].holds = new.reserved
      BY <1>12, <1>13
    <2>2. \A x \in ToSet(new.keys) : x \in DOMAIN bl2 /\ bl2[x].use = "key"
      BY <1>12, <1>13
    <2>3. /\ IsInjective(new.keys) /\ Len(new.keys) <= new.reserved
          /\ (new.items = Null <=> new.reserved = 0)
      BY <1>1, <1>2, <1>5, <1>13
    <2> QED BY <1>13, <2>1, <2>2, <2>3, WellFormedIs
  <1>15. Reached(new) = {h, i} \cup ToSet(copies)
    <2>1. Null \notin ToSet(copies)
      BY <1>5, BlocksAssumption DEF Fresh
    <2> QED BY <1>13, <2>1 DEF Reached
  <1>16. Reached(list[t]) = {}
    <2>1. list[t] = NoList
      <3>1. WellFormed(list[t], heap)
        BY Parts
      <3> QED BY <3>1 DEF IsOpen, WellFormed
    <2> QED BY <2>1, NoListIs
  <1>17. Sound([list EXCEPT ![t] = new], bl2)
    <2>1. \A b \in Reached(new) : b \notin DOMAIN heap
      BY <1>3, <1>4, <1>5, <1>15 DEF Fresh, Allocated
    <2>2. \A b \in DOMAIN heap : b \in DOMAIN bl2 /\ bl2[b] = heap[b]
      BY <1>12 DEF Allocated
    <2>3. \A b \in DOMAIN bl2 : b \in Reached(new) \/ (b \in DOMAIN heap /\ b \notin Reached(list[t]))
      BY <1>12, <1>15, <1>16 DEF Allocated
    <2> QED BY <1>11, <1>14, <2>1, <2>2, <2>3, OneList
  <1> QED BY <1>17 DEF new, bl0, bl1, bl2, n, keys

(* The item array a failing copy leaves behind.                            *)
LEMMA Leaked ==
  ASSUME Sound(list, heap), NEW h \in Malloc(Fresh), NEW i \in Malloc(Fresh \ {h}), NEW n \in Nat
  PROVE  Sound(list, Put(i, Block("items", n), heap))
  <1> DEFINE bl2 == Put(i, Block("items", n), heap)
  <1>1. h \in Blocks /\ i \in Blocks /\ i \notin Allocated /\ Typed(heap)
    <2>1. Fresh \ {h} \subseteq Blocks
      BY DEF Fresh
    <2> QED BY <2>1, MallocIs DEF Fresh, Sound
  <1>2. Block("items", n) \in BlockType /\ Block("items", n).use = "items"
    BY BlockIs
  <1>3. /\ Typed(bl2) /\ DOMAIN bl2 = {i} \cup DOMAIN heap /\ bl2[i].use = "items"
        /\ \A x \in DOMAIN heap : bl2[x] = heap[x]
    BY <1>1, <1>2 DEF Put, Typed, Allocated
  <1> HIDE DEF bl2
  <1>4. ASSUME NEW t \in Lists PROVE WellFormed(list[t], bl2)
    <2>1. Reached(list[t]) \subseteq DOMAIN heap /\ WellFormed(list[t], heap)
          /\ ToSet(list[t].keys) \subseteq Reached(list[t])
      BY Parts
    <2>2. list[t].header # Null => list[t].header \in Reached(list[t])
      BY DEF Reached
    <2>3. list[t].items # Null => list[t].items \in Reached(list[t])
      BY DEF Reached
    <2> QED BY <1>3, <2>1, <2>2, <2>3 DEF WellFormed
  <1>5. Sound(list, bl2)
    BY <1>3, <1>4 DEF Sound
  <1> QED BY <1>5 DEF bl2
-----------------------------------------------------------------------------
(* Each call keeps the heap sound, and only a failing copy, which changes  *)
(* no list, can be undefined.                                              *)
LEMMA CreateStep ==
  ASSUME Inv, NEW t \in Lists, NEW n \in ReserveCounts, CreateList(t, n)
  PROVE  Inv' /\ undefined' = FALSE
  <1>1. Sound(list, heap) /\ undefined \in BOOLEAN /\ ~undefined /\ ~IsOpen(t) /\ undefined' = undefined
    BY DEF Inv, CreateList
  <1>2. PICK h \in Malloc(Fresh) : \E i \in IF n = 0 THEN {Null} ELSE Malloc(Fresh \ {h}) :
          /\ heap' = IF n = 0 THEN Put(h, Header, heap)
                       ELSE Put(i, Block("items", n), Put(h, Header, heap))
          /\ list' = [list EXCEPT ![t] = [header |-> h, items |-> i, reserved |-> n, keys |-> <<>>]]
    BY DEF CreateList
  <1>3. CASE n = 0
    <2>1. heap' = Put(h, Header, heap)
      BY <1>2, <1>3
    <2>2. list' = [list EXCEPT ![t] = [header |-> h, items |-> Null, reserved |-> 0, keys |-> <<>>]]
      BY <1>2, <1>3
    <2>3. Sound(list', heap')
      BY <1>1, <2>1, <2>2, Created
    <2> QED BY <1>1, <2>3 DEF Inv
  <1>4. CASE n # 0
    <2>1. PICK i \in Malloc(Fresh \ {h}) :
            /\ heap' = Put(i, Block("items", n), Put(h, Header, heap))
            /\ list' = [list EXCEPT ![t] = [header |-> h, items |-> i, reserved |-> n, keys |-> <<>>]]
      BY <1>2, <1>4
    <2>2. n \in Nat
      BY SizeAssumption
    <2>3. Sound(list', heap')
      BY <1>1, <1>4, <2>1, <2>2, CreatedWith
    <2> QED BY <1>1, <2>3 DEF Inv
  <1> QED BY <1>3, <1>4

LEMMA FreeStep ==
  ASSUME Inv, NEW t \in Lists, FreeList(t)
  PROVE  Inv' /\ undefined' = FALSE
  <1>1. /\ Sound(list, heap) /\ IsOpen(t)
        /\ heap' = Without(Disposed(t)) /\ undefined' = ~Defined(Disposed(t))
        /\ list' = [list EXCEPT ![t] = NoList]
    BY DEF Inv, FreeList, Release
  <1>2. Sound(list', heap') /\ Defined(Disposed(t))
    BY <1>1, Freed
  <1> QED BY <1>1, <1>2 DEF Inv

LEMMA RemoveStep ==
  ASSUME Inv, NEW t \in Lists, NEW k \in Keys, RemoveItem(t, k)
  PROVE  Inv' /\ undefined' = FALSE
  <1> DEFINE at == Position(t, k)
  <1>1. /\ Sound(list, heap) /\ Holds(t, k)
        /\ heap' = Without(<<list[t].keys[at]>>)
        /\ undefined' = ~Defined(<<list[t].keys[at]>>)
        /\ list' = [list EXCEPT ![t].keys = RemoveAt(@, at)]
    BY DEF Inv, RemoveItem, Release
  <1>2. list \in [Lists -> ListType]
    BY <1>1 DEF Sound
  <1>3. at \in 1 .. Len(list[t].keys)
    BY <1>1, <1>2, PositionIs
  <1> HIDE DEF at
  <1>4. list' = [list EXCEPT ![t] = [list[t] EXCEPT !.keys = RemoveAt(@, at)]]
    BY <1>1, <1>2
  <1>5. Sound(list', heap') /\ Defined(<<list[t].keys[at]>>)
    BY <1>1, <1>3, <1>4, Removed
  <1> QED BY <1>1, <1>5 DEF Inv

(* The growth of an insert; then its new key.                              *)
LEMMA InsertStep ==
  ASSUME Inv, NEW t \in Lists, NEW k \in Keys, InsertItem(t, k)
  PROVE  Inv' /\ undefined' = FALSE
  <1> DEFINE old == list[t]
             full == Len(old.keys) = old.reserved
             reserved == IF full THEN old.reserved + GrowBy ELSE old.reserved
             grown(i) == IF full THEN Resized(old.items, i, reserved) ELSE heap
             kept(i) == [old EXCEPT !.items = i, !.reserved = reserved]
  <1>1. Sound(list, heap) /\ IsOpen(t)
    BY DEF Inv, InsertItem
  <1>2. PICK i \in IF full THEN Moves(old.items) ELSE {old.items} :
          /\ undefined' = (full /\ ~Defined(<<old.items>>))
          /\ \/ heap' = grown(i) /\ list' = [list EXCEPT ![t] = kept(i)]
             \/ /\ ~Holds(t, k)
                /\ \E b \in Malloc(Blocks \ DOMAIN grown(i)) :
                     /\ heap' = Put(b, Block("key", k), grown(i))
                     /\ list' = [list EXCEPT ![t] =
                          [kept(i) EXCEPT !.keys = InsertAt(@, Position(t, k), b)]]
    BY DEF InsertItem
  <1>3. /\ old \in ListType /\ old.reserved \in Nat /\ Len(old.keys) \in Nat
        /\ old.keys \in Seq(Blocks) /\ Len(old.keys) <= old.reserved
        /\ list \in [Lists -> ListType]
    BY <1>1, Parts DEF Sound, WellFormed
  <1>4. reserved \in Nat /\ reserved # 0 /\ Len(old.keys) < reserved
    <2> HIDE DEF old
    <2>1. GrowBy \in Nat /\ GrowBy # 0
      BY SizeAssumption
    <2> QED BY <1>3, <2>1
  <1>5. kept(i) = [header |-> old.header, items |-> i, reserved |-> reserved, keys |-> old.keys]
    BY <1>3, Moved
  <1>6. /\ Sound([list EXCEPT ![t] = kept(i)], grown(i))
        /\ undefined' = FALSE
    <2>1. CASE full
      <3>1. /\ i \in Moves(old.items) /\ reserved \in Nat /\ reserved # 0
            /\ Len(old.keys) <= reserved
        <4>1. i \in Moves(old.items)
          BY <1>2, <2>1
        <4> HIDE DEF old, reserved
        <4> QED BY <1>3, <1>4, <4>1
      <3> HIDE DEF reserved
      <3>2. /\ Sound([list EXCEPT ![t] = kept(i)], Resized(old.items, i, reserved))
            /\ Defined(<<old.items>>)
        BY <1>1, <3>1, Reallocated
      <3>3. grown(i) = Resized(old.items, i, reserved)
        BY <2>1
      <3> QED BY <1>2, <3>2, <3>3
    <2>2. CASE ~full
      <3>1. i = old.items /\ reserved = old.reserved /\ grown(i) = heap /\ undefined' = FALSE
        BY <1>2, <2>2
      <3>2. kept(i) = old
        <4> HIDE DEF old, kept, reserved
        <4> QED BY <1>3, <1>5, <3>1 DEF ListType
      <3>3. [list EXCEPT ![t] = kept(i)] = list
        <4> HIDE DEF kept
        <4> QED BY <1>3, <3>2
      <3> QED BY <1>1, <3>1, <3>3
    <2> QED BY <2>1, <2>2
  <1>7. /\ kept(i).header = old.header /\ kept(i).keys = old.keys
        /\ kept(i).reserved = reserved
    <2> HIDE DEF kept, reserved
    <2> QED BY <1>5
  <1> HIDE DEF grown, kept, reserved
  <1>8. CASE heap' = grown(i) /\ list' = [list EXCEPT ![t] = kept(i)]
    BY <1>6, <1>8 DEF Inv
  <1>9. ASSUME ~Holds(t, k), NEW b \in Malloc(Blocks \ DOMAIN grown(i)),
                heap' = Put(b, Block("key", k), grown(i)),
                list' = [list EXCEPT ![t] = [kept(i) EXCEPT !.keys = InsertAt(@, Position(t, k), b)]]
         PROVE  Inv'
    <2> DEFINE ls == [list EXCEPT ![t] = kept(i)]
               at == Position(t, k)
    <2>1. ls[t] = kept(i)
      BY <1>3
    <2>2. [list EXCEPT ![t] = [kept(i) EXCEPT !.keys = InsertAt(@, at, b)]]
            = [ls EXCEPT ![t] = [ls[t] EXCEPT !.keys = InsertAt(@, at, b)]]
      BY <1>3, <2>1
    <2>3. at \in 1 .. Len(old.keys)+1
      BY <1>3, PositionIs
    <2>4. b \in Blocks /\ b \notin DOMAIN grown(i)
      <3>1. Blocks \ DOMAIN grown(i) \subseteq Blocks
        OBVIOUS
      <3> QED BY <3>1, MallocIs
    <2>5. k \in Nat
      BY KeysAssumption
    <2> HIDE DEF ls, at, old
    <2>6. ls[t].header # Null
      BY <1>1, <1>7, <2>1 DEF IsOpen, old
    <2>7. Len(ls[t].keys) < ls[t].reserved /\ at \in 1 .. Len(ls[t].keys)+1
      BY <1>4, <1>7, <2>1, <2>3
    <2>8. Sound(ls, grown(i))
      BY <1>6 DEF ls
    <2>9. Sound([ls EXCEPT ![t] = [ls[t] EXCEPT !.keys = InsertAt(@, at, b)]],
                Put(b, Block("key", k), grown(i)))
      BY <2>4, <2>5, <2>6, <2>7, <2>8, Inserted
    <2>10. list' = [ls EXCEPT ![t] = [ls[t] EXCEPT !.keys = InsertAt(@, at, b)]]
      BY <1>9, <2>2, Zenon DEF at
    <2>11. Sound(list', heap')
      BY <1>9, <2>9, <2>10, Zenon
    <2> QED BY <1>6, <2>11 DEF Inv
  <1> QED BY <1>2, <1>6, <1>8, <1>9

LEMMA ReleaseStep ==
  ASSUME Inv, NEW t \in Lists, ReleaseUnused(t)
  PROVE  Inv' /\ undefined' = FALSE
  <1>1. Sound(list, heap) /\ IsOpen(t) /\ list \in [Lists -> ListType]
    BY DEF Inv, ReleaseUnused, Sound
  <1>2. CASE list[t].keys # <<>>
    <2> DEFINE n == Len(list[t].keys)
    <2>1. PICK i \in Moves(list[t].items) :
            /\ heap' = Resized(list[t].items, i, n)
            /\ list' = [list EXCEPT ![t].items = i, ![t].reserved = n]
            /\ undefined' = ~Defined(<<list[t].items>>)
      BY <1>2 DEF ReleaseUnused, Shrunk
    <2>2. n \in Nat /\ n # 0 /\ n <= n
      <3>1. list[t].keys \in Seq(Blocks)
        BY <1>1, Parts
      <3> QED BY <1>2, <3>1, EmptySeq
    <2>3. Len(list[t].keys) <= n
      BY <2>2
    <2> HIDE DEF n
    <2>4. list' = [list EXCEPT ![t] = [list[t] EXCEPT !.items = i, !.reserved = n]]
      BY <1>1, <2>1
    <2>5. /\ Sound([list EXCEPT ![t] = [list[t] EXCEPT !.items = i, !.reserved = n]],
                   Resized(list[t].items, i, n))
          /\ Defined(<<list[t].items>>)
      BY <1>1, <2>2, <2>3, Reallocated
    <2>6. Sound(list', heap')
      BY <2>1, <2>4, <2>5, Zenon
    <2> QED BY <2>1, <2>5, <2>6 DEF Inv
  <1>3. CASE list[t].keys = <<>>
    <2>1. /\ heap' = Without(<<list[t].items>>)
          /\ undefined' = ~Defined(<<list[t].items>>)
          /\ list' = [list EXCEPT ![t].items = Null, ![t].reserved = 0]
      BY <1>3 DEF ReleaseUnused, Emptied, Release
    <2>2. list' = [list EXCEPT ![t] = [list[t] EXCEPT !.items = Null, !.reserved = 0]]
      BY <1>1, <2>1
    <2>3. /\ Sound([list EXCEPT ![t] = [list[t] EXCEPT !.items = Null, !.reserved = 0]],
                   Without(<<list[t].items>>))
          /\ Defined(<<list[t].items>>)
      BY <1>1, <1>3, EmptiedIs
    <2>4. Sound(list', heap')
      BY <2>1, <2>2, <2>3, Zenon
    <2> QED BY <2>1, <2>3, <2>4 DEF Inv
  <1> QED BY <1>2, <1>3

LEMMA CopyStep ==
  ASSUME Inv, NEW s \in Lists, NEW t \in Lists, CopyList(s, t)
  PROVE  Inv' /\ (list' # list => undefined' = FALSE)
  <1>1. /\ Sound(list, heap) /\ undefined = FALSE /\ ~IsOpen(t)
        /\ CopyEmpty(s, t) \/ CopyAll(s, t) \/ CopyFails(s, t)
    BY DEF Inv, CopyList
  <1>2. CASE CopyEmpty(s, t)
    <2>1. PICK h \in Malloc(Fresh) :
            /\ heap' = Put(h, Header, heap)
            /\ list' = [list EXCEPT ![t] = [NoList EXCEPT !.header = h]]
      BY <1>2 DEF CopyEmpty
    <2>2. [NoList EXCEPT !.header = h] = [header |-> h, items |-> Null, reserved |-> 0, keys |-> <<>>]
      BY DEF NoList
    <2>3. Sound([list EXCEPT ![t] = [header |-> h, items |-> Null, reserved |-> 0, keys |-> <<>>]],
                Put(h, Header, heap))
      BY <1>1, Created
    <2>4. Sound(list', heap')
      BY <2>1, <2>2, <2>3, Zenon
    <2>5. undefined' = FALSE
      BY <1>1, <1>2 DEF CopyEmpty
    <2> QED BY <2>4, <2>5 DEF Inv
  <1>3. CASE CopyAll(s, t)
    <2>1. PICK h \in Malloc(Fresh) : \E i \in Malloc(Fresh \ {h}) :
            \E copies \in Duplicates(list[s].keys, Fresh \ {h, i}) :
              /\ heap' = Put(h, Header, Put(i, Block("items", list[s].reserved),
                                             WithCopies(list[s].keys, copies)))
              /\ list' = [list EXCEPT ![t] = [header |-> h, items |-> i,
                             reserved |-> list[s].reserved, keys |-> copies]]
      BY <1>3 DEF CopyAll
    <2>2. PICK i \in Malloc(Fresh \ {h}) : \E copies \in Duplicates(list[s].keys, Fresh \ {h, i}) :
            /\ heap' = Put(h, Header, Put(i, Block("items", list[s].reserved),
                                           WithCopies(list[s].keys, copies)))
            /\ list' = [list EXCEPT ![t] = [header |-> h, items |-> i,
                           reserved |-> list[s].reserved, keys |-> copies]]
      BY <2>1
    <2>3. PICK copies \in Duplicates(list[s].keys, Fresh \ {h, i}) :
            /\ heap' = Put(h, Header, Put(i, Block("items", list[s].reserved),
                                           WithCopies(list[s].keys, copies)))
            /\ list' = [list EXCEPT ![t] = [header |-> h, items |-> i,
                           reserved |-> list[s].reserved, keys |-> copies]]
      BY <2>2
    <2>4. list[s].keys # <<>> /\ undefined' = FALSE
      BY <1>1, <1>3 DEF CopyAll
    <2>5. Sound(list', heap')
      BY <1>1, <2>3, <2>4, Copied, Zenon
    <2> QED BY <2>4, <2>5 DEF Inv
  <1>4. CASE CopyFails(s, t)
    <2>1. PICK h \in Malloc(Fresh) : \E i \in Malloc(Fresh \ {h}) :
            heap' = Put(i, Block("items", list[s].reserved), heap) /\ undefined' \in BOOLEAN
      BY <1>4 DEF CopyFails
    <2>2. PICK i \in Malloc(Fresh \ {h}) :
            heap' = Put(i, Block("items", list[s].reserved), heap) /\ undefined' \in BOOLEAN
      BY <2>1
    <2>3. list' = list /\ list[s].reserved \in Nat
      BY <1>1, <1>4, Parts DEF CopyFails
    <2>4. Sound(list, Put(i, Block("items", list[s].reserved), heap))
      BY <1>1, <2>3, Leaked
    <2>5. Sound(list', heap')
      BY <2>2, <2>3, <2>4, Zenon
    <2> QED BY <2>2, <2>3, <2>5 DEF Inv
  <1> QED BY <1>1, <1>2, <1>3, <1>4

LEMMA Steps ==
  ASSUME Inv, [Next]_vars
  PROVE  Inv' /\ (list' # list => undefined' = FALSE)
  <1>1. ASSUME NEW t \in Lists, NEW n \in ReserveCounts, CreateList(t, n)
        PROVE  Inv' /\ undefined' = FALSE
    BY <1>1, CreateStep
  <1>2. ASSUME NEW t \in Lists, FreeList(t)
        PROVE  Inv' /\ undefined' = FALSE
    BY <1>2, FreeStep
  <1>3. ASSUME NEW t \in Lists, NEW k \in Keys, InsertItem(t, k)
        PROVE  Inv' /\ undefined' = FALSE
    BY <1>3, InsertStep
  <1>4. ASSUME NEW t \in Lists, NEW k \in Keys, RemoveItem(t, k)
        PROVE  Inv' /\ undefined' = FALSE
    BY <1>4, RemoveStep
  <1>5. ASSUME NEW t \in Lists, ReleaseUnused(t)
        PROVE  Inv' /\ undefined' = FALSE
    BY <1>5, ReleaseStep
  <1>6. ASSUME NEW t \in Lists, NEW s \in Lists \ {t}, CopyList(s, t)
        PROVE  Inv' /\ (list' # list => undefined' = FALSE)
    BY <1>6, CopyStep
  <1>7. CASE UNCHANGED vars
    BY <1>7 DEF Inv, vars
  <1> QED BY <1>1, <1>2, <1>3, <1>4, <1>5, <1>6, <1>7 DEF Next

LEMMA Initially == Init => Inv
  <1> SUFFICES ASSUME Init PROVE Inv
    OBVIOUS
  <1>1. heap = <<>> /\ list = [t \in Lists |-> NoList] /\ undefined = FALSE
    BY DEF Init
  <1>2. DOMAIN heap = {} /\ Typed(heap)
    BY <1>1 DEF Typed
  <1>3. \A t \in Lists : list[t] = NoList /\ WellFormed(NoList, heap) /\ Reached(NoList) = {}
    BY <1>1, NoListIs
  <1>4. list \in [Lists -> ListType]
    BY <1>1 DEF NoList, ListType
  <1>5. Sound(list, heap)
    BY <1>2, <1>3, <1>4 DEF Sound
  <1> QED BY <1>1, <1>5 DEF Inv

(* The heap stays sound whatever the calls and wherever memory runs out.   *)
THEOREM Invariance == Spec => []Inv
  <1>1. Inv /\ [Next]_vars => Inv'
    BY Steps
  <1> QED BY <1>1, Initially, PTL DEF Spec

(* Every pointer of a list is NULL or the address of a block, and every    *)
(* block of the heap has a use (283-712).                                  *)
THEOREM TypesKept == Spec => []TypeOK
  <1>1. Inv => TypeOK
    BY DEF Inv, Sound, Typed, TypeOK, Allocated, ListType, BlockType
  <1> QED BY <1>1, Invariance, PTL

(* No key, array or header block has two owners, and none in use is freed: *)
(* whatever realloc and copy do.                                           *)
THEOREM OwnersExclusive == Spec => []ExclusiveOwnership
  <1>1. ASSUME Inv PROVE ExclusiveOwnership
    <2>1. Sound(list, heap)
      BY <1>1 DEF Inv
    <2>2. ASSUME NEW t \in Lists
          PROVE  /\ Owned(t) \subseteq Allocated
                 /\ list[t].header # Null => heap[list[t].header].use = "header"
                 /\ list[t].items # Null => heap[list[t].items].use = "items"
                 /\ \A b \in ToSet(list[t].keys) : b \in Allocated /\ heap[b].use = "key"
                 /\ IsInjective(list[t].keys)
                 /\ Owned(t) = Reached(list[t])
      <3>1. /\ Reached(list[t]) \subseteq DOMAIN heap /\ WellFormed(list[t], heap)
            /\ ToSet(list[t].keys) \subseteq Reached(list[t])
        BY <2>1, Parts
      <3>2. Owned(t) = Reached(list[t])
        BY DEF Owned, Reached
      <3> QED BY <3>1, <3>2 DEF WellFormed, Allocated
    <2>3. \A t, u \in Lists : t # u => Owned(t) \cap Owned(u) = {}
      BY <2>1, <2>2 DEF Sound
    <2> QED BY <2>2, <2>3 DEF ExclusiveOwnership
  <1> QED BY <1>1, Invariance, PTL

(* The array block has the slots the header says it has, and enough of     *)
(* them for the items, after any growth, shrinking or failure of either.   *)
THEOREM SlotsAreThere == Spec => []SlotsFit
  <1>1. ASSUME Inv PROVE SlotsFit
    <2>1. ASSUME NEW t \in Lists
          PROVE  /\ Len(list[t].keys) <= list[t].reserved
                 /\ list[t].items = Null <=> list[t].reserved = 0
                 /\ list[t].items \in Allocated => heap[list[t].items].holds = list[t].reserved
      <3>1. WellFormed(list[t], heap) /\ Typed(heap)
        BY <1>1, Parts DEF Inv
      <3>2. list[t].items \in Allocated => list[t].items # Null
        BY <3>1, BlocksAssumption DEF Typed, Allocated
      <3> QED BY <3>1, <3>2 DEF WellFormed
    <2> QED BY <2>1 DEF SlotsFit
  <1> QED BY <1>1, Invariance, PTL

(* Item arrays are the only blocks that are ever lost (329, 700).          *)
THEOREM OnlyArraysLost == Spec => []OnlyItemsLeak
  <1>1. ASSUME Inv PROVE OnlyItemsLeak
    <2>1. ASSUME NEW b \in Allocated, \A t \in Lists : b \notin Owned(t)
          PROVE  heap[b].use = "items"
      <3>1. \A t \in Lists : Owned(t) = Reached(list[t])
        BY DEF Owned, Reached
      <3> QED BY <1>1, <2>1, <3>1 DEF Inv, Sound, Allocated
    <2>2. \A b \in Allocated \ UNION {Owned(t) : t \in Lists} : \A t \in Lists : b \notin Owned(t)
      OBVIOUS
    <2> QED BY <2>1, <2>2 DEF OnlyItemsLeak
  <1> QED BY <1>1, Invariance, PTL

(* A call that changes a list hands free and realloc only blocks that are  *)
(* allocated, each once.                                                   *)
THEOREM FreesDefined == Spec => FreesAreDefined
  <1>1. Inv /\ [Next]_vars => [list' # list => ~undefined']_vars
    BY Steps
  <1> QED BY <1>1, Invariance, PTL DEF Spec, FreesAreDefined
=============================================================================
