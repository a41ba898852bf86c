---------------------------- MODULE KeyMapProofs ----------------------------
(***************************************************************************)
(* A key array implements the finite map of KeyMap, and its indices stay   *)
(* good, for every set of keys, capacity and growth step: each step of the *)
(* array is a step of the map, or none.                                    *)
(***************************************************************************)
EXTENDS KeyArrayProofs, FiniteSetTheorems

(* The map that the first n slots of an array hold.                        *)
Holding(slots, n) ==
  [k \in {slots[i].key : i \in 0 .. n-1} |->
     slots[CHOOSE i \in 0 .. n-1 : slots[i].key = k].data]

(* Each key stands once.                                                   *)
Ascending(slots, n) ==
  /\ \A i \in 0 .. n-1 : slots[i].key \in Nat
  /\ \A i, j \in 0 .. n-1 : i < j => slots[i].key < slots[j].key

(* No string list holds the empty key, so a call that refuses it misses    *)
(* nothing.                                                                *)
KeysUsable == \A i \in 0 .. itemCount-1 : Usable(item[i].key)

LEMMA ContentsHolding == Contents = Holding(item, itemCount)
  BY DEF Contents, Holding, Lookup

LEMMA HoldingIs ==
  ASSUME NEW slots, NEW n \in Nat, Ascending(slots, n)
  PROVE  /\ DOMAIN Holding(slots, n) = {slots[i].key : i \in 0 .. n-1}
         /\ \A i \in 0 .. n-1 : Holding(slots, n)[slots[i].key] = slots[i].data
  <1>1. DOMAIN Holding(slots, n) = {slots[i].key : i \in 0 .. n-1}
    BY DEF Holding
  <1>2. ASSUME NEW i \in 0 .. n-1
        PROVE  Holding(slots, n)[slots[i].key] = slots[i].data
    <2> DEFINE k == slots[i].key
               at == CHOOSE j \in 0 .. n-1 : slots[j].key = k
    <2>1. at \in 0 .. n-1 /\ slots[at].key = k
      OBVIOUS
    <2>2. at = i
      <3>1. ~(at < i) /\ ~(i < at)
        BY <2>1 DEF Ascending
      <3> QED BY <2>1, <3>1
    <2>3. Holding(slots, n)[k] = slots[at].data
      BY DEF Holding
    <2> QED BY <2>2, <2>3
  <1> QED BY <1>1, <1>2

LEMMA HoldingIsFunction ==
  ASSUME NEW slots, NEW n
  PROVE  Holding(slots, n) =
           [k \in DOMAIN Holding(slots, n) |-> Holding(slots, n)[k]]
  <1> DEFINE D == {slots[i].key : i \in 0 .. n-1}
             at(k) == CHOOSE i \in 0 .. n-1 : slots[i].key = k
  <1>1. Holding(slots, n) = [k \in D |-> slots[at(k)].data]
    BY Zenon DEF Holding
  <1> HIDE DEF D, at
  <1> QED BY <1>1

(* What the list holds depends on the slots in use alone.                  *)
LEMMA HoldingSame ==
  ASSUME NEW slots, NEW other, NEW n \in Nat,
         \A i \in 0 .. n-1 : other[i] = slots[i]
  PROVE  Holding(other, n) = Holding(slots, n)
  <1>1. {other[i].key : i \in 0 .. n-1} = {slots[i].key : i \in 0 .. n-1}
    OBVIOUS
  <1>2. ASSUME NEW k
        PROVE  (CHOOSE i \in 0 .. n-1 : other[i].key = k)
                 = (CHOOSE i \in 0 .. n-1 : slots[i].key = k)
    OBVIOUS
  <1>3. ASSUME NEW k \in {slots[i].key : i \in 0 .. n-1}
        PROVE  (CHOOSE i \in 0 .. n-1 : slots[i].key = k) \in 0 .. n-1
    OBVIOUS
  <1>4. DOMAIN Holding(other, n) = DOMAIN Holding(slots, n)
    BY <1>1 DEF Holding
  <1>5. ASSUME NEW k \in DOMAIN Holding(slots, n)
        PROVE  Holding(other, n)[k] = Holding(slots, n)[k]
    <2>1. k \in {slots[i].key : i \in 0 .. n-1} /\ k \in {other[i].key : i \in 0 .. n-1}
      BY <1>1, <1>5 DEF Holding
    <2> DEFINE at == CHOOSE i \in 0 .. n-1 : slots[i].key = k
    <2>2. Holding(slots, n)[k] = slots[at].data
      BY <2>1 DEF Holding
    <2>3. Holding(other, n)[k] = other[CHOOSE i \in 0 .. n-1 : other[i].key = k].data
      BY <2>1, Zenon DEF Holding
    <2>4. Holding(other, n)[k] = other[at].data
      BY <1>2, <2>3
    <2>5. at \in 0 .. n-1
      BY <1>3, <2>1
    <2> QED BY <2>2, <2>4, <2>5
  <1>6. Holding(other, n) = [k \in DOMAIN Holding(slots, n) |-> Holding(slots, n)[k]]
    BY <1>4, <1>5, HoldingIsFunction
  <1> QED BY <1>6, HoldingIsFunction

(* The index of a key is the number of smaller keys.                       *)
LEMMA RankIsIndex ==
  ASSUME NEW slots, NEW n \in Nat, Ascending(slots, n), NEW p \in 0 .. n-1
  PROVE  Cardinality({x \in {slots[i].key : i \in 0 .. n-1} : x < slots[p].key}) = p
  <1> DEFINE S == {x \in {slots[i].key : i \in 0 .. n-1} : x < slots[p].key}
             f == [i \in 1 .. p |-> slots[i-1].key]
  <1>1. f \in [1 .. p -> S]
    BY DEF Ascending
  <1>2. \A x \in S : \E i \in 1 .. p : f[i] = x
    <2> SUFFICES ASSUME NEW x \in S PROVE \E i \in 1 .. p : f[i] = x
      OBVIOUS
    <2>1. PICK i \in 0 .. n-1 : x = slots[i].key /\ slots[i].key < slots[p].key
      OBVIOUS
    <2>2. i < p
      <3>1. i # p
        BY <2>1 DEF Ascending
      <3>2. ~(p < i)
        BY <2>1 DEF Ascending
      <3> QED BY <3>1, <3>2
    <2>3. i+1 \in 1 .. p /\ f[i+1] = x
      BY <2>1, <2>2
    <2> QED BY <2>3
  <1>3. \A i, j \in 1 .. p : f[i] = f[j] => i = j
    <2> SUFFICES ASSUME NEW i \in 1 .. p, NEW j \in 1 .. p, i < j
                 PROVE  f[i] # f[j]
      OBVIOUS
    <2>1. slots[i-1].key < slots[j-1].key /\ slots[i-1].key \in Nat /\ slots[j-1].key \in Nat
      BY DEF Ascending
    <2> QED BY <2>1
  <1>4. f \in Bijection(1 .. p, S)
    BY <1>1, <1>2, <1>3 DEF Bijection, Injection, Surjection, IsInjective
  <1>5. ExistsBijection(1 .. p, S)
    BY <1>4 DEF ExistsBijection
  <1> HIDE DEF S
  <1>6. Cardinality(S) = p
    BY <1>5, FS_CountingElements
  <1> QED BY <1>6 DEF S
-----------------------------------------------------------------------------
LEMMA ItemsAscend ==
  ASSUME Inv
  PROVE  itemCount \in Nat /\ Ascending(item, itemCount)
  <1>1. itemCount \in Nat /\ itemCount <= reservedCount /\ reservedCount \in Nat
    BY DEF Inv, TypeOK, Capacity
  <1>2. \A i \in 0 .. itemCount-1 : item[i].key \in Nat
    BY <1>1, KeysAreNumbers DEF Inv
  <1> QED BY <1>1, <1>2 DEF Inv, Sorted, Ascending

LEMMA SlotKeys ==
  ASSUME NEW slots, NEW n \in Nat, NEW m \in Nat, n <= m, slots \in [0 .. m-1 -> Slots]
  PROVE  \A i \in 0 .. n-1 : slots[i].key \in Nat
  <1> SUFFICES ASSUME NEW i \in 0 .. n-1 PROVE slots[i].key \in Nat
    OBVIOUS
  <1>1. i \in 0 .. m-1
    OBVIOUS
  <1>2. slots[i] \in Slots
    BY <1>1
  <1>3. slots[i].key \in Keys \/ slots[i].key = EmptyKey
    BY <1>2 DEF Slots
  <1>4. Keys \subseteq Nat /\ EmptyKey \in Nat
    BY KeysAssumption DEF EmptyKey
  <1> QED BY <1>3, <1>4

LEMMA ItemsAscendNext ==
  ASSUME Inv'
  PROVE  itemCount' \in Nat /\ Ascending(item', itemCount')
  <1>1. /\ itemCount' \in Nat /\ itemCount' <= reservedCount' /\ reservedCount' \in Nat
        /\ item' \in [0 .. reservedCount'-1 -> Slots]
    BY DEF Inv, TypeOK, Capacity
  <1>2. \A i \in 0 .. itemCount'-1 : item'[i].key \in Nat
    BY <1>1, SlotKeys
  <1> QED BY <1>1, <1>2 DEF Inv, Sorted, Ascending

(* The keys and the data of the list, as the map sees them.                *)
LEMMA ContentsAre ==
  ASSUME Inv
  PROVE  /\ DOMAIN Contents = {item[i].key : i \in 0 .. itemCount-1}
         /\ \A i \in 0 .. itemCount-1 : Contents[item[i].key] = item[i].data
  BY ItemsAscend, HoldingIs, ContentsHolding

LEMMA ContentsAreNext ==
  ASSUME Inv'
  PROVE  /\ DOMAIN Contents' = {item'[i].key : i \in 0 .. itemCount'-1}
         /\ \A i \in 0 .. itemCount'-1 : Contents'[item'[i].key] = item'[i].data
  <1>1. Contents' = Holding(item', itemCount')
    BY DEF Contents, Holding, Lookup
  <1> QED BY <1>1, ItemsAscendNext, HoldingIs

LEMMA ContentsKept ==
  ASSUME Inv, itemCount' = itemCount,
         \A i \in 0 .. itemCount-1 : item'[i] = item[i]
  PROVE  Contents' = Contents
  <1>1. Contents' = Holding(item', itemCount')
    BY DEF Contents, Holding, Lookup
  <1>2. Holding(item', itemCount) = Holding(item, itemCount)
    BY ItemsAscend, HoldingSame
  <1> QED BY <1>1, <1>2, ContentsHolding

LEMMA ListKept ==
  ASSUME Inv, UNCHANGED list
  PROVE  Contents' = Contents /\ open' = open
  BY ContentsKept DEF list

(* A hit and a miss, as the map sees them.                                 *)
LEMMA HitPresent ==
  ASSUME Inv, Hit
  PROVE  /\ probe \in 0 .. itemCount-1 /\ itemCount \in Nat /\ itemCount <= reservedCount
         /\ reservedCount \in Nat
         /\ item[probe].key = call.key
         /\ call.key \in DOMAIN Contents /\ call.key \in Keys
         /\ Contents[call.key] = item[probe].data
  <1>1. ~Idle /\ left < right /\ item[probe].key = call.key
    BY DEF Hit, Searching
  <1>2. probe \in 0 .. itemCount-1 /\ call.key \in Keys /\ itemCount \in Nat
        /\ itemCount <= reservedCount /\ reservedCount \in Nat
    BY <1>1, SearchFacts
  <1> QED BY <1>1, <1>2, ContentsAre

LEMMA MissAbsent ==
  ASSUME Inv, Miss
  PROVE  call.key \notin DOMAIN Contents /\ call.key \in Keys
  <1>1. ~Idle /\ left >= right
    BY DEF Miss
  <1>2. /\ left = right /\ right \in Nat /\ itemCount \in Nat /\ right <= itemCount
        /\ call.key \in Keys /\ call.key \in Nat
    BY <1>1, SearchFacts
  <1>3. \A i \in 0 .. itemCount-1 : item[i].key < call.key \/ call.key < item[i].key
    BY <1>1, <1>2 DEF Inv, SearchBracket
  <1>4. \A i \in 0 .. itemCount-1 : item[i].key # call.key
    BY <1>2, <1>3
  <1> QED BY <1>2, <1>4, ContentsAre

(* A call that cannot begin a search refuses only keys that are not there. *)
LEMMA RefusedAbsent ==
  ASSUME Inv, KeysUsable, NEW k, ~(open /\ reservedCount # 0 /\ Usable(k))
  PROVE  k \notin DOMAIN Contents
  <1>1. itemCount \in Nat /\ reservedCount \in Nat /\ itemCount <= reservedCount
        /\ (~open => reservedCount = 0)
    BY DEF Inv, TypeOK, Capacity
  <1>2. CASE reservedCount = 0
    <2>1. 0 .. itemCount-1 = {}
      BY <1>1, <1>2
    <2> QED BY <2>1, ContentsAre
  <1>3. CASE ~Usable(k)
    <2>1. \A i \in 0 .. itemCount-1 : item[i].key # k
      BY <1>3 DEF KeysUsable
    <2> QED BY <2>1, ContentsAre
  <1> QED BY <1>1, <1>2, <1>3
-----------------------------------------------------------------------------
LEMMA UsableStart == Init => KeysUsable
  BY DEF Init, KeysUsable

LEMMA KindKept ==
  ASSUME [Next]_vars
  PROVE  kind' = kind
  BY DEF Next, vars, list, Create, Free, ReleaseUnused, Begin, InsertString, InsertUInt,
         ModifyString, ModifyUInt, RemoveString, RetrieveString, FindString,
         RemoveUInt, RetrieveUInt, FindUInt, BeginInsert, BeginLookup, Probe, Narrow,
         Finish, InsertHit, RemoveHit, RetrieveHit, ModifyHit, FindHit,
         InsertMiss, LookupMiss, NotFound, Return, StartSearch

(* Every step leaves the slots in use as they are, or is one of four.      *)
LEMMA StepShapes ==
  ASSUME Inv, [Next]_vars
  PROVE  \/ itemCount' = itemCount /\ \A i \in 0 .. itemCount-1 : item'[i] = item[i]
         \/ Free
         \/ /\ InsertMiss
            /\ item' = Inserted(probe, [key |-> call.key, data |-> call.data])
            /\ itemCount' = itemCount + 1
            /\ Return("insert", call.key, TRUE, NoOut)
            /\ UNCHANGED <<open, reservedCount>>
         \/ RemoveHit
         \/ ModifyHit
  <1> DEFINE Kept == itemCount' = itemCount /\ \A i \in 0 .. itemCount-1 : item'[i] = item[i]
  <1>0. UNCHANGED list => Kept
    BY DEF list
  <1>1. ASSUME NEW n \in ReserveCounts, Create(n) PROVE Kept
    <2>1. itemCount = 0
      BY <1>1 DEF Inv, TypeOK, Capacity, Create
    <2>2. itemCount' = itemCount
      BY <1>1 DEF Create, list
    <2> QED BY <2>1, <2>2
  <1>2. ASSUME ReleaseUnused PROVE Kept
    <2>1. itemCount \in Nat
      BY DEF Inv, TypeOK
    <2>2. CASE UNCHANGED list
      BY <1>0, <2>2
    <2>3. CASE item' = Resized(itemCount) /\ itemCount' = itemCount
      BY <2>1, <2>3, ResizedKeepsItems
    <2>4. \/ UNCHANGED list
          \/ item' = Resized(itemCount) /\ itemCount' = itemCount
      BY <1>2 DEF ReleaseUnused
    <2> QED BY <2>2, <2>3, <2>4
  <1>3. ASSUME NEW k \in Keys, NEW d \in Data, BeginInsert(k, d) PROVE Kept
    <2>1. CASE UNCHANGED list
      BY <1>0, <2>1
    <2>2. CASE /\ itemCount = reservedCount /\ CanGrow
               /\ item' = Resized(Grown) /\ itemCount' = itemCount
      <3>1. Grown \in Nat /\ itemCount <= Grown
        <4>1. itemCount \in Nat /\ reservedCount \in Nat
          BY DEF Inv, TypeOK
        <4>2. Grown \in Int
          BY <4>1, SizeAssumption DEF Grown, Wrap
        <4> QED BY <2>2, <4>1, <4>2 DEF CanGrow
      <3> QED BY <2>2, <3>1, ResizedKeepsItems
    <2> QED BY <1>3, <2>1, <2>2 DEF BeginInsert
  <1>4. ASSUME Begin PROVE Kept
    <2>1. ASSUME NEW op, NEW k, NEW d, BeginLookup(op, k, d) PROVE Kept
      BY <1>0, <2>1 DEF BeginLookup
    <2> QED BY <1>3, <1>4, <2>1 DEF Begin, InsertString, InsertUInt, ModifyString, ModifyUInt,
              RemoveString, RetrieveString, FindString, RemoveUInt, RetrieveUInt, FindUInt
  <1>5. ASSUME Probe \/ InsertHit \/ RetrieveHit \/ FindHit \/ LookupMiss PROVE Kept
    BY <1>0, <1>5 DEF Probe, Narrow, InsertHit, RetrieveHit, FindHit, LookupMiss, list
  <1>6. CASE InsertMiss
    BY <1>0, <1>6 DEF InsertMiss
  <1>7. CASE UNCHANGED vars
    BY <1>0, <1>7 DEF vars
  <1> QED BY <1>1, <1>2, <1>4, <1>5, <1>6, <1>7 DEF Next, Finish

LEMMA UsableStep == Inv /\ KeysUsable /\ [Next]_vars => KeysUsable'
  <1> SUFFICES ASSUME Inv, KeysUsable, [Next]_vars PROVE KeysUsable'
    OBVIOUS
  <1>0. kind' = kind
    BY KindKept
  <1>1. \A k : Usable(k)' = Usable(k)
    BY <1>0 DEF Usable
  <1>2. itemCount \in Nat /\ reservedCount \in Nat /\ itemCount <= reservedCount
    BY DEF Inv, TypeOK, Capacity
  <1> SUFFICES ASSUME NEW i \in 0 .. itemCount'-1
               PROVE  kind = "string" => item'[i].key # EmptyKey
    BY <1>0 DEF KeysUsable, Usable
  <1>3. \A j \in 0 .. itemCount-1 : kind = "string" => item[j].key # EmptyKey
    BY DEF KeysUsable, Usable
  <1>4. CASE itemCount' = itemCount /\ \A j \in 0 .. itemCount-1 : item'[j] = item[j]
    BY <1>3, <1>4
  <1>5. CASE Free
    BY <1>5 DEF Free
  <1>6. CASE /\ InsertMiss
             /\ item' = Inserted(probe, [key |-> call.key, data |-> call.data])
             /\ itemCount' = itemCount + 1
    <2>1. ~Idle /\ call.op = "insert"
      BY <1>6 DEF InsertMiss, Miss
    <2>2. kind = "string" => call.key # EmptyKey
      BY <2>1 DEF Inv, SearchBracket, Usable
    <2>3. itemCount < reservedCount /\ probe \in Nat
      BY <2>1 DEF Inv, Capacity, TypeOK
    <2>4. i \in 0 .. reservedCount-1
      BY <1>2, <1>6, <2>3
    <2>5. CASE i = probe
      <3>1. item'[i].key = call.key
        BY <1>6, <2>4, <2>5 DEF Inserted
      <3> QED BY <2>2, <3>1
    <2>6. CASE probe < i
      <3>1. item'[i] = item[i-1] /\ i-1 \in 0 .. itemCount-1
        BY <1>2, <1>6, <2>3, <2>4, <2>6 DEF Inserted
      <3> QED BY <1>3, <3>1
    <2>7. CASE i < probe
      <3>1. item'[i] = item[i] /\ i \in 0 .. itemCount-1
        <4>1. probe <= itemCount
          BY <2>1, SearchFacts
        <4> QED BY <1>2, <1>6, <2>3, <2>4, <2>7, <4>1 DEF Inserted
      <3> QED BY <1>3, <3>1
    <2> QED BY <2>3, <2>5, <2>6, <2>7
  <1>7. CASE RemoveHit
    <2>1. probe \in 0 .. itemCount-1 /\ item' = Removed(probe) /\ itemCount' = itemCount - 1
      BY <1>7, HitPresent DEF RemoveHit
    <2>2. item'[i] = item[i] \/ item'[i] = item[i+1]
      BY <1>2, <2>1 DEF Removed
    <2> QED BY <1>2, <1>3, <2>1, <2>2
  <1>8. CASE ModifyHit
    <2>1. /\ item' = [item EXCEPT ![probe].data = call.data] /\ itemCount' = itemCount
          /\ item \in [0 .. reservedCount-1 -> Slots]
      BY <1>8 DEF ModifyHit, Inv, TypeOK
    <2>2. item'[i].key = item[i].key
      BY <1>2, <2>1 DEF Slots
    <2> QED BY <1>3, <2>1, <2>2
  <1> QED BY <1>4, <1>5, <1>6, <1>7, <1>8, StepShapes
-----------------------------------------------------------------------------
LEMMA MapStart == Init => Map!Init
  <1> SUFFICES ASSUME Init PROVE Map!Init
    OBVIOUS
  <1>1. Contents = [k \in {} |-> NoOut]
    <2>1. {item[i].key : i \in 0 .. itemCount-1} = {}
      BY DEF Init
    <2> QED BY <2>1 DEF Contents
  <1>2. open = FALSE /\ reply = Pending
    BY DEF Init
  <1> QED BY <1>1, <1>2 DEF Map!Init, Map!Pending, Map!Answer, Pending, Answer

(* A call that starts to search tells the map nothing yet.                 *)
LEMMA StartIsCall ==
  ASSUME NEW op, NEW k, NEW d, StartSearch(op, k, d),
         open' = open, Contents' = Contents
  PROVE  Map!Next
  BY DEF StartSearch, Map!Next, Map!Call, Map!Pending, Map!Answer, Pending, Answer

LEMMA InsertRefusedStep ==
  ASSUME Inv, NEW k \in Keys, NEW d \in Data,
         Return("insert", k, FALSE, NoOut), UNCHANGED list
  PROVE  Map!Next
  <1>1. Contents' = Contents /\ open' = open
    BY ListKept
  <1>2. Map!Insert(k, d)
    BY <1>1 DEF Return, Map!Insert, Map!Fails, Map!Answer, Answer
  <1> QED BY <1>2 DEF Map!Next

(* The four searches that find nothing.                                    *)
LEMMA NotFoundStep ==
  ASSUME Inv, NEW op \in SearchOps \ {"insert"}, NEW k \in Keys, NEW d \in Data \cup {NoOut},
         op = "modify" => d \in Data,
         k \notin DOMAIN Contents, NotFound(op, k), UNCHANGED list
  PROVE  Map!Next
  <1>1. Contents' = Contents /\ open' = open
    BY ListKept
  <1>2. Contents = [x \in DOMAIN Contents |-> Contents[x]]
    BY ContentsHolding, HoldingIsFunction
  <1>3. reply' = Answer(op, k, op = "remove", IF op = "findindex" THEN -1 ELSE NoOut)
    BY DEF NotFound, Return
  <1>4. CASE op = "remove"
    <2>1. DOMAIN Contents \ {k} = DOMAIN Contents
      OBVIOUS
    <2>2. Contents' = [x \in DOMAIN Contents \ {k} |-> Contents[x]]
      BY <1>1, <1>2, <2>1
    <2>3. Map!Remove(k)
      BY <1>1, <1>3, <1>4, <2>2 DEF Map!Remove, Map!Present, Map!Answer, Answer
    <2> QED BY <2>3 DEF Map!Next
  <1>5. CASE op = "retrieve"
    <2>1. Map!Retrieve(k)
      BY <1>1, <1>3, <1>5 DEF Map!Retrieve, Map!Present, Map!Answer, Answer
    <2> QED BY <2>1 DEF Map!Next
  <1>6. CASE op = "modify"
    <2>1. Contents' = [x \in DOMAIN Contents |-> IF x = k THEN d ELSE Contents[x]]
      BY <1>1, <1>2
    <2>2. reply' = Answer("modify", k, k \in DOMAIN Contents, NoOut)
      BY <1>3, <1>6
    <2>3. Map!Modify(k, d)
      BY <1>1, <2>1, <2>2 DEF Map!Modify, Map!Present, Map!Answer, Answer
    <2> QED BY <1>6, <2>3 DEF Map!Next
  <1>7. CASE op = "findindex"
    <2>1. Map!FindIndex(k)
      BY <1>1, <1>3, <1>7 DEF Map!FindIndex, Map!Present, Map!Answer, Answer
    <2> QED BY <2>1 DEF Map!Next
  <1> QED BY <1>4, <1>5, <1>6, <1>7 DEF SearchOps

LEMMA CreateStep ==
  ASSUME Inv, NEW n \in ReserveCounts, Create(n)
  PROVE  Map!Next
  <1>1. itemCount = 0 /\ ~open
    BY DEF Inv, TypeOK, Capacity, Create
  <1>2. itemCount' = itemCount
    BY DEF Create, list
  <1>3. Contents' = Contents
    BY <1>1, <1>2, ContentsKept
  <1>4. Map!Create
    BY <1>1, <1>3 DEF Create, list, Return, Map!Create, Map!Fails, Map!Answer, Answer
  <1> QED BY <1>4 DEF Map!Next

LEMMA FreeStep ==
  ASSUME Free
  PROVE  Map!Next
  <1>1. itemCount' = 0 /\ open' = FALSE
    BY DEF Free
  <1>2. Contents' = [k \in {} |-> NoOut]
    <2>1. {item'[i].key : i \in 0 .. itemCount'-1} = {}
      BY <1>1
    <2> QED BY <2>1 DEF Contents
  <1>3. Map!Free
    BY <1>1, <1>2 DEF Free, Return, Map!Free, Map!Answer, Answer
  <1> QED BY <1>3 DEF Map!Next

LEMMA BeginStep ==
  ASSUME Inv, KeysUsable, Begin
  PROVE  Map!Next
  <1>0. ASSUME Inv, Begin PROVE Contents' = Contents /\ open' = open
    <2>1. ~Free /\ ~InsertMiss /\ ~RemoveHit /\ ~ModifyHit
      <3>1. Idle
        BY <1>0 DEF Begin, InsertString, InsertUInt, ModifyString, ModifyUInt,
                    RemoveString, RetrieveString, FindString, RemoveUInt, RetrieveUInt, FindUInt,
                    BeginInsert, BeginLookup
      <3>2. reply'.op # "free"
        BY <1>0 DEF Begin, InsertString, InsertUInt, ModifyString, ModifyUInt,
                    RemoveString, RetrieveString, FindString, RemoveUInt, RetrieveUInt, FindUInt,
                    BeginInsert, BeginLookup, StartSearch, NotFound, Return, Pending, Answer
      <3>3. ~Free
        BY <3>2 DEF Free, Return, Answer
      <3> QED BY <3>1, <3>3 DEF InsertMiss, RemoveHit, ModifyHit, Miss, Hit, Searching
    <2>2. itemCount' = itemCount /\ \A i \in 0 .. itemCount-1 : item'[i] = item[i]
      BY <1>0, <2>1, StepShapes DEF Next
    <2>3. open' = open
      BY <1>0 DEF Begin, InsertString, InsertUInt, ModifyString, ModifyUInt,
                  RemoveString, RetrieveString, FindString, RemoveUInt, RetrieveUInt, FindUInt,
                  BeginInsert, BeginLookup, list
    <2> QED BY <2>2, <2>3, ContentsKept
  <1>1. Contents' = Contents /\ open' = open
    BY <1>0
  <1>2. ASSUME NEW k \in Keys, NEW d \in Data, BeginInsert(k, d) PROVE Map!Next
    <2>1. CASE StartSearch("insert", k, d)
      BY <1>1, <2>1, StartIsCall
    <2>2. CASE Return("insert", k, FALSE, NoOut) /\ UNCHANGED list
      BY <2>2, InsertRefusedStep
    <2> QED BY <1>2, <2>1, <2>2 DEF BeginInsert
  <1>3. ASSUME NEW op \in SearchOps \ {"insert"}, NEW k \in Keys, NEW d \in Data \cup {NoOut},
               op = "modify" => d \in Data, BeginLookup(op, k, d)
        PROVE  Map!Next
    <2>1. CASE StartSearch(op, k, d)
      BY <1>1, <2>1, StartIsCall
    <2>2. CASE ~(open /\ reservedCount # 0 /\ Usable(k))
      <3>1. k \notin DOMAIN Contents
        BY <2>2, RefusedAbsent
      <3>2. NotFound(op, k) /\ UNCHANGED list
        BY <1>3, <2>2 DEF BeginLookup
      <3> QED BY <1>3, <3>1, <3>2, NotFoundStep
    <2> QED BY <1>3, <2>1, <2>2 DEF BeginLookup
  <1>4. CASE \E k \in Keys, d \in Data : InsertString(k, d) \/ InsertUInt(k, d)
    BY <1>2, <1>4 DEF InsertString, InsertUInt
  <1>5. CASE \E k \in Keys, d \in Data : ModifyString(k, d) \/ ModifyUInt(k, d)
    <2>1. PICK k \in Keys, d \in Data : BeginLookup("modify", k, d)
      BY <1>5 DEF ModifyString, ModifyUInt
    <2>2. "modify" \in SearchOps \ {"insert"}
      BY DEF SearchOps
    <2> QED BY <1>3, <2>1, <2>2
  <1>6. CASE \E k \in Keys : \/ RemoveString(k) \/ RetrieveString(k) \/ FindString(k)
                            \/ RemoveUInt(k) \/ RetrieveUInt(k) \/ FindUInt(k)
    <2>1. PICK k \in Keys, op \in {"remove", "retrieve", "findindex"} :
               BeginLookup(op, k, NoOut)
      BY <1>6 DEF RemoveString, RetrieveString, FindString, RemoveUInt, RetrieveUInt, FindUInt
    <2>2. op \in SearchOps \ {"insert"} /\ op # "modify"
      BY DEF SearchOps
    <2> QED BY <1>3, <2>1, <2>2
  <1> QED BY <1>4, <1>5, <1>6 DEF Begin
-----------------------------------------------------------------------------
(* The gap opened in front of the larger keys adds one key to the map.     *)
LEMMA InsertStep ==
  ASSUME Inv, Inv', InsertMiss,
         item' = Inserted(probe, [key |-> call.key, data |-> call.data]),
         itemCount' = itemCount + 1,
         Return("insert", call.key, TRUE, NoOut),
         open' = open
  PROVE  Map!Next
  <1>0. ~Idle /\ call.op = "insert" /\ Miss /\ open
    BY DEF InsertMiss, Miss, Inv, SearchBracket
  <1>1. /\ itemCount \in Nat /\ reservedCount \in Nat /\ itemCount < reservedCount
        /\ probe \in 0 .. itemCount
        /\ call.key \in Keys /\ call.data \in Data
        /\ call.key \notin DOMAIN Contents
    <2>1. /\ itemCount \in Nat /\ reservedCount \in Nat /\ itemCount < reservedCount
          /\ call.data \in Data
      BY <1>0 DEF Inv, TypeOK, Capacity
    <2>2. probe \in Nat /\ probe <= itemCount
      BY <1>0, SearchFacts
    <2> QED BY <1>0, <2>1, <2>2, MissAbsent
  <1>2. \A i \in 0 .. itemCount :
          /\ i = probe => item'[i] = [key |-> call.key, data |-> call.data]
          /\ probe < i => item'[i] = item[i-1]
          /\ i < probe => item'[i] = item[i]
    BY <1>1 DEF Inserted
  <1>3. /\ DOMAIN Contents' = {item'[i].key : i \in 0 .. itemCount}
        /\ \A i \in 0 .. itemCount : Contents'[item'[i].key] = item'[i].data
    <2>1. itemCount' - 1 = itemCount
      BY <1>1
    <2>2. /\ DOMAIN Contents' = {item'[i].key : i \in 0 .. itemCount'-1}
          /\ \A i \in 0 .. itemCount'-1 : Contents'[item'[i].key] = item'[i].data
      BY ContentsAreNext, Zenon
    <2> QED BY <2>1, <2>2, Zenon
  <1>4. {item'[i].key : i \in 0 .. itemCount}
          = {item[i].key : i \in 0 .. itemCount-1} \cup {call.key}
    <2>1. ASSUME NEW i \in 0 .. itemCount
          PROVE  item'[i].key = call.key \/ \E j \in 0 .. itemCount-1 : item'[i].key = item[j].key
      <3>1. CASE i = probe
        BY <1>2, <3>1
      <3>2. CASE i < probe
        BY <1>1, <1>2, <3>2
      <3>3. CASE probe < i
        <4>1. i-1 \in 0 .. itemCount-1
          BY <1>1, <3>3
        <4> QED BY <1>2, <3>3, <4>1
      <3> QED BY <1>1, <3>1, <3>2, <3>3
    <2>2. ASSUME NEW j \in 0 .. itemCount-1
          PROVE  \E i \in 0 .. itemCount : item'[i] = item[j]
      <3>1. CASE j < probe
        BY <1>1, <1>2, <3>1
      <3>2. CASE ~(j < probe)
        <4>1. j+1 \in 0 .. itemCount /\ probe < j+1 /\ (j+1)-1 = j
          BY <1>1, <3>2
        <4> QED BY <1>2, <4>1
      <3> QED BY <3>1, <3>2
    <2>3. probe \in 0 .. itemCount /\ item'[probe].key = call.key
      BY <1>1, <1>2
    <2> QED BY <2>1, <2>2, <2>3
  <1>5. DOMAIN Contents' = DOMAIN Contents \cup {call.key}
    BY <1>3, <1>4, ContentsAre
  <1>6. ASSUME NEW x \in DOMAIN Contents \cup {call.key}
        PROVE  Contents'[x] = IF x = call.key THEN call.data ELSE Contents[x]
    <2>1. CASE x = call.key
      BY <1>1, <1>2, <1>3, <2>1
    <2>2. CASE x # call.key
      <3>1. PICK j \in 0 .. itemCount-1 : x = item[j].key
        BY <2>2, ContentsAre
      <3>2. Contents[x] = item[j].data
        BY <3>1, ContentsAre
      <3>3. PICK i \in 0 .. itemCount : item'[i] = item[j]
        <4>1. CASE j < probe
          BY <1>1, <1>2, <4>1
        <4>2. CASE ~(j < probe)
          <5>1. j+1 \in 0 .. itemCount /\ probe < j+1 /\ (j+1)-1 = j
            BY <1>1, <4>2
          <5> QED BY <1>2, <5>1
        <4> QED BY <4>1, <4>2
      <3>4. Contents'[item'[i].key] = item'[i].data
        BY <1>3, <3>3
      <3> QED BY <2>2, <3>1, <3>2, <3>3, <3>4
    <2> QED BY <2>1, <2>2
  <1>7. Contents' = [x \in DOMAIN Contents \cup {call.key} |->
                      IF x = call.key THEN call.data ELSE Contents[x]]
    <2>1. Contents' = [x \in DOMAIN Contents' |-> Contents'[x]]
      <3>1. Contents' = Holding(item', itemCount')
        BY DEF Contents, Holding, Lookup
      <3> QED BY <3>1, HoldingIsFunction
    <2> QED BY <1>5, <1>6, <2>1
  <1>8. Map!Insert(call.key, call.data)
    BY <1>0, <1>1, <1>7 DEF Return, Map!Insert, Map!Present, Map!Answer, Answer
  <1> QED BY <1>1, <1>8 DEF Map!Next

(* Closing the gap takes one key out of the map.                           *)
LEMMA RemoveStep ==
  ASSUME Inv, Inv', RemoveHit
  PROVE  Map!Next
  <1>1. /\ probe \in 0 .. itemCount-1 /\ itemCount \in Nat /\ itemCount <= reservedCount
        /\ reservedCount \in Nat
        /\ item[probe].key = call.key /\ call.key \in Keys
        /\ item' = Removed(probe) /\ itemCount' = itemCount - 1 /\ open' = open
    BY HitPresent DEF RemoveHit
  <1>2. \A i \in 0 .. itemCount-2 :
          /\ i < probe => item'[i] = item[i]
          /\ probe <= i => item'[i] = item[i+1]
    BY <1>1 DEF Removed
  <1>3. /\ DOMAIN Contents' = {item'[i].key : i \in 0 .. itemCount-2}
        /\ \A i \in 0 .. itemCount-2 : Contents'[item'[i].key] = item'[i].data
    <2>1. itemCount - 1 - 1 = itemCount - 2
      BY <1>1
    <2> QED BY <1>1, <2>1, ContentsAreNext
  <1>4. ASSUME NEW i \in 0 .. itemCount-2
        PROVE  \E j \in 0 .. itemCount-1 : j # probe /\ item'[i] = item[j]
    <2>1. CASE i < probe
      BY <1>1, <1>2, <2>1
    <2>2. CASE probe <= i
      <3>1. i+1 \in 0 .. itemCount-1 /\ i+1 # probe
        BY <1>1, <2>2
      <3> QED BY <1>2, <2>2, <3>1
    <2> QED BY <1>1, <2>1, <2>2
  <1>5. ASSUME NEW j \in 0 .. itemCount-1, j # probe
        PROVE  \E i \in 0 .. itemCount-2 : item'[i] = item[j]
    <2>1. CASE j < probe
      <3>1. j \in 0 .. itemCount-2
        BY <1>1, <2>1
      <3> QED BY <1>2, <2>1, <3>1
    <2>2. CASE probe < j
      <3>1. j-1 \in 0 .. itemCount-2 /\ probe <= j-1 /\ (j-1)+1 = j
        BY <1>1, <2>2
      <3> QED BY <1>2, <3>1
    <2> QED BY <1>1, <1>5, <2>1, <2>2
  <1>6. \A j \in 0 .. itemCount-1 : j # probe => item[j].key # call.key
    <2>1. \A m, n \in 0 .. itemCount-1 : m < n => item[m].key < item[n].key
      BY DEF Inv, Sorted
    <2>2. \A m \in 0 .. itemCount-1 : item[m].key \in Nat
      BY ItemsAscend DEF Ascending
    <2> SUFFICES ASSUME NEW j \in 0 .. itemCount-1, j # probe
                 PROVE  item[j].key # item[probe].key
      BY <1>1
    <2>3. CASE j < probe
      BY <1>1, <2>1, <2>2, <2>3
    <2>4. CASE probe < j
      BY <1>1, <2>1, <2>2, <2>4
    <2> QED BY <1>1, <2>3, <2>4
  <1>7. DOMAIN Contents' = DOMAIN Contents \ {call.key}
    BY <1>1, <1>3, <1>4, <1>5, <1>6, ContentsAre
  <1>8. ASSUME NEW x \in DOMAIN Contents \ {call.key}
        PROVE  Contents'[x] = Contents[x]
    <2>1. PICK j \in 0 .. itemCount-1 : x = item[j].key
      BY ContentsAre
    <2>2. j # probe /\ Contents[x] = item[j].data
      BY <1>1, <2>1, ContentsAre
    <2>3. PICK i \in 0 .. itemCount-2 : item'[i] = item[j]
      BY <1>5, <2>2
    <2>4. Contents'[item'[i].key] = item'[i].data
      BY <1>3
    <2> QED BY <2>1, <2>2, <2>3, <2>4
  <1>9. Contents' = [x \in DOMAIN Contents \ {call.key} |-> Contents[x]]
    <2>1. Contents' = [x \in DOMAIN Contents' |-> Contents'[x]]
      <3>1. Contents' = Holding(item', itemCount')
        BY DEF Contents, Holding, Lookup
      <3> QED BY <3>1, HoldingIsFunction
    <2> QED BY <1>7, <1>8, <2>1
  <1>10. Map!Remove(call.key)
    BY <1>1, <1>9 DEF RemoveHit, Return, Map!Remove, Map!Present, Map!Answer, Answer
  <1> QED BY <1>1, <1>10 DEF Map!Next

LEMMA ModifyStep ==
  ASSUME Inv, Inv', ModifyHit
  PROVE  Map!Next
  <1>1. /\ probe \in 0 .. itemCount-1 /\ itemCount \in Nat /\ itemCount <= reservedCount
        /\ reservedCount \in Nat
        /\ item[probe].key = call.key /\ call.key \in Keys /\ call.key \in DOMAIN Contents
    BY HitPresent DEF ModifyHit
  <1>2. /\ item' = [item EXCEPT ![probe].data = call.data]
        /\ itemCount' = itemCount /\ open' = open
        /\ item \in [0 .. reservedCount-1 -> Slots]
        /\ call.data \in Data
    BY DEF ModifyHit, Inv, TypeOK
  <1>3. \A i \in 0 .. itemCount-1 :
          /\ item'[i].key = item[i].key
          /\ i # probe => item'[i].data = item[i].data
          /\ i = probe => item'[i].data = call.data
    BY <1>1, <1>2 DEF Slots
  <1>4. /\ DOMAIN Contents' = {item'[i].key : i \in 0 .. itemCount-1}
        /\ \A i \in 0 .. itemCount-1 : Contents'[item'[i].key] = item'[i].data
    <2> QED BY <1>2, ContentsAreNext
  <1>5. DOMAIN Contents' = DOMAIN Contents
    BY <1>3, <1>4, ContentsAre
  <1>6. ASSUME NEW x \in DOMAIN Contents
        PROVE  Contents'[x] = IF x = call.key THEN call.data ELSE Contents[x]
    <2>1. PICK j \in 0 .. itemCount-1 : x = item[j].key
      BY ContentsAre
    <2>2. Contents[x] = item[j].data /\ Contents'[x] = item'[j].data
      BY <1>3, <1>4, <2>1, ContentsAre
    <2>3. x = call.key => j = probe
      <3>1. ~(j < probe) \/ x # call.key
        BY <1>1, <2>1, ItemsAscend DEF Ascending
      <3>2. ~(probe < j) \/ x # call.key
        BY <1>1, <2>1, ItemsAscend DEF Ascending
      <3> QED BY <1>1, <3>1, <3>2
    <2> QED BY <1>1, <1>3, <2>1, <2>2, <2>3
  <1>7. Contents' = [x \in DOMAIN Contents |-> IF x = call.key THEN call.data ELSE Contents[x]]
    <2>1. Contents' = [x \in DOMAIN Contents' |-> Contents'[x]]
      <3>1. Contents' = Holding(item', itemCount')
        BY DEF Contents, Holding, Lookup
      <3> QED BY <3>1, HoldingIsFunction
    <2> QED BY <1>5, <1>6, <2>1
  <1>8. reply' = Answer("modify", call.key, call.key \in DOMAIN Contents, NoOut)
    BY <1>1 DEF ModifyHit, Return
  <1>9. Map!Modify(call.key, call.data)
    BY <1>2, <1>7, <1>8 DEF Map!Modify, Map!Present, Map!Answer, Answer
  <1> QED BY <1>1, <1>2, <1>9 DEF Map!Next

LEMMA FindStep ==
  ASSUME Inv, FindHit
  PROVE  Map!Next
  <1>1. /\ probe \in 0 .. itemCount-1 /\ itemCount \in Nat
        /\ item[probe].key = call.key /\ call.key \in Keys /\ call.key \in DOMAIN Contents
        /\ Contents' = Contents /\ open' = open
    BY HitPresent, ListKept DEF FindHit
  <1>2. Map!Rank(call.key) = probe
    <2>1. Map!Rank(call.key) = Cardinality({x \in DOMAIN Contents : x < call.key})
      BY Zenon DEF Map!Rank, Map!Present, Map!Cardinality, Cardinality
    <2> QED BY <1>1, <2>1, ItemsAscend, RankIsIndex, ContentsAre
  <1>3. Map!FindIndex(call.key)
    BY <1>1, <1>2 DEF FindHit, Return, Map!FindIndex, Map!Present, Map!Answer, Answer
  <1> QED BY <1>1, <1>3 DEF Map!Next

LEMMA FinishStep ==
  ASSUME Inv, Inv', Finish
  PROVE  Map!Next
  <1>1. CASE InsertHit
    <2>1. call.key \in Keys /\ call.data \in Data
      BY <1>1, HitPresent DEF InsertHit, Inv, TypeOK
    <2> QED BY <1>1, <2>1, InsertRefusedStep DEF InsertHit
  <1>2. CASE RetrieveHit
    <2>1. /\ call.key \in Keys /\ call.key \in DOMAIN Contents
          /\ Contents[call.key] = item[probe].data
          /\ Contents' = Contents /\ open' = open
      BY <1>2, HitPresent, ListKept DEF RetrieveHit
    <2>2. Map!Retrieve(call.key)
      BY <1>2, <2>1 DEF RetrieveHit, Return, Map!Retrieve, Map!Present, Map!Answer, Answer
    <2> QED BY <2>1, <2>2 DEF Map!Next
  <1>3. CASE LookupMiss
    <2>1. call.key \notin DOMAIN Contents /\ call.key \in Keys
      BY <1>3, MissAbsent DEF LookupMiss
    <2>2. /\ call.op \in SearchOps \ {"insert"} /\ call.data \in Data \cup {NoOut}
          /\ call.op = "modify" => call.data \in Data
      BY <1>3, SearchFacts DEF LookupMiss, Miss, Inv, TypeOK
    <2> QED BY <1>3, <2>1, <2>2, NotFoundStep DEF LookupMiss
  <1>4. CASE InsertMiss
    <2>1. CASE Return("insert", call.key, FALSE, NoOut) /\ UNCHANGED list
      <3>1. call.key \in Keys /\ call.data \in Data
        BY <1>4, MissAbsent DEF InsertMiss, Inv, TypeOK
      <3> QED BY <2>1, <3>1, InsertRefusedStep
    <2> QED BY <1>4, <2>1, InsertStep DEF InsertMiss
  <1> QED BY <1>1, <1>2, <1>3, <1>4, RemoveStep, ModifyStep, FindStep DEF Finish

LEMMA ReleaseStep ==
  ASSUME Inv, ReleaseUnused
  PROVE  Map!Next
  <1>1. ~Free /\ ~InsertMiss /\ ~RemoveHit /\ ~ModifyHit
    BY DEF ReleaseUnused, Free, Return, Answer, InsertMiss, RemoveHit, ModifyHit,
           Miss, Hit, Searching
  <1>2. itemCount' = itemCount /\ \A i \in 0 .. itemCount-1 : item'[i] = item[i]
    BY <1>1, StepShapes DEF Next
  <1>3. Contents' = Contents /\ open' = open
    BY <1>2, ContentsKept DEF ReleaseUnused, list
  <1>4. Map!ReleaseUnused
    BY <1>3 DEF ReleaseUnused, Return, Map!ReleaseUnused, Map!Answer, Answer
  <1> QED BY <1>4 DEF Map!Next

LEMMA MapStep == Inv /\ Inv' /\ KeysUsable /\ [Next]_vars => [Map!Next]_(Map!vars)
  <1> SUFFICES ASSUME Inv, Inv', KeysUsable, [Next]_vars PROVE [Map!Next]_(Map!vars)
    OBVIOUS
  <1>1. CASE UNCHANGED vars
    BY <1>1, ListKept DEF vars, Map!vars
  <1>2. CASE Probe
    BY <1>2, ListKept DEF Probe, Narrow, Map!vars
  <1> QED BY <1>1, <1>2, CreateStep, FreeStep, ReleaseStep, BeginStep, FinishStep DEF Next

(* For every instance: each call on the array takes effect in one step, a  *)
(* failed call changes nothing a caller can see, lookups answer for the    *)
(* keys present, and an index is the rank of its key.                      *)
THEOREM ImplementsMap == Spec => MapSpec
  <1>1. Spec => [](Inv /\ KeysUsable)
    BY InitInv, NextInv, UsableStart, UsableStep, PTL DEF Spec
  <1> QED BY <1>1, MapStart, MapStep, PTL DEF Spec, MapSpec, Map!Spec

(* No lookup, update, shrink or failed call moves an item; an insert moves *)
(* only larger keys, a removal only the key itself and larger ones.        *)
THEOREM IndicesStable == Spec => IndexStable
  <1> DEFINE Stable(i) ==
       \/ i < itemCount' /\ item'[i].key = item[i].key
       \/ reply'.op = "free"
       \/ reply'.op = "insert" /\ reply'.ok /\ reply'.key < item[i].key
       \/ reply'.op = "remove" /\ reply'.key <= item[i].key
  <1>1. Inv /\ [Next]_vars => [\A i \in 0 .. itemCount-1 : Stable(i)]_vars
    <2> SUFFICES ASSUME Inv, [Next]_vars, NEW i \in 0 .. itemCount-1
                 PROVE  Stable(i)
      OBVIOUS
    <2>0. itemCount \in Nat /\ reservedCount \in Nat /\ itemCount <= reservedCount
      BY DEF Inv, TypeOK, Capacity
    <2>1. CASE itemCount' = itemCount /\ \A j \in 0 .. itemCount-1 : item'[j] = item[j]
      BY <2>0, <2>1
    <2>2. CASE Free
      BY <2>2 DEF Free, Return, Answer
    <2>3. CASE /\ InsertMiss
               /\ item' = Inserted(probe, [key |-> call.key, data |-> call.data])
               /\ itemCount' = itemCount + 1
               /\ Return("insert", call.key, TRUE, NoOut)
      <3>1. ~Idle /\ left >= right
        BY <2>3 DEF InsertMiss, Miss
      <3>2. probe = right /\ right \in Nat
        BY <3>1, SearchFacts
      <3>3. CASE i < probe
        <4>1. i \in 0 .. reservedCount-1
          BY <2>0
        <4>2. item'[i] = item[i]
          BY <2>3, <3>2, <3>3, <4>1 DEF Inserted
        <4> QED BY <2>0, <2>3, <4>2
      <3>4. CASE probe <= i
        <4>1. i \in right .. itemCount-1
          BY <2>0, <3>2, <3>4
        <4>2. call.key < item[i].key
          BY <3>1, <4>1 DEF Inv, SearchBracket
        <4> QED BY <2>3, <4>2 DEF Return, Answer
      <3> QED BY <3>2, <3>3, <3>4
    <2>4. CASE RemoveHit
      <3>1. /\ probe \in 0 .. itemCount-1 /\ item[probe].key = call.key
            /\ item' = Removed(probe) /\ itemCount' = itemCount - 1
            /\ Return("remove", call.key, TRUE, NoOut)
        BY <2>4, HitPresent DEF RemoveHit
      <3>2. CASE i < probe
        <4>1. i \in 0 .. reservedCount-1 /\ i < itemCount-1
          BY <2>0, <3>1, <3>2
        <4>2. item'[i] = item[i]
          BY <3>1, <3>2, <4>1 DEF Removed
        <4> QED BY <3>1, <4>1, <4>2
      <3>3. CASE probe <= i
        <4>1. call.key <= item[i].key
          <5>1. probe < i => item[probe].key < item[i].key
            BY <3>1 DEF Inv, Sorted
          <5>2. item[probe].key \in Nat /\ item[i].key \in Nat
            BY <3>1, ItemsAscend DEF Ascending
          <5> QED BY <3>1, <3>3, <5>1, <5>2
        <4> QED BY <3>1, <4>1 DEF Return, Answer
      <3> QED BY <3>1, <3>2, <3>3
    <2>5. CASE ModifyHit
      <3>1. /\ item' = [item EXCEPT ![probe].data = call.data] /\ itemCount' = itemCount
            /\ item \in [0 .. reservedCount-1 -> Slots]
        BY <2>5 DEF ModifyHit, Inv, TypeOK
      <3>2. item'[i].key = item[i].key
        BY <2>0, <3>1 DEF Slots
      <3> QED BY <2>0, <3>1, <3>2
    <2> HIDE DEF Stable
    <2> QED BY <2>1, <2>2, <2>3, <2>4, <2>5, StepShapes
  <1> QED BY <1>1, Invariance, PTL DEF Spec, IndexStable
=============================================================================
