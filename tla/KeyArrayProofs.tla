--------------------------- MODULE KeyArrayProofs ---------------------------
(***************************************************************************)
(* Proofs about KeyArray for every set of keys, every capacity and every   *)
(* width of unsigned.  The inductive invariant is the conjunction of the   *)
(* invariants the runs check: Sorted is preserved by an insertion only     *)
(* because the search has bracketed the key (SearchBracket), and the       *)
(* search stays inside the slots only because of Capacity.                 *)
(***************************************************************************)
EXTENDS KeyArray, TLAPS

Inv == TypeOK /\ Capacity /\ Sorted /\ SearchBracket

-----------------------------------------------------------------------------
(* The midpoint of an interval of slots lies in it, without wrapping.      *)
LEMMA MidpointInside ==
  ASSUME NEW l \in Nat, NEW r \in Nat, l <= r, r <= MaxCapacity
  PROVE  /\ Midpoint(l, r) = (l + r) \div 2
         /\ Midpoint(l, r) \in Nat
         /\ l <= Midpoint(l, r) /\ Midpoint(l, r) <= r
         /\ l < r => Midpoint(l, r) < r
  <1>1. l + r < UIntMod
    BY MemoryAssumption, SizeAssumption
  <1>2. Midpoint(l, r) = (l + r) \div 2
    BY <1>1 DEF Midpoint, Wrap
  <1> QED BY <1>2

(* A slot of the list holds a key that compares with every other.          *)
LEMMA KeysAreNumbers ==
  ASSUME TypeOK
  PROVE  \A i \in 0 .. reservedCount-1 : item[i].key \in Nat
  <1> SUFFICES ASSUME NEW i \in 0 .. reservedCount-1
               PROVE  item[i].key \in Nat
    OBVIOUS
  <1>1. item[i] \in Slots
    BY DEF TypeOK
  <1>2. item[i].key \in Keys \/ item[i].key = EmptyKey
    BY <1>1 DEF Slots
  <1>3. Keys \subseteq Nat /\ EmptyKey \in Nat
    BY KeysAssumption DEF EmptyKey
  <1> QED BY <1>2, <1>3

(* What a returning call leaves behind: no search in progress.             *)
LEMMA ReturnIsIdle ==
  ASSUME NEW op, NEW k, NEW ok \in BOOLEAN, NEW out, Return(op, k, ok, out)
  PROVE  /\ kind' = kind
         /\ call' = NoCall
         /\ left' = 0 /\ right' = 0 /\ probe' = 0
         /\ reply'.ok \in BOOLEAN
  BY DEF Return, Answer

(* Hence a call that returns keeps the invariant when the list it leaves   *)
(* is well formed.                                                         *)
LEMMA ReturnKeepsInv ==
  ASSUME Inv,
         NEW op, NEW k, NEW ok \in BOOLEAN, NEW out, Return(op, k, ok, out),
         open' \in BOOLEAN, reservedCount' \in Nat, itemCount' \in Nat,
         item' \in [0 .. reservedCount'-1 -> Slots],
         itemCount' <= reservedCount', reservedCount' <= MaxCapacity,
         ~open' => reservedCount' = 0,
         Sorted'
  PROVE  Inv'
  <1>1. /\ kind' = kind
        /\ call' = NoCall
        /\ left' = 0 /\ right' = 0 /\ probe' = 0
        /\ reply'.ok \in BOOLEAN
    BY ReturnIsIdle
  <1>2. call'.op = "none"
    BY <1>1 DEF NoCall
  <1>3. TypeOK'
    BY <1>1, <1>2 DEF Inv, TypeOK
  <1>4. Capacity'
    BY <1>2 DEF Capacity
  <1>5. SearchBracket'
    BY <1>2 DEF SearchBracket, Idle
  <1> QED BY <1>3, <1>4, <1>5 DEF Inv

LEMMA ReturnUnchanged ==
  ASSUME Inv, UNCHANGED list,
         NEW op, NEW k, NEW ok \in BOOLEAN, NEW out, Return(op, k, ok, out)
  PROVE  Inv'
  <1>1. /\ open' = open /\ reservedCount' = reservedCount
        /\ itemCount' = itemCount /\ item' = item
    BY DEF list
  <1>2. /\ open \in BOOLEAN /\ reservedCount \in Nat /\ itemCount \in Nat
        /\ item \in [0 .. reservedCount-1 -> Slots]
        /\ itemCount <= reservedCount /\ reservedCount <= MaxCapacity
        /\ ~open => reservedCount = 0
    BY DEF Inv, TypeOK, Capacity
  <1>3. Sorted'
    BY <1>1 DEF Inv, Sorted
  <1> QED BY <1>1, <1>2, <1>3, ReturnKeepsInv

(* A search starts with the whole list bracketed.                          *)
LEMMA StartKeepsInv ==
  ASSUME Inv,
         NEW op \in SearchOps, NEW k \in Keys, NEW d \in Data \cup {NoOut},
         op \in {"insert", "modify"} => d \in Data,
         StartSearch(op, k, d), open, Usable(k),
         open' = open, itemCount' = itemCount,
         reservedCount' \in Nat, reservedCount <= reservedCount',
         reservedCount' <= MaxCapacity,
         op = "insert" => itemCount < reservedCount',
         item' \in [0 .. reservedCount'-1 -> Slots],
         \A i \in 0 .. itemCount-1 : item'[i] = item[i]
  PROVE  Inv'
  <1>0. /\ itemCount \in Nat /\ reservedCount \in Nat
        /\ itemCount <= reservedCount /\ Sorted /\ open \in BOOLEAN
        /\ kind \in {"string", "uint"}
    BY DEF Inv, TypeOK, Capacity
  <1>1. /\ call' = [op |-> op, key |-> k, data |-> d]
        /\ left' = 0 /\ right' = itemCount /\ probe' = itemCount \div 2
        /\ kind' = kind /\ reply' = Pending
    BY DEF StartSearch
  <1>2. /\ call'.op = op /\ call'.key = k /\ call'.data = d
    BY <1>1
  <1>3. call' \in [op : SearchOps, key : Keys, data : Data \cup {NoOut}]
    BY <1>1
  <1>4. TypeOK'
    <2>1. left' \in Nat /\ right' \in Nat /\ probe' \in Nat
      BY <1>0, <1>1
    <2>2. reply'.ok \in BOOLEAN
      BY <1>1 DEF Pending, Answer
    <2> QED BY <1>0, <1>1, <1>2, <1>3, <2>1, <2>2 DEF TypeOK
  <1>5. Capacity'
    BY <1>0, <1>2 DEF Capacity
  <1>6. Sorted'
    BY <1>0 DEF Sorted
  <1>7. Usable(k)' /\ Usable(call.key)'
    BY <1>1, <1>2 DEF Usable
  <1>8. SearchBracket'
    <2>1. left' <= right' /\ right' <= itemCount'
      BY <1>0, <1>1
    <2>2. probe' = (left' + right') \div 2
      BY <1>0, <1>1
    <2>3. \A i \in 0 .. left'-1 : item'[i].key < call'.key
      BY <1>1
    <2>4. \A i \in right' .. itemCount'-1 : call'.key < item'[i].key
      BY <1>0, <1>1
    <2> QED BY <1>7, <2>1, <2>2, <2>3, <2>4 DEF SearchBracket
  <1> QED BY <1>4, <1>5, <1>6, <1>8 DEF Inv
-----------------------------------------------------------------------------
LEMMA InitInv == Init => Inv
  <1> SUFFICES ASSUME Init PROVE Inv
    OBVIOUS
  <1>1. call.op = "none"
    BY DEF Init, NoCall
  <1>2. item \in [0 .. reservedCount-1 -> Slots]
    BY DEF Init
  <1>3. TypeOK
    BY <1>1, <1>2 DEF Init, TypeOK, Pending, Answer
  <1>4. Capacity
    BY <1>1, SizeAssumption DEF Init, Capacity
  <1>5. Sorted
    BY DEF Init, Sorted
  <1> QED BY <1>1, <1>3, <1>4, <1>5 DEF Inv, SearchBracket, Idle

LEMMA CreateInv ==
  ASSUME Inv, NEW n \in ReserveCounts, Create(n)
  PROVE  Inv'
  <1>0. /\ n \in Nat /\ itemCount = 0
        /\ Blank \in Slots
    BY SizeAssumption DEF Inv, TypeOK, Capacity, Create, Blank, Slots
  <1>1. CASE UNCHANGED list /\ Return("create", 0, FALSE, NoOut)
    BY <1>1, ReturnUnchanged
  <1>2. CASE /\ n <= MaxCapacity
             /\ open' = TRUE
             /\ reservedCount' = n
             /\ item' = [i \in 0 .. n-1 |-> Blank]
             /\ Return("create", 0, TRUE, NoOut)
             /\ UNCHANGED itemCount
    <2>1. Sorted'
      BY <1>0, <1>2 DEF Sorted
    <2>2. item' \in [0 .. reservedCount'-1 -> Slots]
      BY <1>0, <1>2
    <2>3. open' \in BOOLEAN /\ (~open' => reservedCount' = 0)
      BY <1>2, Zenon
    <2>4. /\ reservedCount' \in Nat /\ itemCount' \in Nat
          /\ itemCount' <= reservedCount' /\ reservedCount' <= MaxCapacity
      BY <1>0, <1>2
    <2> QED BY <1>2, <2>1, <2>2, <2>3, <2>4, ReturnKeepsInv
  <1> QED BY <1>1, <1>2 DEF Create

LEMMA FreeInv ==
  ASSUME Inv, Free
  PROVE  Inv'
  <1>1. /\ open' = FALSE /\ reservedCount' = 0 /\ itemCount' = 0
        /\ item' = [i \in 0 .. -1 |-> Blank]
        /\ Return("free", 0, TRUE, NoOut)
    BY DEF Free
  <1>2. item' \in [0 .. reservedCount'-1 -> Slots]
    BY <1>1 DEF Slots, Blank
  <1>3. Sorted'
    BY <1>1 DEF Sorted
  <1>4. /\ reservedCount' \in Nat /\ itemCount' \in Nat
        /\ itemCount' <= reservedCount' /\ reservedCount' <= MaxCapacity
    BY <1>1, SizeAssumption
  <1>5. open' \in BOOLEAN /\ (~open' => reservedCount' = 0)
    BY <1>1, Zenon
  <1> QED BY <1>1, <1>2, <1>3, <1>4, <1>5, ReturnKeepsInv

(* Resizing to any count that holds the items keeps them.                  *)
LEMMA ResizedKeepsItems ==
  ASSUME Inv, NEW n \in Nat, itemCount <= n
  PROVE  /\ Resized(n) \in [0 .. n-1 -> Slots]
         /\ \A i \in 0 .. itemCount-1 : Resized(n)[i] = item[i]
  <1>1. /\ reservedCount \in Nat /\ itemCount \in Nat
        /\ item \in [0 .. reservedCount-1 -> Slots]
        /\ itemCount <= reservedCount
        /\ Blank \in Slots
    BY DEF Inv, TypeOK, Capacity, Blank, Slots
  <1> QED BY <1>1 DEF Resized

LEMMA ReleaseUnusedInv ==
  ASSUME Inv, ReleaseUnused
  PROVE  Inv'
  <1>0. /\ open \in BOOLEAN /\ reservedCount \in Nat /\ itemCount \in Nat
        /\ itemCount <= reservedCount /\ reservedCount <= MaxCapacity
        /\ MaxCapacity \in Nat /\ Sorted
        /\ Return("releaseunused", 0, TRUE, NoOut)
    BY SizeAssumption DEF Inv, TypeOK, Capacity, ReleaseUnused
  <1>1. CASE UNCHANGED list
    BY <1>0, <1>1, ReturnUnchanged
  <1>2. CASE /\ open
             /\ reservedCount' = itemCount
             /\ item' = Resized(itemCount)
             /\ UNCHANGED <<open, itemCount>>
    <2>1. /\ item' \in [0 .. itemCount-1 -> Slots]
          /\ \A i \in 0 .. itemCount-1 : item'[i] = item[i]
      BY <1>0, <1>2, ResizedKeepsItems
    <2>2. Sorted'
      BY <1>0, <1>2, <2>1 DEF Sorted
    <2>3. open' \in BOOLEAN /\ (~open' => reservedCount' = 0)
      BY <1>0, <1>2, Zenon
    <2>4. /\ reservedCount' \in Nat /\ itemCount' \in Nat
          /\ itemCount' <= reservedCount' /\ reservedCount' <= MaxCapacity
          /\ item' \in [0 .. reservedCount'-1 -> Slots]
      BY <1>0, <1>2, <2>1
    <2> QED BY <1>0, <2>2, <2>3, <2>4, ReturnKeepsInv
  <1> QED BY <1>0, <1>1, <1>2 DEF ReleaseUnused

LEMMA BeginInsertInv ==
  ASSUME Inv, NEW k \in Keys, NEW d \in Data, BeginInsert(k, d)
  PROVE  Inv'
  <1>0. /\ open \in BOOLEAN /\ reservedCount \in Nat /\ itemCount \in Nat
        /\ itemCount <= reservedCount /\ reservedCount <= MaxCapacity
        /\ item \in [0 .. reservedCount-1 -> Slots]
        /\ MaxCapacity \in Nat /\ "insert" \in SearchOps
    BY SizeAssumption DEF Inv, TypeOK, Capacity, SearchOps
  <1>1. CASE Return("insert", k, FALSE, NoOut) /\ UNCHANGED list
    BY <1>1, ReturnUnchanged
  <1>2. CASE /\ open /\ Usable(k) /\ itemCount # reservedCount
             /\ StartSearch("insert", k, d)
             /\ UNCHANGED list
    <2>1. /\ open' = open /\ itemCount' = itemCount
          /\ reservedCount' = reservedCount /\ item' = item
      BY <1>2 DEF list
    <2>2. itemCount < reservedCount'
      BY <1>0, <1>2, <2>1
    <2> QED BY <1>0, <1>2, <2>1, <2>2, StartKeepsInv
  <1>3. CASE /\ open /\ Usable(k) /\ itemCount = reservedCount
             /\ CanGrow
             /\ reservedCount' = Grown
             /\ item' = Resized(Grown)
             /\ StartSearch("insert", k, d)
             /\ UNCHANGED <<open, itemCount>>
    (* The wrap test of the code is not needed: memory ends long before.   *)
    <2>1. Grown \in Nat /\ reservedCount < Grown /\ Grown <= MaxCapacity
      <3>1. reservedCount + GrowBy < UIntMod \/ Grown = reservedCount + GrowBy - UIntMod
        BY <1>0, SizeAssumption DEF Grown, Wrap
      <3>2. reservedCount + GrowBy < UIntMod => Grown = reservedCount + GrowBy
        BY DEF Grown, Wrap
      <3>3. Grown >= reservedCount /\ Grown <= MaxCapacity
        BY <1>3 DEF CanGrow
      <3> QED BY <1>0, <3>1, <3>2, <3>3, SizeAssumption
    <2>2. /\ item' \in [0 .. Grown-1 -> Slots]
          /\ \A i \in 0 .. itemCount-1 : item'[i] = item[i]
      BY <1>0, <1>3, <2>1, ResizedKeepsItems
    <2>3. /\ reservedCount' \in Nat /\ reservedCount <= reservedCount'
          /\ reservedCount' <= MaxCapacity /\ itemCount < reservedCount'
          /\ item' \in [0 .. reservedCount'-1 -> Slots]
      BY <1>0, <1>3, <2>1, <2>2
    <2> QED BY <1>0, <1>3, <2>2, <2>3, StartKeepsInv
  <1> QED BY <1>1, <1>2, <1>3 DEF BeginInsert

LEMMA BeginLookupInv ==
  ASSUME Inv, NEW op \in SearchOps \ {"insert"}, NEW k \in Keys,
         NEW d \in Data \cup {NoOut}, op = "modify" => d \in Data,
         BeginLookup(op, k, d)
  PROVE  Inv'
  <1>0. /\ open \in BOOLEAN /\ reservedCount \in Nat /\ itemCount \in Nat
        /\ reservedCount <= MaxCapacity
        /\ item \in [0 .. reservedCount-1 -> Slots]
        /\ UNCHANGED list
    BY DEF Inv, TypeOK, Capacity, BeginLookup
  <1>1. /\ open' = open /\ itemCount' = itemCount
        /\ reservedCount' = reservedCount /\ item' = item
    BY <1>0 DEF list
  <1>2. CASE open /\ Usable(k) /\ StartSearch(op, k, d)
    BY <1>0, <1>1, <1>2, StartKeepsInv
  <1>3. CASE NotFound(op, k)
    BY <1>0, <1>3, ReturnUnchanged DEF NotFound
  <1> QED BY <1>2, <1>3 DEF BeginLookup
-----------------------------------------------------------------------------
(* The facts about a running search that its steps need.                   *)
LEMMA SearchFacts ==
  ASSUME Inv, ~Idle
  PROVE  /\ itemCount \in Nat /\ reservedCount \in Nat
         /\ left \in Nat /\ right \in Nat /\ probe \in Nat
         /\ left <= right /\ right <= itemCount
         /\ itemCount <= reservedCount /\ reservedCount <= MaxCapacity
         /\ MaxCapacity \in Nat
         /\ probe = Midpoint(left, right)
         /\ left <= probe /\ probe <= right
         /\ left < right => probe < right
         /\ call \in [op : SearchOps, key : Keys, data : Data \cup {NoOut}]
         /\ call.op \in SearchOps /\ call.key \in Nat
  <1>1. /\ itemCount \in Nat /\ reservedCount \in Nat
        /\ left \in Nat /\ right \in Nat /\ probe \in Nat
        /\ left <= right /\ right <= itemCount
        /\ itemCount <= reservedCount /\ reservedCount <= MaxCapacity
        /\ MaxCapacity \in Nat
        /\ probe = (left + right) \div 2
    BY SizeAssumption DEF Inv, TypeOK, Capacity, SearchBracket
  <1>2. probe = Midpoint(left, right)
    BY <1>1, MidpointInside
  <1>3. /\ left <= probe /\ probe <= right
        /\ left < right => probe < right
    BY <1>1, <1>2, MidpointInside
  <1>4. call # NoCall
    BY DEF Idle, NoCall
  <1>5. call \in [op : SearchOps, key : Keys, data : Data \cup {NoOut}]
    BY <1>4 DEF Inv, TypeOK
  <1>6. call.op \in SearchOps /\ call.key \in Nat
    BY <1>5, KeysAssumption
  <1> QED BY <1>1, <1>2, <1>3, <1>5, <1>6

(* A probe keeps the key bracketed: the sorted list puts every slot on one *)
(* side of the probed one on the same side of the key.                     *)
LEMMA ProbeInv ==
  ASSUME Inv, Probe
  PROVE  Inv'
  <1>0. ~Idle /\ left < right
    BY DEF Probe, Searching
  <1>1. /\ itemCount \in Nat /\ reservedCount \in Nat
        /\ left \in Nat /\ right \in Nat /\ probe \in Nat
        /\ right <= itemCount /\ itemCount <= reservedCount
        /\ reservedCount <= MaxCapacity /\ MaxCapacity \in Nat
        /\ left <= probe /\ probe < right
        /\ call.key \in Nat
    BY <1>0, SearchFacts
  <1>2. /\ kind' = kind /\ call' = call /\ reply' = reply
        /\ open' = open /\ reservedCount' = reservedCount
        /\ itemCount' = itemCount /\ item' = item
        /\ probe' = Midpoint(left', right')
    BY DEF Probe, Narrow, list
  <1>3. \A i \in 0 .. itemCount-1 : item[i].key \in Nat
    BY <1>1, KeysAreNumbers DEF Inv
  <1>4. item[probe].key \in Nat /\ item[probe].key # call.key
    BY <1>0, <1>1, <1>3 DEF Probe, Hit, Searching
  <1>5. /\ \A i \in 0 .. left-1 : item[i].key < call.key
        /\ \A i \in right .. itemCount-1 : call.key < item[i].key
    BY <1>0 DEF Inv, SearchBracket
  <1>6. /\ \A i \in 0 .. probe-1 : item[i].key < item[probe].key
        /\ \A i \in probe+1 .. itemCount-1 : item[probe].key < item[i].key
    BY <1>1 DEF Inv, Sorted
  <1>7. /\ left' \in Nat /\ right' \in Nat
        /\ left' <= right' /\ right' <= itemCount
        /\ \A i \in 0 .. left'-1 : item[i].key < call.key
        /\ \A i \in right' .. itemCount-1 : call.key < item[i].key
    <2>1. CASE item[probe].key > call.key
      <3>1. left' = left /\ right' = probe
        BY <2>1 DEF Probe, Narrow
      <3>2. \A i \in probe .. itemCount-1 : call.key < item[i].key
        BY <1>1, <1>3, <1>4, <1>6, <2>1
      <3> QED BY <1>1, <1>5, <3>1, <3>2
    <2>2. CASE ~(item[probe].key > call.key)
      <3>1. left' = probe + 1 /\ right' = right
        BY <2>2 DEF Probe, Narrow
      <3>2. item[probe].key < call.key
        BY <1>1, <1>4, <2>2
      <3>3. \A i \in 0 .. probe : item[i].key < call.key
        BY <1>1, <1>3, <1>4, <1>6, <3>2
      <3> QED BY <1>1, <1>5, <3>1, <3>3
    <2> QED BY <2>1, <2>2
  <1>8. probe' \in Nat /\ probe' = (left' + right') \div 2
    BY <1>1, <1>2, <1>7, MidpointInside
  <1>9. TypeOK' /\ Capacity' /\ Sorted'
    BY <1>2, <1>7, <1>8 DEF Inv, TypeOK, Capacity, Sorted
  <1>10. open' /\ Usable(call.key)'
    BY <1>0, <1>2 DEF Inv, SearchBracket, Usable
  <1>11. SearchBracket'
    BY <1>2, <1>7, <1>8, <1>10 DEF SearchBracket
  <1> QED BY <1>9, <1>11 DEF Inv

(* Opening a gap in front of the larger keys keeps the list sorted.        *)
LEMMA InsertMissInv ==
  ASSUME Inv, InsertMiss
  PROVE  Inv'
  <1>0. ~Idle /\ left >= right /\ call.op = "insert"
    BY DEF InsertMiss, Miss
  <1>1. /\ itemCount \in Nat /\ reservedCount \in Nat
        /\ left \in Nat /\ right \in Nat /\ probe \in Nat
        /\ right <= itemCount /\ reservedCount <= MaxCapacity
        /\ probe = right /\ probe = left
        /\ call \in [op : SearchOps, key : Keys, data : Data \cup {NoOut}]
        /\ call.key \in Nat
    BY <1>0, SearchFacts
  <1>2. /\ itemCount < reservedCount
        /\ item \in [0 .. reservedCount-1 -> Slots]
        /\ open \in BOOLEAN
        /\ ~open => reservedCount = 0
    BY <1>0 DEF Inv, TypeOK, Capacity
  <1>3. CASE Return("insert", call.key, FALSE, NoOut) /\ UNCHANGED list
    BY <1>3, ReturnUnchanged
  <1>4. CASE /\ item' = Inserted(probe, [key |-> call.key, data |-> call.data])
             /\ itemCount' = itemCount + 1
             /\ Return("insert", call.key, TRUE, NoOut)
             /\ UNCHANGED <<open, reservedCount>>
    <2> DEFINE slot == [key |-> call.key, data |-> call.data]
    <2>1. slot \in Slots /\ slot.key = call.key
      BY <1>1 DEF Slots
    <2>2. /\ item' \in [0 .. reservedCount'-1 -> Slots]
          /\ itemCount' \in Nat /\ itemCount' <= reservedCount'
          /\ reservedCount' \in Nat /\ reservedCount' <= MaxCapacity
      BY <1>1, <1>2, <1>4, <2>1 DEF Inserted
    <2>3. open' \in BOOLEAN /\ (~open' => reservedCount' = 0)
      BY <1>2, <1>4, Zenon
    <2>4. \A i \in 0 .. itemCount :
            item'[i] = IF i = probe THEN slot
                       ELSE IF probe < i THEN item[i-1] ELSE item[i]
      BY <1>1, <1>2, <1>4 DEF Inserted
    <2>5. Sorted'
      <3> SUFFICES ASSUME NEW i \in 0 .. itemCount, NEW j \in 0 .. itemCount, i < j
                   PROVE  item'[i].key < item'[j].key
        BY <1>1, <1>4 DEF Sorted
      <3>1. \A m, n \in 0 .. itemCount-1 : m < n => item[m].key < item[n].key
        BY DEF Inv, Sorted
      <3>2. /\ \A m \in 0 .. probe-1 : item[m].key < call.key
            /\ \A m \in probe .. itemCount-1 : call.key < item[m].key
        BY <1>0, <1>1 DEF Inv, SearchBracket
      <3>3. CASE j < probe
        BY <1>1, <2>4, <3>1, <3>3
      <3>4. CASE j = probe
        BY <1>1, <2>1, <2>4, <3>2, <3>4
      <3>5. CASE j > probe /\ i < probe
        <4>1. item'[i] = item[i] /\ item'[j] = item[j-1]
          BY <1>1, <2>4, <3>5
        <4> QED BY <1>1, <3>1, <3>5, <4>1
      <3>6. CASE j > probe /\ i = probe
        <4>1. item'[i].key = call.key /\ item'[j] = item[j-1]
          BY <1>1, <2>1, <2>4, <3>6
        <4> QED BY <1>1, <3>2, <3>6, <4>1
      <3>7. CASE j > probe /\ i > probe
        <4>1. item'[i] = item[i-1] /\ item'[j] = item[j-1]
          BY <1>1, <2>4, <3>7
        <4> QED BY <1>1, <3>1, <3>7, <4>1
      <3> QED BY <1>1, <3>3, <3>4, <3>5, <3>6, <3>7
    <2> QED BY <1>4, <2>2, <2>3, <2>5, ReturnKeepsInv
  <1> QED BY <1>3, <1>4 DEF InsertMiss

(* Closing the gap of a removed slot keeps the list sorted.                *)
LEMMA RemoveHitInv ==
  ASSUME Inv, RemoveHit
  PROVE  Inv'
  <1>0. ~Idle /\ left < right
    BY DEF RemoveHit, Hit, Searching
  <1>1. /\ itemCount \in Nat /\ reservedCount \in Nat /\ probe \in Nat
        /\ probe < itemCount /\ itemCount <= reservedCount
        /\ reservedCount <= MaxCapacity
    BY <1>0, SearchFacts
  <1>2. /\ item \in [0 .. reservedCount-1 -> Slots] /\ Blank \in Slots
        /\ open \in BOOLEAN /\ (~open => reservedCount = 0)
    BY DEF Inv, TypeOK, Capacity, Blank, Slots
  <1>3. /\ item' = Removed(probe)
        /\ itemCount' = itemCount - 1
        /\ Return("remove", call.key, TRUE, NoOut)
        /\ open' = open /\ reservedCount' = reservedCount
    BY DEF RemoveHit
  <1>4. /\ item' \in [0 .. reservedCount'-1 -> Slots]
        /\ itemCount' \in Nat /\ itemCount' <= reservedCount'
        /\ reservedCount' \in Nat /\ reservedCount' <= MaxCapacity
    BY <1>1, <1>2, <1>3 DEF Removed
  <1>5. open' \in BOOLEAN /\ (~open' => reservedCount' = 0)
    BY <1>2, <1>3, Zenon
  <1>6. \A i \in 0 .. itemCount-2 :
          item'[i] = IF i < probe THEN item[i] ELSE item[i+1]
    BY <1>1, <1>3 DEF Removed
  <1>7. Sorted'
    <2> SUFFICES ASSUME NEW i \in 0 .. itemCount-2, NEW j \in 0 .. itemCount-2, i < j
                 PROVE  item'[i].key < item'[j].key
      BY <1>1, <1>3 DEF Sorted
    <2>1. \A m, n \in 0 .. itemCount-1 : m < n => item[m].key < item[n].key
      BY DEF Inv, Sorted
    <2>2. CASE j < probe
      BY <1>1, <1>6, <2>1, <2>2
    <2>3. CASE i < probe /\ probe <= j
      <3>1. item'[i] = item[i] /\ item'[j] = item[j+1]
        BY <1>1, <1>6, <2>3
      <3> QED BY <1>1, <2>1, <2>3, <3>1
    <2>4. CASE probe <= i
      <3>1. item'[i] = item[i+1] /\ item'[j] = item[j+1]
        BY <1>1, <1>6, <2>4
      <3> QED BY <1>1, <2>1, <2>4, <3>1
    <2> QED BY <1>1, <2>2, <2>3, <2>4
  <1> QED BY <1>3, <1>4, <1>5, <1>7, ReturnKeepsInv

LEMMA ModifyHitInv ==
  ASSUME Inv, ModifyHit
  PROVE  Inv'
  <1>0. ~Idle /\ left < right /\ call.op = "modify"
    BY DEF ModifyHit, Hit, Searching
  <1>1. /\ itemCount \in Nat /\ reservedCount \in Nat /\ probe \in Nat
        /\ probe < itemCount /\ itemCount <= reservedCount
        /\ reservedCount <= MaxCapacity
    BY <1>0, SearchFacts
  <1>2. /\ item \in [0 .. reservedCount-1 -> Slots]
        /\ open \in BOOLEAN /\ (~open => reservedCount = 0)
        /\ call.data \in Data
    BY <1>0 DEF Inv, TypeOK, Capacity
  <1>3. /\ item' = [item EXCEPT ![probe].data = call.data]
        /\ Return("modify", call.key, TRUE, NoOut)
        /\ open' = open /\ reservedCount' = reservedCount /\ itemCount' = itemCount
    BY DEF ModifyHit
  <1>4. item' \in [0 .. reservedCount'-1 -> Slots]
    BY <1>1, <1>2, <1>3 DEF Slots
  <1>5. \A i \in 0 .. itemCount-1 : item'[i].key = item[i].key
    BY <1>1, <1>2, <1>3 DEF Slots
  <1>6. Sorted'
    BY <1>3, <1>5 DEF Inv, Sorted
  <1>7. open' \in BOOLEAN /\ (~open' => reservedCount' = 0)
    BY <1>2, <1>3, Zenon
  <1>8. /\ reservedCount' \in Nat /\ itemCount' \in Nat
        /\ itemCount' <= reservedCount' /\ reservedCount' <= MaxCapacity
    BY <1>1, <1>3
  <1> QED BY <1>3, <1>4, <1>6, <1>7, <1>8, ReturnKeepsInv
-----------------------------------------------------------------------------
LEMMA BeginInv ==
  ASSUME Inv, Begin
  PROVE  Inv'
  <1>1. CASE \E k \in Keys, d \in Data : InsertString(k, d) \/ InsertUInt(k, d)
    <2> PICK k \in Keys, d \in Data : BeginInsert(k, d)
      BY <1>1 DEF InsertString, InsertUInt
    <2> QED BY BeginInsertInv
  <1>2. CASE \E k \in Keys, d \in Data : ModifyString(k, d) \/ ModifyUInt(k, d)
    <2> PICK k \in Keys, d \in Data : BeginLookup("modify", k, d)
      BY <1>2 DEF ModifyString, ModifyUInt
    <2>1. "modify" \in SearchOps \ {"insert"}
      BY DEF SearchOps
    <2> QED BY <2>1, BeginLookupInv
  <1>3. CASE \E k \in Keys : \/ RemoveString(k) \/ RetrieveString(k) \/ FindString(k)
                            \/ RemoveUInt(k) \/ RetrieveUInt(k) \/ FindUInt(k)
    <2> PICK k \in Keys, op \in {"remove", "retrieve", "findindex"} :
               BeginLookup(op, k, NoOut)
      BY <1>3 DEF RemoveString, RetrieveString, FindString, RemoveUInt, RetrieveUInt, FindUInt
    <2>1. op \in SearchOps \ {"insert"} /\ op # "modify"
      BY DEF SearchOps
    <2> QED BY <2>1, BeginLookupInv
  <1> QED BY <1>1, <1>2, <1>3 DEF Begin

LEMMA FinishInv ==
  ASSUME Inv, Finish
  PROVE  Inv'
  <1>1. CASE InsertHit
    BY <1>1, ReturnUnchanged DEF InsertHit
  <1>2. CASE RetrieveHit
    BY <1>2, ReturnUnchanged DEF RetrieveHit
  <1>3. CASE FindHit
    BY <1>3, ReturnUnchanged DEF FindHit
  <1>4. CASE LookupMiss
    BY <1>4, ReturnUnchanged DEF LookupMiss, NotFound
  <1> QED BY <1>1, <1>2, <1>3, <1>4, RemoveHitInv, ModifyHitInv, InsertMissInv DEF Finish

LEMMA NextInv == Inv /\ [Next]_vars => Inv'
  <1> SUFFICES ASSUME Inv, [Next]_vars PROVE Inv'
    OBVIOUS
  <1>1. CASE UNCHANGED vars
    <2>1. /\ UNCHANGED <<kind, open, reservedCount, itemCount, item>>
          /\ UNCHANGED <<call, left, right, probe, reply>>
      BY <1>1 DEF vars, list, search
    <2>2. TypeOK' /\ Capacity' /\ Sorted'
      BY <2>1 DEF Inv, TypeOK, Capacity, Sorted
    <2>3. SearchBracket'
      BY <2>1 DEF Inv, SearchBracket, Idle, Usable
    <2> QED BY <2>2, <2>3 DEF Inv
  <1>2. CASE Next
    BY <1>2, CreateInv, FreeInv, ReleaseUnusedInv, BeginInv, ProbeInv, FinishInv DEF Next
  <1> QED BY <1>1, <1>2

(* The invariant of the list and of the search holds in every state.       *)
THEOREM Invariance == Spec => []Inv
  BY InitInv, NextInv, PTL DEF Spec

(* Every variable keeps its type and every slot in use stays allocated.    *)
THEOREM TypeCorrect == Spec => []TypeOK
  <1>1. Inv => TypeOK
    BY DEF Inv
  <1> QED BY <1>1, Invariance, PTL

THEOREM CapacityHolds == Spec => []Capacity
  <1>1. Inv => Capacity
    BY DEF Inv
  <1> QED BY <1>1, Invariance, PTL

(* "Inserts data, sorted by key": at every moment, for any number of keys. *)
THEOREM AlwaysSorted == Spec => []Sorted
  <1>1. Inv => Sorted
    BY DEF Inv
  <1> QED BY <1>1, Invariance, PTL

(* The binary search never loses the key it looks for.                     *)
THEOREM SearchIsSound == Spec => []SearchBracket
  <1>1. Inv => SearchBracket
    BY DEF Inv
  <1> QED BY <1>1, Invariance, PTL

(* Each pass of the search loop shrinks the interval it searches.          *)
THEOREM SearchShrinks == Spec => SearchProgress
  <1> DEFINE Shrinks == ~Idle /\ ~Idle' => right' - left' < right - left
  <1>1. Inv /\ [Next]_vars => [Shrinks]_vars
    <2> SUFFICES ASSUME Inv, Next, ~Idle, ~Idle'
                 PROVE  right' - left' < right - left
      OBVIOUS
    <2>1. Probe
      <3>1. ~(\E n \in ReserveCounts : Create(n)) /\ ~Free /\ ~ReleaseUnused
        BY DEF Create, Free, ReleaseUnused
      <3>2. ~Begin
        BY DEF Begin, InsertString, InsertUInt, ModifyString, ModifyUInt,
               RemoveString, RetrieveString, FindString, RemoveUInt, RetrieveUInt, FindUInt,
               BeginInsert, BeginLookup
      <3>3. Finish => call' = NoCall
        BY DEF Finish, InsertHit, RemoveHit, RetrieveHit, ModifyHit, FindHit,
               InsertMiss, LookupMiss, NotFound, Return
      <3>4. ~Finish
        BY <3>3 DEF Idle, NoCall
      <3> QED BY <3>1, <3>2, <3>4 DEF Next
    <2>2. /\ left \in Nat /\ right \in Nat /\ probe \in Nat
          /\ left <= probe /\ probe < right
      BY <2>1, SearchFacts DEF Probe, Searching
    <2>3. \/ left' = left /\ right' = probe
          \/ left' = probe + 1 /\ right' = right
      BY <2>1 DEF Probe, Narrow
    <2> QED BY <2>2, <2>3
  <1> QED BY <1>1, Invariance, PTL DEF Spec, SearchProgress
=============================================================================
