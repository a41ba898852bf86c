------------------------------ MODULE KeyArray ------------------------------
(***************************************************************************)
(* One sorted key array of keyarray.h (origotoc.peg 52-1114), both the     *)
(* string-keyed and the unsigned-keyed family of macros.  The list is an   *)
(* array with spare capacity; every lookup is the same binary search, run  *)
(* here one iteration per step.  Memory is allocated at the points where   *)
(* the code allocates it and any allocation may fail.                      *)
(*                                                                         *)
(* A key is a number: its rank under strcmp, or its value when unsigned.   *)
(* Ownership of the blocks behind the pointers is the subject of KeyHeap.  *)
(***************************************************************************)
EXTENDS Integers, FiniteSets

CONSTANTS
  Keys,          (* Keys a caller may pass; EmptyKey stands for "".        *)
  Data,          (* Payloads a caller may store.                           *)
  NoOut,         (* No data.                                               *)
  ReserveCounts, (* Values passed to the create function.                  *)
  GrowBy,        (* Slots added when the array is full (8 in the code).    *)
  UIntMod,       (* 2^w, w the width of unsigned.                          *)
  MaxCapacity    (* More slots than this never fit in memory.              *)

EmptyKey == 0

ASSUME KeysAssumption == Keys \subseteq Nat
ASSUME DataAssumption == NoOut \notin Data
ASSUME SizeAssumption ==
  /\ ReserveCounts \subseteq Nat
  /\ GrowBy \in Nat \ {0}
  /\ MaxCapacity \in Nat
  /\ UIntMod \in Nat
  /\ GrowBy < UIntMod
(* left + right cannot wrap.  With 32-bit addresses a slot takes at least  *)
(* two bytes, so fewer than 2^31 fit; with 64-bit addresses this is the    *)
(* assumption that no list has 2^31 slots, 32 GB of them.                  *)
ASSUME MemoryAssumption == 2 * MaxCapacity < UIntMod

VARIABLES
  kind,          (* Which family: "string" or "uint".                      *)
  open,          (* The list pointer is not NULL.                          *)
  reservedCount, (* Slots allocated; item is NULL when it is 0.            *)
  itemCount,     (* Slots in use, the first ones.                          *)
  item,          (* The slots 0 .. reservedCount-1.                        *)
  call,          (* The call in progress, op "none" when there is none.    *)
  left, right,   (* leftIndex, rightIndex of the search.                   *)
  probe,         (* insertIndex, removeIndex, ... of the search.           *)
  reply          (* What the last call returned, none while one runs.       *)

list   == <<open, reservedCount, itemCount, item>>
search == <<call, left, right, probe>>
vars   == <<kind, list, search, reply>>

SearchOps == {"insert", "remove", "retrieve", "modify", "findindex"}

(* A slot past itemCount may hold anything; no step reads one, so one      *)
(* value stands for what is left there.                                    *)
Blank == [key |-> EmptyKey, data |-> NoOut]
Slots == [key : Keys \cup {EmptyKey}, data : Data \cup {NoOut}]
NoCall == [op |-> "none", key |-> EmptyKey, data |-> NoOut]

Idle == call.op = "none"
Answer(op, k, ok, out) == [op |-> op, key |-> k, ok |-> ok, out |-> out]
Pending == Answer("none", 0, FALSE, NoOut)

(* The sum of two unsigned numbers is reduced modulo 2^w, then halved.     *)
Wrap(n) == IF n < UIntMod THEN n ELSE n - UIntMod
Midpoint(l, r) == Wrap(l + r) \div 2

(* String functions refuse the empty key; unsigned ones take every key.    *)
Usable(k) == kind = "string" => k # EmptyKey

Return(op, k, ok, out) ==
  /\ reply' = Answer(op, k, ok, out)
  /\ call' = NoCall
  /\ left' = 0 /\ right' = 0 /\ probe' = 0
  /\ UNCHANGED kind

(* Remove returns nothing, so it has no failure to report.                 *)
NotFound(op, k) ==
  Return(op, k, op = "remove", IF op = "findindex" THEN -1 ELSE NoOut)

(* Mutant of StartSearch: the upper bound taken as inclusive.              *)
StartSearchInclusive(op, k, d) ==
  /\ call' = [op |-> op, key |-> k, data |-> d]
  /\ left' = 0
  /\ right' = itemCount - 1
  /\ probe' = itemCount \div 2
  /\ reply' = Pending
  /\ UNCHANGED kind

StartSearch(op, k, d) ==
  /\ call' = [op |-> op, key |-> k, data |-> d]
  /\ left' = 0
  /\ right' = itemCount
  /\ probe' = itemCount \div 2
  /\ reply' = Pending
  /\ UNCHANGED kind

Resized(n) == [i \in 0 .. n-1 |-> IF i < reservedCount THEN item[i] ELSE Blank]
-----------------------------------------------------------------------------
Init ==
  /\ kind \in {"string", "uint"}
  /\ open = FALSE
  /\ reservedCount = 0
  /\ itemCount = 0
  /\ item = [i \in 0 .. -1 |-> Blank]
  /\ call = NoCall
  /\ left = 0 /\ right = 0 /\ probe = 0
  /\ reply = Pending

(* calloc of the list, then of its slots; either may fail.                 *)
Create(n) ==
  /\ Idle
  /\ ~open
  /\ \/ /\ n <= MaxCapacity
        /\ open' = TRUE
        /\ reservedCount' = n
        /\ item' = [i \in 0 .. n-1 |-> Blank]
        /\ Return("create", 0, TRUE, NoOut)
        /\ UNCHANGED itemCount
     \/ /\ Return("create", 0, FALSE, NoOut)
        /\ UNCHANGED list

Free ==
  /\ Idle
  /\ open' = FALSE
  /\ reservedCount' = 0
  /\ itemCount' = 0
  /\ item' = [i \in 0 .. -1 |-> Blank]
  /\ Return("free", 0, TRUE, NoOut)

(* Mutant of Grown: the array is resized to its old size.                  *)
GrownByNothing == reservedCount

(* The unsigned count of slots after growing, and when realloc may give    *)
(* them: not when the count wrapped, not beyond memory.                    *)
Grown == Wrap(reservedCount + GrowBy)
CanGrow == Grown >= reservedCount /\ Grown <= MaxCapacity

(* The head of insert: its early returns, the growth of a full array, and  *)
(* the start of the search.  The array stays grown even when the key turns *)
(* out to be a duplicate.                                                  *)
BeginInsert(k, d) ==
  /\ Idle
  /\ \/ /\ ~open \/ ~Usable(k)
        /\ Return("insert", k, FALSE, NoOut)
        /\ UNCHANGED list
     \/ /\ open /\ Usable(k)
        /\ itemCount # reservedCount
        /\ StartSearch("insert", k, d)
        /\ UNCHANGED list
     \/ /\ open /\ Usable(k)
        /\ itemCount = reservedCount
        /\ CanGrow
        /\ reservedCount' = Grown
        /\ item' = Resized(Grown)
        /\ StartSearch("insert", k, d)
        /\ UNCHANGED <<open, itemCount>>
     \/ /\ open /\ Usable(k)
        /\ itemCount = reservedCount
        /\ Return("insert", k, FALSE, NoOut)
        /\ UNCHANGED list

(* The head of the other four: NULL list, NULL slots or empty key fail.    *)
BeginLookup(op, k, d) ==
  /\ Idle
  /\ UNCHANGED list
  /\ IF open /\ reservedCount # 0 /\ Usable(k)
     THEN StartSearch(op, k, d)
     ELSE NotFound(op, k)

InsertString(k, d) == kind = "string" /\ BeginInsert(k, d)
InsertUInt(k, d)   == kind = "uint"   /\ BeginInsert(k, d)
RemoveString(k)    == kind = "string" /\ BeginLookup("remove", k, NoOut)
RemoveUInt(k)      == kind = "uint"   /\ BeginLookup("remove", k, NoOut)
RetrieveString(k)  == kind = "string" /\ BeginLookup("retrieve", k, NoOut)
RetrieveUInt(k)    == kind = "uint"   /\ BeginLookup("retrieve", k, NoOut)
ModifyString(k, d) == kind = "string" /\ BeginLookup("modify", k, d)
ModifyUInt(k, d)   == kind = "uint"   /\ BeginLookup("modify", k, d)
FindString(k)      == kind = "string" /\ BeginLookup("findindex", k, NoOut)
FindUInt(k)        == kind = "uint"   /\ BeginLookup("findindex", k, NoOut)
-----------------------------------------------------------------------------
Searching == ~Idle /\ left < right
Hit == Searching /\ item[probe].key = call.key
Miss == ~Idle /\ left >= right

Narrow(l, r) ==
  /\ left' = l
  /\ right' = r
  /\ probe' = Midpoint(l, r)
  /\ UNCHANGED <<kind, list, call, reply>>

(* Mutants of Probe: the interval that stops shrinking, the upper bound    *)
(* lost, the interval cut one too short, the comparison with its operands  *)
(* swapped.                                                                *)
ProbeStuck ==
  /\ Searching /\ ~Hit
  /\ IF item[probe].key > call.key THEN Narrow(left, probe) ELSE Narrow(probe, right)
ProbeForgetful ==
  /\ Searching /\ ~Hit
  /\ IF item[probe].key > call.key THEN Narrow(left, probe) ELSE Narrow(probe + 1, itemCount)
ProbeShort ==
  /\ Searching /\ ~Hit
  /\ IF item[probe].key > call.key THEN Narrow(left, probe - 1) ELSE Narrow(probe + 1, right)
ProbeSwapped ==
  /\ Searching /\ ~Hit
  /\ IF item[probe].key < call.key THEN Narrow(left, probe) ELSE Narrow(probe + 1, right)

(* An iteration of the search loop that does not find the key.             *)
Probe ==
  /\ Searching /\ ~Hit
  /\ IF item[probe].key > call.key THEN Narrow(left, probe) ELSE Narrow(probe + 1, right)

(* Insert finds the key: duplicate.                                        *)
InsertHit ==
  /\ call.op = "insert" /\ Hit
  /\ Return("insert", call.key, FALSE, NoOut)
  /\ UNCHANGED list

(* Mutant of Inserted: memcpy for memmove, an ascending copy smears one    *)
(* slot over all that follow.                                              *)
InsertedSmeared(at, slot) ==
  [i \in 0 .. reservedCount-1 |->
     IF i = at THEN slot
     ELSE IF at < i /\ i <= itemCount THEN item[at]
     ELSE item[i]]

(* The slots from at on move one up; the new one goes to at.               *)
Inserted(at, slot) ==
  [i \in 0 .. reservedCount-1 |->
     IF i = at THEN slot
     ELSE IF at < i /\ i <= itemCount THEN item[i-1]
     ELSE item[i]]

(* Insert does not find the key: a string list first allocates its own     *)
(* copy of the key.                                                        *)
InsertMiss ==
  /\ call.op = "insert" /\ Miss
  /\ \/ /\ item' = Inserted(probe, [key |-> call.key, data |-> call.data])
        /\ itemCount' = itemCount + 1
        /\ Return("insert", call.key, TRUE, NoOut)
        /\ UNCHANGED <<open, reservedCount>>
     \/ /\ kind = "string"
        /\ Return("insert", call.key, FALSE, NoOut)
        /\ UNCHANGED list

(* Mutant of Removed: a memcpy that copies descending.                     *)
RemovedDescending(at) ==
  [i \in 0 .. reservedCount-1 |->
     IF at <= i /\ i < itemCount-1 THEN item[itemCount-1]
     ELSE IF i = itemCount-1 THEN Blank
     ELSE item[i]]

(* The slots after at move one down and the last one is zeroed.  The code  *)
(* calls memcpy on overlapping slots here; the C run-time of the build     *)
(* copies ascending, so each slot gets its right neighbour.                *)
Removed(at) ==
  [i \in 0 .. reservedCount-1 |->
     IF at <= i /\ i < itemCount-1 THEN item[i+1]
     ELSE IF i = itemCount-1 THEN Blank
     ELSE item[i]]

RemoveHit ==
  /\ call.op = "remove" /\ Hit
  /\ item' = Removed(probe)
  /\ itemCount' = itemCount - 1
  /\ Return("remove", call.key, TRUE, NoOut)
  /\ UNCHANGED <<open, reservedCount>>

RetrieveHit ==
  /\ call.op = "retrieve" /\ Hit
  /\ Return("retrieve", call.key, TRUE, item[probe].data)
  /\ UNCHANGED list

ModifyHit ==
  /\ call.op = "modify" /\ Hit
  /\ item' = [item EXCEPT ![probe].data = call.data]
  /\ Return("modify", call.key, TRUE, NoOut)
  /\ UNCHANGED <<open, reservedCount, itemCount>>

FindHit ==
  /\ call.op = "findindex" /\ Hit
  /\ Return("findindex", call.key, TRUE, probe)
  /\ UNCHANGED list

(* The other four return failure when the loop ends.                       *)
LookupMiss ==
  /\ call.op # "insert" /\ Miss
  /\ NotFound(call.op, call.key)
  /\ UNCHANGED list

(* Give back spare slots: shrinking may fail and change nothing; a list    *)
(* without items drops its slots altogether.                               *)
ReleaseUnused ==
  /\ Idle
  /\ Return("releaseunused", 0, TRUE, NoOut)
  /\ \/ /\ open /\ itemCount # 0
        /\ reservedCount' = itemCount
        /\ item' = Resized(itemCount)
        /\ UNCHANGED <<open, itemCount>>
     \/ /\ open /\ itemCount = 0
        /\ reservedCount' = 0
        /\ item' = Resized(0)
        /\ UNCHANGED <<open, itemCount>>
     \/ /\ ~open \/ itemCount # 0
        /\ UNCHANGED list

Begin ==
  \/ \E k \in Keys, d \in Data :
       InsertString(k, d) \/ InsertUInt(k, d) \/ ModifyString(k, d) \/ ModifyUInt(k, d)
  \/ \E k \in Keys :
       \/ RemoveString(k) \/ RetrieveString(k) \/ FindString(k)
       \/ RemoveUInt(k) \/ RetrieveUInt(k) \/ FindUInt(k)

Finish ==
  \/ InsertHit \/ RemoveHit \/ RetrieveHit \/ ModifyHit \/ FindHit
  \/ InsertMiss \/ LookupMiss

Next ==
  \/ \E n \in ReserveCounts : Create(n)
  \/ Free
  \/ ReleaseUnused
  \/ Begin
  \/ Probe
  \/ Finish

(* A function that was called runs until it returns.                       *)
Fairness == WF_vars(Probe \/ Finish)

Spec == Init /\ [][Next]_vars /\ Fairness
-----------------------------------------------------------------------------
(* Types of the variables, and what a search in progress has established.  *)
TypeOK ==
  /\ kind \in {"string", "uint"}
  /\ open \in BOOLEAN
  /\ reservedCount \in Nat
  /\ itemCount \in Nat
  /\ item \in [0 .. reservedCount-1 -> Slots]
  /\ call \in [op : SearchOps, key : Keys, data : Data \cup {NoOut}] \cup {NoCall}
  /\ call.op \in {"insert", "modify"} => call.data \in Data
  /\ left \in Nat /\ right \in Nat /\ probe \in Nat
  /\ reply.ok \in BOOLEAN

(* The counts describe the memory: the slots in use are allocated, a NULL  *)
(* list has none, and an insert that got past its growth step has a free   *)
(* slot, so the memmove that opens the gap stays inside the block          *)
(* (origotoc.peg 361-374 before 405).                                      *)
Capacity ==
  /\ itemCount <= reservedCount
  /\ reservedCount <= MaxCapacity
  /\ ~open => reservedCount = 0
  /\ call.op = "insert" => itemCount < reservedCount

(* The keys in use ascend strictly: "Inserts data, sorted by key", each    *)
(* key once, after any sequence of inserts, removals and shrinks.          *)
Sorted ==
  \A i, j \in 0 .. itemCount-1 : i < j => item[i].key < item[j].key

(* The binary search keeps the key bracketed: everything left of left is   *)
(* smaller, everything from right on is larger, and the probe stays inside *)
(* the slots in use while the loop runs.                                   *)
SearchBracket ==
  ~Idle =>
    /\ open
    /\ Usable(call.key)
    /\ left <= right /\ right <= itemCount
    /\ probe = (left + right) \div 2
    /\ \A i \in 0 .. left-1 : item[i].key < call.key
    /\ \A i \in right .. itemCount-1 : call.key < item[i].key

(* Each pass of the loop either ends the call or shrinks the interval.     *)
SearchProgress ==
  [][~Idle /\ ~Idle' => right' - left' < right - left]_vars

(* An index from findindex stays good until a key at or before it comes or *)
(* goes: no lookup, update, shrink or failed call moves an item.           *)
IndexStable ==
  [][\A i \in 0 .. itemCount-1 :
       \/ i < itemCount' /\ item'[i].key = item[i].key
       \/ reply'.op = "free"
       \/ reply'.op = "insert" /\ reply'.ok /\ reply'.key < item[i].key
       \/ reply'.op = "remove" /\ reply'.key <= item[i].key]_vars

(* Every call returns.                                                     *)
Termination == ~Idle ~> Idle

(* The list implements a finite map whose calls take effect at the step    *)
(* that returns.                                                           *)
Lookup(k) == CHOOSE i \in 0 .. itemCount-1 : item[i].key = k
Contents ==
  [k \in {item[i].key : i \in 0 .. itemCount-1} |-> item[Lookup(k)].data]

Map == INSTANCE KeyMap WITH map <- Contents
MapSpec == Map!Spec
=============================================================================
