------------------------------ MODULE KeyHeap ------------------------------
(***************************************************************************)
(* Who owns which heap block in the string-keyed lists of keyarray.h       *)
(* (origotoc.peg 283-417, 419-474, 604-712), as the symbol tables of the   *)
(* program instantiate them (1497-1520).  A list is a header that points   *)
(* to an item array, whose slots point to their own copies of the keys.    *)
(* Every allocation may fail and every realloc may move its block.         *)
(*                                                                         *)
(* The search itself is KeyArray's subject: a call here runs to its end in *)
(* one step, and data is left out, for its copy and release functions own  *)
(* no memory (FreeSymbol and CopySymbol are empty).                        *)
(***************************************************************************)
EXTENDS Integers, Sequences, FiniteSets, SequencesExt

CONSTANTS
  Blocks,        (* Addresses malloc may return.                           *)
  Null,          (* The NULL pointer.                                      *)
  Malloc(_),     (* The addresses the allocator may pick of those free.    *)
  Lists,         (* The variables that hold list pointers.                 *)
  Keys,          (* Nonempty strings, numbered in the order of strcmp.     *)
  ReserveCounts, (* Values passed to the create function.                  *)
  GrowBy,        (* Slots added when the array is full (8 in the code).    *)
  CopyResults    (* What the copy function returns; CopySymbol: only 0.    *)

ASSUME BlocksAssumption == Null \notin Blocks
ASSUME MallocAssumption == \A F \in SUBSET Blocks : Malloc(F) \subseteq F
ASSUME KeysAssumption == Keys \subseteq Nat \ {0}
ASSUME SizeAssumption == ReserveCounts \subseteq Nat /\ GrowBy \in Nat \ {0}

VARIABLES
  heap,      (* The allocated blocks, each with its use and what it holds. *)
  list,      (* What each list variable points to.                         *)
  undefined  (* free or realloc was given a pointer that is not allocated. *)

vars == <<heap, list, undefined>>

(* A key block holds its string, an item array its number of slots.        *)
Block(use, holds) == [use |-> use, holds |-> holds]
Header == Block("header", 0)

(* The heap with one more block.                                           *)
Put(b, block, blocks) ==
  [x \in {b} \cup DOMAIN blocks |-> IF x = b THEN block ELSE blocks[x]]

(* The key pointers of the slots in use are a sequence, in slot order.     *)
NoList == [header |-> Null, items |-> Null, reserved |-> 0, keys |-> <<>>]

Allocated == DOMAIN heap
Fresh == Blocks \ Allocated
IsOpen(t) == list[t].header # Null
Name(b) == heap[b].holds
Holds(t, k) == \E b \in ToSet(list[t].keys) : Name(b) = k
Position(t, k) == Cardinality({b \in ToSet(list[t].keys) : Name(b) < k}) + 1

(* Free these pointers in turn; free ignores NULL.  It is defined when     *)
(* each is allocated and none comes twice.                                 *)
Without(ptrs) == [b \in Allocated \ ToSet(ptrs) |-> heap[b]]
Defined(ptrs) ==
  \A i \in DOMAIN ptrs : ptrs[i] # Null =>
    /\ ptrs[i] \in Allocated
    /\ \A j \in 1 .. i-1 : ptrs[j] # ptrs[i]
Release(ptrs) ==
  /\ heap' = Without(ptrs)
  /\ undefined' = ~Defined(ptrs)

(* realloc of an array of n slots gives back the block itself or another,  *)
(* freeing the old one.                                                    *)
Resized(b, i, n) == Put(i, Block("items", n), Without(<<b>>))
Moves(b) == Malloc(Fresh) \cup ({b} \ {Null})
-----------------------------------------------------------------------------
Init ==
  /\ heap = <<>>
  /\ list = [t \in Lists |-> NoList]
  /\ undefined = FALSE

(* calloc of the header, then of the slots if any are asked for.  When the *)
(* second fails the first is freed, and nothing has changed.               *)
CreateList(t, n) ==
  /\ ~undefined /\ ~IsOpen(t)
  /\ \E h \in Malloc(Fresh) : \E i \in IF n = 0 THEN {Null} ELSE Malloc(Fresh \ {h}) :
       /\ heap' = IF n = 0 THEN Put(h, Header, heap)
                    ELSE Put(i, Block("items", n), Put(h, Header, heap))
       /\ list' = [list EXCEPT ![t] = [header |-> h, items |-> i, reserved |-> n, keys |-> <<>>]]
  /\ UNCHANGED undefined

(* Mutant of Disposed: the keys are forgotten.                             *)
DisposedHeader(t) == <<list[t].header>>

(* What the free function frees: keys and header, not the item array.      *)
Disposed(t) == list[t].keys \o <<list[t].header>>

FreeList(t) ==
  /\ ~undefined /\ IsOpen(t)
  /\ Release(Disposed(t))
  /\ list' = [list EXCEPT ![t] = NoList]

(* A full array is grown first, and stays grown when the key is there      *)
(* already or its copy cannot be allocated.                                *)
InsertItem(t, k) ==
  /\ ~undefined /\ IsOpen(t)
  /\ LET old == list[t]
         full == Len(old.keys) = old.reserved
         reserved == IF full THEN old.reserved + GrowBy ELSE old.reserved
     IN \E i \in IF full THEN Moves(old.items) ELSE {old.items} :
          LET grown == IF full THEN Resized(old.items, i, reserved) ELSE heap
              kept == [old EXCEPT !.items = i, !.reserved = reserved]
          IN /\ undefined' = (full /\ ~Defined(<<old.items>>))
             /\ \/ /\ heap' = grown
                   /\ list' = [list EXCEPT ![t] = kept]
                \/ /\ ~Holds(t, k)
                   /\ \E b \in Malloc(Blocks \ DOMAIN grown) :
                        /\ heap' = Put(b, Block("key", k), grown)
                        /\ list' = [list EXCEPT ![t] =
                             [kept EXCEPT !.keys = InsertAt(@, Position(t, k), b)]]

(* Mutant of RemoveItem: the slot of the freed key is cleared but stays.   *)
RemoveInPlace(t, k) ==
  /\ ~undefined /\ Holds(t, k)
  /\ LET at == Position(t, k)
     IN /\ Release(<<list[t].keys[at]>>)
        /\ list' = [list EXCEPT ![t].keys[at] = Null]

RemoveItem(t, k) ==
  /\ ~undefined /\ Holds(t, k)
  /\ LET at == Position(t, k)
     IN /\ Release(<<list[t].keys[at]>>)
        /\ list' = [list EXCEPT ![t].keys = RemoveAt(@, at)]

(* Mutant of Shrunk: the count is lowered before the realloc can fail.     *)
ShrunkEarly(t) ==
  LET old == list[t]
  IN \E i \in Moves(old.items) :
       /\ list' = [list EXCEPT ![t].reserved = Len(old.keys)]
       /\ UNCHANGED <<heap, undefined>>

Shrunk(t) ==
  LET old == list[t]
  IN \E i \in Moves(old.items) :
       /\ heap' = Resized(old.items, i, Len(old.keys))
       /\ list' = [list EXCEPT ![t].items = i, ![t].reserved = Len(old.keys)]
       /\ undefined' = ~Defined(<<old.items>>)

(* Mutant of Emptied: the pointer to the freed array stays.                *)
EmptiedStale(t) ==
  /\ Release(<<list[t].items>>)
  /\ list' = [list EXCEPT ![t].reserved = 0]

Emptied(t) ==
  /\ Release(<<list[t].items>>)
  /\ list' = [list EXCEPT ![t].items = Null, ![t].reserved = 0]

(* Spare slots are given back; a failing realloc changes nothing.  Without *)
(* items the whole array is freed.                                         *)
ReleaseUnused(t) ==
  /\ ~undefined /\ IsOpen(t)
  /\ IF list[t].keys # <<>> THEN Shrunk(t) ELSE Emptied(t)

(* Mutant of Duplicates: the pointers are copied, not the strings.         *)
SharedKeys(keys, from) == {keys}

(* Blocks the strings of these keys may be copied to.                      *)
Duplicates(keys, from) ==
  {f \in [1 .. Len(keys) -> from] :
     \A n \in DOMAIN f : f[n] \in Malloc(from \ {f[m] : m \in 1 .. n-1})}

(* The heap with the strings of these keys in these blocks as well.        *)
WithCopies(keys, copies) ==
  [b \in Allocated \cup Range(copies) |->
     IF b \in Allocated THEN heap[b]
     ELSE Block("key", Name(keys[CHOOSE n \in DOMAIN copies : copies[n] = b]))]

CopyEmpty(s, t) ==
  /\ list[s].keys = <<>>
  /\ \E h \in Malloc(Fresh) :
       /\ heap' = Put(h, Header, heap)
       /\ list' = [list EXCEPT ![t] = [NoList EXCEPT !.header = h]]
  /\ UNCHANGED undefined

(* Every item is copied: the copy function must not return 0.              *)
CopyAll(s, t) ==
  /\ CopyResults # {0}
  /\ list[s].keys # <<>>
  /\ \E h \in Malloc(Fresh) : \E i \in Malloc(Fresh \ {h}) :
       \E copies \in Duplicates(list[s].keys, Fresh \ {h, i}) :
         /\ heap' = Put(h, Header, Put(i, Block("items", list[s].reserved),
                                        WithCopies(list[s].keys, copies)))
         /\ list' = [list EXCEPT ![t] = [header |-> h, items |-> i,
                        reserved |-> list[s].reserved, keys |-> copies]]
  /\ UNCHANGED undefined

(* The copy function returns 0, or a key cannot be allocated, at some      *)
(* item.  The error path frees the key pointer of every slot, those not    *)
(* yet filled included: the array came from malloc, so they hold whatever  *)
(* was there.  Were they NULL, the keys copied so far and the header are   *)
(* freed and the item array stays; were they anything else, free is given  *)
(* a pointer malloc never returned.                                        *)
CopyFails(s, t) ==
  /\ list[s].keys # <<>>
  /\ \E h \in Malloc(Fresh) : \E i \in Malloc(Fresh \ {h}) :
       /\ heap' = Put(i, Block("items", list[s].reserved), heap)
       /\ undefined' \in BOOLEAN
  /\ UNCHANGED list

(* A new list for t with copies of the items of s.                         *)
CopyList(s, t) ==
  /\ ~undefined /\ IsOpen(s) /\ ~IsOpen(t)
  /\ CopyEmpty(s, t) \/ CopyAll(s, t) \/ CopyFails(s, t)

Next ==
  \E t \in Lists :
    \/ \E n \in ReserveCounts : CreateList(t, n)
    \/ FreeList(t)
    \/ \E k \in Keys : InsertItem(t, k) \/ RemoveItem(t, k)
    \/ ReleaseUnused(t)
    \/ \E s \in Lists \ {t} : CopyList(s, t)

Spec == Init /\ [][Next]_vars
-----------------------------------------------------------------------------
TypeOK ==
  /\ Allocated \subseteq Blocks
  /\ heap \in [Allocated -> [use : {"header", "items", "key"}, holds : Nat]]
  /\ list \in [Lists -> [header : Blocks \cup {Null}, items : Blocks \cup {Null},
                         reserved : Nat, keys : Seq(Blocks)]]
  /\ undefined \in BOOLEAN

Owned(t) == ({list[t].header, list[t].items} \cup ToSet(list[t].keys)) \ {Null}

(* No list points to a freed block, no two pointers to the same block: so  *)
(* neither a realloc that moves the array, a removal nor a copy leaves two *)
(* owners, and freeing one list never takes a key from another.            *)
ExclusiveOwnership ==
  ~undefined =>
    /\ \A t \in Lists :
         /\ Owned(t) \subseteq Allocated
         /\ list[t].header # Null => heap[list[t].header].use = "header"
         /\ list[t].items # Null => heap[list[t].items].use = "items"
         /\ \A b \in ToSet(list[t].keys) : b \in Allocated /\ heap[b].use = "key"
         /\ IsInjective(list[t].keys)
    /\ \A t, u \in Lists : t # u => Owned(t) \cap Owned(u) = {}

(* The count of slots kept in the header is that of the block, whichever   *)
(* realloc failed, and the items fit in it: an insert never writes past    *)
(* the block.                                                              *)
SlotsFit ==
  ~undefined =>
    \A t \in Lists :
      /\ Len(list[t].keys) <= list[t].reserved
      /\ list[t].items = Null <=> list[t].reserved = 0
      /\ list[t].items \in Allocated => heap[list[t].items].holds = list[t].reserved

(* Nothing but item arrays is ever lost: every header and every key block  *)
(* is reachable from a list until it is freed.                             *)
OnlyItemsLeak ==
  ~undefined =>
    \A b \in Allocated \ UNION {Owned(t) : t \in Lists} : heap[b].use = "items"

(* A call that changes a list frees and resizes only what is allocated,    *)
(* and frees it once.                                                      *)
FreesAreDefined == [][list' # list => ~undefined']_vars

(* "NULL = allocate/etc failure. freeDataFunc releases partial data."      *)
(* (origotoc.peg 260): a failing copy cleans up and returns.               *)
CopyFailureReturns == ~undefined
=============================================================================
