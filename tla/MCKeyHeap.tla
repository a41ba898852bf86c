----------------------------- MODULE MCKeyHeap -----------------------------
(***************************************************************************)
(* The two symbol tables of the program over a heap of ten blocks and      *)
(* three names: both tables can hold every name, a table can grow from     *)
(* nothing and again after a shrink, and leaked arrays use up the heap.    *)
(*                                                                         *)
(* The code compares no addresses, so states that differ in addresses only *)
(* are the same: the view keeps the shape of each table, how much memory   *)
(* is allocated and whether the invariants hold.  When they do, equal      *)
(* views are equal up to renaming; a state that breaks one has a view of   *)
(* its own.  Hence one address per allocation, the lowest, is enough.      *)
(***************************************************************************)
EXTENDS KeyHeap

CONSTANTS null, symTable, localTable

MCBlocks == 1 .. 10
MCMalloc(F) == {b \in F : \A c \in F : b <= c}
MCLists == {symTable, localTable}
MCKeys == 1 .. 3
MCReserveCounts == {0, 1}

Shape(t) ==
  [open |-> IsOpen(t), reserved |-> list[t].reserved, names |-> {Name(b) : b \in ToSet(list[t].keys) \cap Allocated}]
MCView ==
  << [t \in Lists |-> Shape(t)], Cardinality(Allocated), undefined,
     TypeOK, ExclusiveOwnership, SlotsFit, OnlyItemsLeak >>
=============================================================================
