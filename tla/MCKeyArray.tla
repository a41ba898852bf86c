----------------------------- MODULE MCKeyArray -----------------------------
(***************************************************************************)
(* A small key array for TLC.  Key 0 is the empty string (refused) of a    *)
(* string list and an ordinary key of an unsigned list.  Growth is by two  *)
(* slots, so that a list grows twice from nothing or once from three; no   *)
(* more than five slots fit, so that a full list meets a failing realloc   *)
(* and six slots cannot be reserved.                                       *)
(***************************************************************************)
EXTENDS KeyArray

CONSTANTS d1, d2, none

MCKeys == 0 .. 4
MCData == {d1, d2}
MCReserveCounts == {0, 3, 6}
=============================================================================
