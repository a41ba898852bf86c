------------------------------- MODULE KeyMap -------------------------------
(***************************************************************************)
(* What a key array promises its caller: a finite map from keys to data    *)
(* that is either closed (the list pointer is NULL) or open.  This is the  *)
(* quick reference of keyarray.h read off the behaviour of its macros:     *)
(* a call takes effect in one step, a failed call changes nothing, and the *)
(* index of a key is its rank among the keys present.                      *)
(***************************************************************************)
EXTENDS Integers, FiniteSets

CONSTANTS
  Keys,   (* Keys, numbered by their order under strcmp (or as unsigned).  *)
  Data,   (* Payloads.                                                     *)
  NoOut   (* The out parameter of a call that fills none.                  *)

VARIABLES
  open,   (* The list pointer is not NULL.                                 *)
  map,    (* The key/data pairs of the list; empty while it is closed.     *)
  reply   (* The last call that returned and what it returned, or Pending. *)

vars == <<open, map, reply>>

Answer(op, k, ok, out) == [op |-> op, key |-> k, ok |-> ok, out |-> out]
Pending == Answer("none", 0, FALSE, NoOut)

Present == DOMAIN map

Rank(k) == Cardinality({x \in Present : x < k})

Init ==
  /\ open = FALSE
  /\ map = [k \in {} |-> NoOut]
  /\ reply = Pending

(* A call begins; nothing is known of it until it returns.                 *)
Call ==
  /\ reply' = Pending
  /\ UNCHANGED <<open, map>>

(* A call that fails, whatever the reason, leaves the map as it was.       *)
Fails(op, k) ==
  /\ reply' = Answer(op, k, FALSE, NoOut)
  /\ UNCHANGED <<open, map>>

Create ==
  /\ ~open
  /\ \/ /\ open' = TRUE
        /\ reply' = Answer("create", 0, TRUE, NoOut)
        /\ UNCHANGED map
     \/ Fails("create", 0)

Free ==
  /\ open' = FALSE
  /\ map' = [k \in {} |-> NoOut]
  /\ reply' = Answer("free", 0, TRUE, NoOut)

(* Only a missing key can be inserted; an allocation failure may still     *)
(* refuse it.                                                              *)
Insert(k, d) ==
  \/ /\ open
     /\ k \notin Present
     /\ map' = [x \in Present \cup {k} |-> IF x = k THEN d ELSE map[x]]
     /\ reply' = Answer("insert", k, TRUE, NoOut)
     /\ UNCHANGED open
  \/ Fails("insert", k)

(* Remove returns nothing, whether the key was there or not.               *)
Remove(k) ==
  /\ map' = [x \in Present \ {k} |-> map[x]]
  /\ reply' = Answer("remove", k, TRUE, NoOut)
  /\ UNCHANGED open

(* The two lookups and the update succeed exactly on the keys present.     *)
Retrieve(k) ==
  /\ reply' = IF k \in Present THEN Answer("retrieve", k, TRUE, map[k])
                               ELSE Answer("retrieve", k, FALSE, NoOut)
  /\ UNCHANGED <<open, map>>

Modify(k, d) ==
  /\ map' = [x \in Present |-> IF x = k THEN d ELSE map[x]]
  /\ reply' = Answer("modify", k, k \in Present, NoOut)
  /\ UNCHANGED open

FindIndex(k) ==
  /\ reply' = IF k \in Present THEN Answer("findindex", k, TRUE, Rank(k))
                               ELSE Answer("findindex", k, FALSE, -1)
  /\ UNCHANGED <<open, map>>

ReleaseUnused ==
  /\ reply' = Answer("releaseunused", 0, TRUE, NoOut)
  /\ UNCHANGED <<open, map>>

Next ==
  \/ Call
  \/ Create
  \/ Free
  \/ ReleaseUnused
  \/ \E k \in Keys : Remove(k) \/ Retrieve(k) \/ FindIndex(k)
  \/ \E k \in Keys, d \in Data : Insert(k, d) \/ Modify(k, d)

Spec == Init /\ [][Next]_vars
=============================================================================
