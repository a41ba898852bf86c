---------------------------- MODULE Enumeration ----------------------------
(***************************************************************************)
(* The elements of a sequence that stand at given positions.  SelectSeq    *)
(* says the same of a condition on the elements, but the provers know no   *)
(* definition of it.                                                       *)
(***************************************************************************)
EXTENDS Integers, Sequences, FiniteSets

(* How many elements of S are not past i, and the k-th element of S.       *)
CountTo(S, i) == Cardinality({j \in S : j <= i})
Nth(S, k) == CHOOSE i \in S : CountTo(S, i) = k

ElementsAt(s, S) == [k \in 1 .. Cardinality(S) |-> s[Nth(S, k)]]
=============================================================================
