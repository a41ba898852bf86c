------------------------------- MODULE Paths -------------------------------
(***************************************************************************)
(* SplitPath and JoinPath (origotoc.peg 1279-1467, the same in origoref.c) *)
(* as operators on sequences of characters.  The functions walk the path   *)
(* with pointers; what they return is stated here by position.  A          *)
(* component that is NULL is the empty sequence: SplitPath leaves a        *)
(* component of length 0 NULL.                                             *)
(***************************************************************************)
EXTENDS Integers, Sequences

CONSTANT Chars  (* The characters of a path.                               *)

Dot == "."
Separators == {"/", "\\"}

ASSUME CharsAssumption == {Dot} \cup Separators \subseteq Chars

Path == Seq(Chars)

Suffix(p, from) == SubSeq(p, from, Len(p))

(* The least position from "from" on that satisfies the set, or one past   *)
(* the end.                                                                *)
First(p, from, set) ==
  CHOOSE i \in from .. Len(p)+1 :
    /\ i <= Len(p) => p[i] \in set
    /\ \A j \in from .. i-1 : p[j] \notin set

(* pathBaseName: the position after the last separator.                    *)
BaseAt(p) ==
  CHOOSE i \in 1 .. Len(p)+1 :
    /\ i > 1 => p[i-1] \in Separators
    /\ \A j \in i .. Len(p) : p[j] \notin Separators

(* A base name may begin with a dot of its own (".file").                  *)
Hidden(p) == BaseAt(p) <= Len(p) /\ p[BaseAt(p)] = Dot

(* Mutant of BaseEnd: the name .file is not special.                       *)
BaseEndPlain(p) == First(p, BaseAt(p), {Dot})

(* The dot that ends the base name.                                        *)
BaseEnd(p) == First(p, IF Hidden(p) THEN BaseAt(p) + 1 ELSE BaseAt(p), {Dot})

(* pathExt before its length is taken.  Without a dot in the base name it  *)
(* is still where it was initialised: the start of the whole path, or past *)
(* the dot of a ".file".                                                   *)
ExtStart(p) ==
  IF BaseEnd(p) <= Len(p) THEN BaseEnd(p)
  ELSE IF Hidden(p) THEN BaseAt(p) + 1
  ELSE 1

Dir(p) == SubSeq(p, 1, BaseAt(p) - 1)
BaseName(p) == SubSeq(p, BaseAt(p), BaseEnd(p) - 1)
Ext(p) == Suffix(p, First(p, ExtStart(p), {Dot}))

(* Nothing to split.                                                       *)
SplitRefuses(p) == p = <<>>
-----------------------------------------------------------------------------
Ends(p, set) == p # <<>> /\ p[Len(p)] \in set
Begins(p, set) == p # <<>> /\ p[1] \in set

(* What JoinPath puts between directory and base name: the first separator *)
(* the directory has, or a backslash.                                      *)
Separator(dir) ==
  IF dir = <<>> \/ Ends(dir, Separators) THEN <<>>
  ELSE LET i == First(dir, 1, Separators)
       IN IF i <= Len(dir) THEN <<dir[i]>> ELSE <<"\\">>

(* One leading separator of the base name is skipped, a second refused.    *)
Stripped(base) == IF Begins(base, Separators) THEN Tail(base) ELSE base

ExtDot(ext) == IF ext = <<>> \/ Begins(ext, {Dot}) THEN <<>> ELSE <<Dot>>

JoinRefuses(dir, base, ext) ==
  \/ dir = <<>> /\ base = <<>> /\ ext = <<>>
  \/ Begins(Stripped(base), Separators)

Join(dir, base, ext) ==
  dir \o Separator(dir) \o Stripped(base) \o ExtDot(ext) \o ext

(* Mutant of TotalLen: the dot of the extension is not counted.            *)
TotalLenDotless(dir, base, ext) ==
  Len(dir) + Len(base) + (IF Begins(ext, {Dot}) THEN Len(ext) - 1 ELSE Len(ext))

(* totalLen: the characters JoinPath allocates, one more for the NUL.      *)
TotalLen(dir, base, ext) ==
  Len(dir) + (IF dir # <<>> /\ ~Ends(dir, Separators) THEN 1 ELSE 0)
  + Len(base) - (IF Begins(base, Separators) THEN 1 ELSE 0)
  + Len(ext) + (IF ext # <<>> /\ ~Begins(ext, {Dot}) THEN 1 ELSE 0)
=============================================================================
