--------------------------- MODULE OptionsProofs ---------------------------
(***************************************************************************)
(* What SplitPath and JoinPath compute, and who frees what between main    *)
(* and exit, for paths of every length over every set of characters,       *)
(* whichever allocations fail.                                             *)
(***************************************************************************)
EXTENDS Options, TLAPS, WellFoundedInduction, SequenceTheorems

(* Every nonempty set of naturals has a least element: all that is needed  *)
(* of induction here.                                                      *)
LEMMA Least ==
  ASSUME NEW T \in SUBSET Nat, T # {}
  PROVE  \E x \in T : \A y \in T : x <= y
  <1>1. PICK x \in T : \A y \in T : ~(<<y, x>> \in OpToRel(<, Nat))
    BY NatLessThanWellFounded, WFMin
  <1>2. \A y \in T : ~(y < x)
    BY <1>1 DEF OpToRel
  <1> QED BY <1>2

(* First finds the least position of one of chars, if there is one.        *)
LEMMA FirstIs ==
  ASSUME NEW p \in Path, NEW from \in 1 .. Len(p)+1, NEW chars
  PROVE  /\ First(p, from, chars) \in from .. Len(p)+1
         /\ First(p, from, chars) <= Len(p) => p[First(p, from, chars)] \in chars
         /\ \A j \in from .. First(p, from, chars)-1 : p[j] \notin chars
  <1>0. Len(p) \in Nat
    BY DEF Path
  <1> DEFINE T == {i \in from .. Len(p)+1 : i <= Len(p) => p[i] \in chars}
  <1>1. T \in SUBSET Nat /\ Len(p)+1 \in T
    BY <1>0
  <1>2. PICK i \in T : \A j \in T : i <= j
    BY <1>1, Least
  <1>3. /\ i \in from .. Len(p)+1
        /\ i <= Len(p) => p[i] \in chars
        /\ \A j \in from .. i-1 : p[j] \notin chars
    BY <1>0, <1>2
  <1> QED BY <1>3 DEF First

(* The base name starts right after the last separator.                    *)
LEMMA BaseAtIs ==
  ASSUME NEW p \in Path
  PROVE  /\ BaseAt(p) \in 1 .. Len(p)+1
         /\ BaseAt(p) > 1 => p[BaseAt(p)-1] \in Separators
         /\ \A j \in BaseAt(p) .. Len(p) : p[j] \notin Separators
  <1>0. Len(p) \in Nat
    BY DEF Path
  <1> DEFINE T == {n \in 0 .. Len(p) : n < Len(p) => p[Len(p)-n] \in Separators}
  <1>1. T \in SUBSET Nat /\ Len(p) \in T
    BY <1>0
  <1>2. PICK n \in T : \A m \in T : n <= m
    BY <1>1, Least
  <1> DEFINE i == Len(p) - n + 1
  <1>3. /\ i \in 1 .. Len(p)+1
        /\ i > 1 => p[i-1] \in Separators
    BY <1>0, <1>2
  <1>4. ASSUME NEW j \in i .. Len(p), p[j] \in Separators
        PROVE  FALSE
    <2>1. Len(p) - j \in T
      BY <1>0, <1>2, <1>4
    <2>2. n <= Len(p) - j
      BY <1>2, <2>1
    <2> QED BY <1>0, <1>2, <1>4, <2>2
  <1> QED BY <1>3, <1>4 DEF BaseAt

LEMMA BaseEndIs ==
  ASSUME NEW p \in Path
  PROVE  /\ BaseEnd(p) \in BaseAt(p) .. Len(p)+1
         /\ BaseEnd(p) <= Len(p) => p[BaseEnd(p)] = Dot
         /\ BaseEnd(p) > Len(p) =>
              \A j \in BaseAt(p)+1 .. Len(p) : p[j] # Dot
         /\ BaseEnd(p) > Len(p) /\ ~Hidden(p) =>
              \A j \in BaseAt(p) .. Len(p) : p[j] # Dot
  <1>0. Len(p) \in Nat /\ BaseAt(p) \in 1 .. Len(p)+1
    BY BaseAtIs DEF Path
  <1>1. CASE Hidden(p)
    <2>1. BaseAt(p)+1 \in 1 .. Len(p)+1 /\ BaseEnd(p) = First(p, BaseAt(p)+1, {Dot})
      BY <1>0, <1>1 DEF Hidden, BaseEnd
    <2>2. /\ BaseEnd(p) \in BaseAt(p)+1 .. Len(p)+1
          /\ BaseEnd(p) <= Len(p) => p[BaseEnd(p)] \in {Dot}
          /\ \A j \in BaseAt(p)+1 .. BaseEnd(p)-1 : p[j] \notin {Dot}
      BY <2>1, FirstIs
    <2> QED BY <1>0, <1>1, <2>2
  <1>2. CASE ~Hidden(p)
    <2>1. BaseEnd(p) = First(p, BaseAt(p), {Dot})
      BY <1>2 DEF BaseEnd
    <2>2. /\ BaseEnd(p) \in BaseAt(p) .. Len(p)+1
          /\ BaseEnd(p) <= Len(p) => p[BaseEnd(p)] \in {Dot}
          /\ \A j \in BaseAt(p) .. BaseEnd(p)-1 : p[j] \notin {Dot}
      BY <1>0, <2>1, FirstIs
    <2> QED BY <1>0, <1>2, <2>2
  <1> QED BY <1>1, <1>2

(* JoinPath allocates exactly the characters it writes, whichever of the   *)
(* separator, the skipped slash and the dot of the extension apply.        *)
THEOREM JoinFits ==
  \A dir, base, ext \in Path : TotalLen(dir, base, ext) = Len(Join(dir, base, ext))
  <1> SUFFICES ASSUME NEW dir \in Path, NEW base \in Path, NEW ext \in Path
               PROVE  TotalLen(dir, base, ext) = Len(Join(dir, base, ext))
    OBVIOUS
  <1>1. /\ Len(Separator(dir)) = IF dir # <<>> /\ ~Ends(dir, Separators) THEN 1 ELSE 0
        /\ Separator(dir) \in Seq({dir[First(dir, 1, Separators)], "\\"})
    <2>1. CASE dir = <<>> \/ Ends(dir, Separators)
      BY <2>1 DEF Separator
    <2>2. CASE ~(dir = <<>> \/ Ends(dir, Separators))
      <3>1. Separator(dir) = <<dir[First(dir, 1, Separators)]>> \/ Separator(dir) = <<"\\">>
        BY <2>2 DEF Separator
      <3>2. \A x : Len(<<x>>) = 1 /\ <<x>> \in Seq({x})
        OBVIOUS
      <3> QED BY <2>2, <3>1
    <2> QED BY <2>1, <2>2
  <1>2. /\ Len(Stripped(base)) = Len(base) - (IF Begins(base, Separators) THEN 1 ELSE 0)
        /\ Stripped(base) \in Path
    BY DEF Stripped, Begins, Path
  <1>3. /\ Len(ExtDot(ext)) = IF ext # <<>> /\ ~Begins(ext, {Dot}) THEN 1 ELSE 0
        /\ ExtDot(ext) \in Seq({Dot})
    BY DEF ExtDot
  <1> DEFINE All == Chars \cup {dir[First(dir, 1, Separators)], "\\", Dot}
  <1>4. /\ dir \in Seq(All) /\ Separator(dir) \in Seq(All) /\ Stripped(base) \in Seq(All)
        /\ ExtDot(ext) \in Seq(All) /\ ext \in Seq(All)
    BY <1>1, <1>2, <1>3 DEF Path
  <1>5. Len(Join(dir, base, ext)) =
          Len(dir) + Len(Separator(dir)) + Len(Stripped(base)) + Len(ExtDot(ext)) + Len(ext)
    <2> HIDE DEF All
    <2> QED BY <1>4 DEF Join
  <1>6. Len(dir) \in Nat /\ Len(base) \in Nat /\ Len(ext) \in Nat
    BY DEF Path
  <1> DEFINE s == IF dir # <<>> /\ ~Ends(dir, Separators) THEN 1 ELSE 0
             b == IF Begins(base, Separators) THEN 1 ELSE 0
             e == IF ext # <<>> /\ ~Begins(ext, {Dot}) THEN 1 ELSE 0
  <1>7. s \in Int /\ b \in Int /\ e \in Int
    OBVIOUS
  <1>8. TotalLen(dir, base, ext) = Len(dir) + s + Len(base) - b + Len(ext) + e
    BY DEF TotalLen
  <1>9. Len(Separator(dir)) = s /\ Len(Stripped(base)) = Len(base) - b /\ Len(ExtDot(ext)) = e
    BY <1>1, <1>2, <1>3
  <1> HIDE DEF s, b, e
  <1> QED BY <1>5, <1>6, <1>7, <1>8, <1>9
-----------------------------------------------------------------------------
(* The parts of a path are paths: SplitPath copies only characters of the  *)
(* path it was given.                                                      *)
LEMMA PartsArePaths ==
  ASSUME NEW p \in Path
  PROVE  Dir(p) \in Path /\ BaseName(p) \in Path /\ Ext(p) \in Path
  <1>1. /\ Len(p) \in Nat /\ BaseAt(p) \in 1 .. Len(p)+1
        /\ BaseEnd(p) \in BaseAt(p) .. Len(p)+1
    BY BaseAtIs, BaseEndIs DEF Path
  <1>2. ExtStart(p) \in 1 .. Len(p)+1
    BY <1>1 DEF ExtStart, Hidden
  <1>3. First(p, ExtStart(p), {Dot}) \in 1 .. Len(p)+1
    BY <1>1, <1>2, FirstIs
  <1>4. \A m \in 1 .. Len(p)+1, n \in 0 .. Len(p) : SubSeq(p, m, n) \in Path
    <2> SUFFICES ASSUME NEW m \in 1 .. Len(p)+1, NEW n \in 0 .. Len(p)
                 PROVE  SubSeq(p, m, n) \in Seq(Chars)
      BY DEF Path
    <2>1. \A i \in m .. n : p[i] \in Chars
      BY <1>1 DEF Path
    <2> QED BY <1>1, <2>1, SubSeqProperties
  <1> QED BY <1>1, <1>3, <1>4 DEF Dir, BaseName, Ext, Suffix

(* Where the extension begins: at the dot that ends the base name, or past *)
(* the end when no dot of the path lies before the last component.         *)
LEMMA ExtIs ==
  ASSUME NEW p \in Path,
         \/ BaseEnd(p) <= Len(p)
         \/ Hidden(p)
         \/ \A i \in 1 .. BaseAt(p)-1 : p[i] # Dot
  PROVE  Ext(p) = SubSeq(p, BaseEnd(p), Len(p))
  <1>1. /\ Len(p) \in Nat /\ BaseAt(p) \in 1 .. Len(p)+1
        /\ BaseEnd(p) \in BaseAt(p) .. Len(p)+1
    BY BaseAtIs, BaseEndIs DEF Path
  <1>2. CASE BaseEnd(p) <= Len(p)
    <2>1. ExtStart(p) = BaseEnd(p) /\ p[BaseEnd(p)] = Dot
      BY <1>2, BaseEndIs DEF ExtStart
    <2>2. First(p, BaseEnd(p), {Dot}) = BaseEnd(p)
      BY <1>1, <1>2, <2>1, FirstIs
    <2> QED BY <2>1, <2>2 DEF Ext, Suffix
  <1>3. CASE BaseEnd(p) > Len(p)
    <2>1. ExtStart(p) \in 1 .. Len(p)+1 /\ \A j \in ExtStart(p) .. Len(p) : p[j] # Dot
      <3>1. CASE Hidden(p)
        <4>1. ExtStart(p) = BaseAt(p)+1 /\ BaseAt(p) <= Len(p)
          BY <1>1, <1>3, <3>1 DEF ExtStart, Hidden
        <4> QED BY <1>1, <1>3, <4>1, BaseEndIs
      <3>2. CASE ~Hidden(p)
        <4>1. ExtStart(p) = 1
          BY <1>1, <1>3, <3>2 DEF ExtStart
        <4>2. \A j \in BaseAt(p) .. Len(p) : p[j] # Dot
          BY <1>3, <3>2, BaseEndIs
        <4>3. \A j \in 1 .. BaseAt(p)-1 : p[j] # Dot
          BY <1>1, <1>3, <3>2
        <4> QED BY <1>1, <4>1, <4>2, <4>3
      <3> QED BY <3>1, <3>2
    <2>2. First(p, ExtStart(p), {Dot}) = Len(p)+1
      <3>1. /\ First(p, ExtStart(p), {Dot}) \in ExtStart(p) .. Len(p)+1
            /\ First(p, ExtStart(p), {Dot}) <= Len(p) =>
                 p[First(p, ExtStart(p), {Dot})] \in {Dot}
        BY <2>1, FirstIs
      <3> QED BY <1>1, <2>1, <3>1
    <2> QED BY <1>1, <1>3, <2>2 DEF Ext, Suffix
  <1> QED BY <1>1, <1>2, <1>3

(* Splitting a path and joining the parts gives the path back, unless a    *)
(* directory has a dot and the file no extension.                          *)
THEOREM SplitJoin ==
  \A p \in Path :
    \/ BaseEnd(p) <= Len(p)
    \/ Hidden(p)
    \/ \A i \in 1 .. BaseAt(p)-1 : p[i] # Dot
    => Join(Dir(p), BaseName(p), Ext(p)) = p
  <1> SUFFICES ASSUME NEW p \in Path,
                      \/ BaseEnd(p) <= Len(p)
                      \/ Hidden(p)
                      \/ \A i \in 1 .. BaseAt(p)-1 : p[i] # Dot
               PROVE  Join(Dir(p), BaseName(p), Ext(p)) = p
    OBVIOUS
  <1> DEFINE b == BaseAt(p)
             e == BaseEnd(p)
  <1>1. /\ Len(p) \in Nat /\ b \in 1 .. Len(p)+1 /\ e \in b .. Len(p)+1
        /\ b > 1 => p[b-1] \in Separators
        /\ \A j \in b .. Len(p) : p[j] \notin Separators
        /\ e <= Len(p) => p[e] = Dot
    BY BaseAtIs, BaseEndIs DEF Path
  <1>2. /\ Dir(p) = SubSeq(p, 1, b-1)
        /\ BaseName(p) = SubSeq(p, b, e-1)
        /\ Ext(p) = SubSeq(p, e, Len(p))
    BY ExtIs DEF Dir, BaseName
  <1> HIDE DEF b, e
  <1>3. \A m \in 1 .. Len(p)+1, n \in 0 .. Len(p) :
          /\ Len(SubSeq(p, m, n)) = IF m <= n THEN n-m+1 ELSE 0
          /\ \A i \in 1 .. n-m+1 : SubSeq(p, m, n)[i] = p[m+i-1]
          /\ SubSeq(p, m, n) \in Seq(Chars)
    <2> SUFFICES ASSUME NEW m \in 1 .. Len(p)+1, NEW n \in 0 .. Len(p)
                 PROVE  /\ Len(SubSeq(p, m, n)) = IF m <= n THEN n-m+1 ELSE 0
                        /\ \A i \in 1 .. n-m+1 : SubSeq(p, m, n)[i] = p[m+i-1]
                        /\ SubSeq(p, m, n) \in Seq(Chars)
      OBVIOUS
    <2>1. \A i \in m .. n : p[i] \in Chars
      BY <1>1 DEF Path
    <2>2. m \in Int /\ n \in Int
      BY <1>1
    <2> QED BY <2>1, <2>2, SubSeqProperties
  <1>4. Separator(Dir(p)) = <<>>
    <2>1. CASE b = 1
      BY <1>1, <1>2, <2>1, SubSeqEmpty DEF Separator
    <2>2. CASE b > 1
      <3>1. Len(Dir(p)) = b-1 /\ Dir(p)[b-1] = p[b-1]
        BY <1>1, <1>2, <1>3, <2>2
      <3>2. Dir(p) # <<>>
        BY <1>1, <2>2, <3>1
      <3> QED BY <1>1, <2>2, <3>1, <3>2 DEF Separator, Ends
    <2> QED BY <1>1, <2>1, <2>2
  <1>5. Stripped(BaseName(p)) = BaseName(p)
    <2>1. CASE e = b
      BY <1>1, <1>2, <2>1, SubSeqEmpty DEF Stripped, Begins
    <2>2. CASE e > b
      <3>0. b \in 1 .. Len(p)+1 /\ b \in b .. Len(p) /\ e-1 \in 0 .. Len(p)
        BY <1>1, <2>2
      <3>a. \A i \in 1 .. (e-1)-b+1 : BaseName(p)[i] = p[b+i-1]
        BY <1>2, <1>3, <3>0
      <3>b. 1 \in 1 .. (e-1)-b+1 /\ b+1-1 = b
        BY <1>1, <2>2
      <3>c. BaseName(p)[1] = p[b]
        BY <3>a, <3>b
      <3>1. BaseName(p)[1] = p[b] /\ p[b] \notin Separators
        BY <1>1, <3>0, <3>c
      <3> QED BY <3>1 DEF Stripped, Begins
    <2> QED BY <1>1, <2>1, <2>2
  <1>6. ExtDot(Ext(p)) = <<>>
    <2>1. CASE e = Len(p)+1
      BY <1>1, <1>2, <2>1, SubSeqEmpty DEF ExtDot
    <2>2. CASE e <= Len(p)
      <3>0. e \in 1 .. Len(p)+1 /\ Len(p) \in 0 .. Len(p) /\ p[e] = Dot
        BY <1>1, <2>2
      <3>a. /\ Len(Ext(p)) = Len(p)-e+1
            /\ \A i \in 1 .. Len(p)-e+1 : Ext(p)[i] = p[e+i-1]
        BY <1>2, <1>3, <2>2, <3>0
      <3>b. 1 \in 1 .. Len(p)-e+1 /\ e+1-1 = e /\ Len(p)-e+1 > 0
        BY <1>1, <2>2
      <3>1. Ext(p)[1] = Dot /\ Len(Ext(p)) > 0
        BY <3>0, <3>a, <3>b
      <3>2. Ext(p) # <<>>
        BY <3>1
      <3> QED BY <3>1, <3>2 DEF ExtDot, Begins
    <2> QED BY <1>1, <2>1, <2>2
  <1>7. /\ Dir(p) \in Seq(Chars) /\ BaseName(p) \in Seq(Chars) /\ Ext(p) \in Seq(Chars)
    BY PartsArePaths DEF Path
  <1>8. Join(Dir(p), BaseName(p), Ext(p)) = (Dir(p) \o BaseName(p)) \o Ext(p)
    BY <1>4, <1>5, <1>6, <1>7 DEF Join
  <1>a. /\ p \in Seq(Chars) /\ 1 \in Int /\ b-1 \in Int /\ e-1 \in Int /\ Len(p) \in Int
        /\ b = (b-1)+1 /\ e = (e-1)+1
    BY <1>1 DEF Path
  <1>b. SubSeq(p, 1, b-1) \o SubSeq(p, (b-1)+1, e-1) = SubSeq(p, 1, e-1)
    <2>1. b-1 \in 1-1 .. Len(p) /\ e-1 \in b-1 .. Len(p) /\ 1 \in 1 .. Len(p)+1
      BY <1>1
    <2> QED BY <1>a, <2>1, ConcatAdjacentSubSeq
  <1>c. SubSeq(p, 1, e-1) \o SubSeq(p, (e-1)+1, Len(p)) = SubSeq(p, 1, Len(p))
    <2>1. e-1 \in 1-1 .. Len(p) /\ Len(p) \in e-1 .. Len(p) /\ 1 \in 1 .. Len(p)+1
      BY <1>1
    <2> QED BY <1>a, <2>1, ConcatAdjacentSubSeq
  <1>9. Dir(p) \o BaseName(p) = SubSeq(p, 1, e-1)
    BY <1>2, <1>a, <1>b
  <1>10. SubSeq(p, 1, e-1) \o Ext(p) = SubSeq(p, 1, Len(p))
    BY <1>2, <1>a, <1>c
  <1> QED BY <1>8, <1>9, <1>10, SubSeqFull DEF Path
-----------------------------------------------------------------------------
(* Where the blocks are between the steps.  None of the properties is      *)
(* inductive by itself: what Cleanup leaves depends on what the error path *)
(* freed, and that in turn on the pointers being the blocks, or a superset *)
(* after a failing split (error code 7); and on which exits are made with  *)
(* a parser, all of them with status 1.                                    *)
Ownership ==
  /\ pc = "main" => set = {} /\ live = {}
  /\ pc = "release" => Elements(FileNames) \subseteq set
  /\ pc = "fail" => live \subseteq set /\ (set = live \/ result = 7)
  /\ pc = "exit" => live \ {Context} = options /\ (Context \in live => status = 1)
  /\ pc \notin {"open", "create", "parse", "destroy", "exit"} => options = {}
  /\ pc \notin {"create", "parse", "destroy", "exit"} => ~handle
  /\ pc \notin {"exit", "ended"} => ~undefined

(* The inductive invariant.                                                *)
Inv == TypeOK /\ Ownership /\ OptionsOwnNames /\ NothingLeft /\ FreedOnce

LEMMA Names ==
  /\ Elements(SourceParts) = {"sourceDir", "sourceBaseName", "sourceExt"}
  /\ Elements(BinaryParts) = {"binaryDir", "binaryBaseName", "binaryExt"}
  /\ Elements(FileNames) = {"sourceFileName", "cFileName", "hFileName", "binaryFileName"}
  /\ FileNames \in [1 .. 4 -> Elements(FileNames)]
  /\ Elements(FileNames) = {FileNames[n] : n \in 1 .. 4}
  /\ Temporaries \cap Elements(FileNames) = {}
  /\ Context \notin Pointers /\ Context \notin Elements(FileNames)
  <1>1. /\ Len(SourceParts) = 3 /\ Len(BinaryParts) = 3 /\ Len(FileNames) = 4
    BY DEF SourceParts, BinaryParts, FileNames
  <1>2. /\ \A i \in Int : i \in 1 .. 3 <=> i = 1 \/ i = 2 \/ i = 3
        /\ \A i \in Int : i \in 1 .. 4 <=> i = 1 \/ i = 2 \/ i = 3 \/ i = 4
    OBVIOUS
  <1>3. Elements(SourceParts) = {"sourceDir", "sourceBaseName", "sourceExt"}
    BY <1>1, <1>2 DEF Elements, SourceParts
  <1>4. Elements(BinaryParts) = {"binaryDir", "binaryBaseName", "binaryExt"}
    BY <1>1, <1>2 DEF Elements, BinaryParts
  <1>5. Elements(FileNames) = {"sourceFileName", "cFileName", "hFileName", "binaryFileName"}
    BY <1>1, <1>2 DEF Elements, FileNames
  <1>6. FileNames \in [1 .. 4 -> Elements(FileNames)]
    BY <1>2, <1>5 DEF FileNames
  <1>7. Elements(FileNames) = {FileNames[n] : n \in 1 .. 4}
    BY <1>1 DEF Elements
  <1>8. Context \notin Pointers /\ Context \notin Elements(FileNames)
    BY <1>3, <1>4, <1>5 DEF Pointers, Temporaries, Context
  <1> QED BY <1>3, <1>4, <1>5, <1>6, <1>7, <1>8 DEF Temporaries

(* What is allocated for the default names is text of a path.              *)
LEMMA Suffixes ==
  DotRet \in Path /\ DotExe \in Path /\ DotRtc \in Path /\ DotRth \in Path
  BY CharsAssumption, ArgumentsAssumption
     DEF Path, Dot, DotRet, DotExe, DotRtc, DotRth

LEMMA StemIsPath ==
  ASSUME NEW dir \in Path, NEW base \in Path
  PROVE  dir \o Separator(dir) \o Stripped(base) \in Path
  <1>1. Separator(dir) \in Path
    <2>1. Len(dir) \in Nat
      BY DEF Path
    <2>2. First(dir, 1, Separators) \in 1 .. Len(dir)+1
      BY <2>1, FirstIs
    <2>3. CASE First(dir, 1, Separators) <= Len(dir)
      <3>1. dir[First(dir, 1, Separators)] \in Chars
        BY <2>1, <2>2, <2>3 DEF Path
      <3> QED BY <3>1, <2>3 DEF Separator, Path
    <2>4. CASE ~(First(dir, 1, Separators) <= Len(dir))
      BY <2>4, CharsAssumption DEF Separator, Path, Separators
    <2> QED BY <2>3, <2>4
  <1>2. Stripped(base) \in Path
    BY DEF Stripped, Begins, Path
  <1> QED BY <1>1, <1>2 DEF Path

LEMMA JoinIsPath ==
  ASSUME NEW dir \in Path, NEW base \in Path, NEW ext \in Path
  PROVE  Join(dir, base, ext) \in Path
  <1>1. dir \o Separator(dir) \o Stripped(base) \in Path
    BY StemIsPath
  <1>2. ExtDot(ext) \in Path
    BY CharsAssumption DEF ExtDot, Path
  <1> QED BY <1>1, <1>2 DEF Join, Path

LEMMA ComponentsArePaths ==
  ASSUME string \in [Pointers -> Path], NEW name \in Elements(FileNames)
  PROVE  /\ Components(name)[1] \in Path
         /\ Components(name)[2] \in Path
         /\ Components(name)[3] \in Path
  <1>1. \A v \in Pointers : Part(v) \in Path
    BY DEF Part, Path
  <1>2. {"sourceDir", "sourceBaseName", "sourceExt", "binaryDir",
         "binaryBaseName", "binaryExt"} \subseteq Pointers
    BY Names DEF Pointers, Temporaries
  <1>3. name \in {"sourceFileName", "cFileName", "hFileName", "binaryFileName"}
    BY Names
  <1> QED BY <1>1, <1>2, <1>3, Suffixes DEF Components

(* What an allocation leaves of the types.                                 *)
LEMMA AllocateTypes ==
  ASSUME TypeOK, NEW ptrs \in SUBSET Pointers, NEW strings,
         \A v \in ptrs : strings[v] \in Path,
         Allocate(ptrs, strings)
  PROVE  live' \subseteq Pointers \cup {Context} /\ set' \subseteq Pointers /\ string' \in [Pointers -> Path]
  BY DEF TypeOK, Allocate

LEMMA Splitting ==
  ASSUME TypeOK, NEW p \in Path, NEW vs, vs \in {SourceParts, BinaryParts}
  PROVE  /\ SplitPath(p, vs) =>
              /\ live' \subseteq Pointers \cup {Context} /\ set' \subseteq Pointers
              /\ string' \in [Pointers -> Path]
              /\ \E new : live' = live \cup new /\ set' = set \cup new
         /\ SplitFails(p, vs) =>
              /\ live' = live /\ string' = string
              /\ set \subseteq set' /\ set' \subseteq Pointers
  <1>1. Wanted(vs, p) \in SUBSET Pointers
    BY DEF Wanted, Pointers, Temporaries
  <1>2. \A v \in Pointers : Parts(vs, p)[v] \in Path
    <2>1. <<>> \in Path
      BY DEF Path
    <2> QED BY <2>1, PartsArePaths DEF Parts
  <1>3. ASSUME SplitPath(p, vs)
        PROVE  /\ live' \subseteq Pointers \cup {Context} /\ set' \subseteq Pointers
               /\ string' \in [Pointers -> Path]
               /\ \E new : live' = live \cup new /\ set' = set \cup new
    <2>1. Allocate(Wanted(vs, p), Parts(vs, p))
      BY <1>3 DEF SplitPath
    <2>2. /\ live' \subseteq Pointers \cup {Context} /\ set' \subseteq Pointers
          /\ string' \in [Pointers -> Path]
      BY <2>1, <1>1, <1>2, AllocateTypes
    <2>3. live' = live \cup Wanted(vs, p) /\ set' = set \cup Wanted(vs, p)
      BY <2>1 DEF Allocate
    <2> QED BY <2>2, <2>3
  <1>4. ASSUME SplitFails(p, vs)
        PROVE  /\ live' = live /\ string' = string
               /\ set \subseteq set' /\ set' \subseteq Pointers
    BY <1>1, <1>4 DEF SplitFails, TypeOK
  <1> QED BY <1>3, <1>4

LEMMA Start == Init => Inv
  <1> SUFFICES ASSUME Init PROVE Inv
    OBVIOUS
  <1>1. argv \in Seq(Path)
    <2>1. CASE argv = <<>>
      BY <2>1
    <2>2. CASE \E a \in FirstArguments : argv = <<a>>
      <3>1. PICK a \in FirstArguments : argv = <<a>>
        BY <2>2
      <3>2. a \in Path
        BY ArgumentsAssumption
      <3> QED BY <3>1, <3>2
    <2>3. CASE \E a \in FirstArguments, b \in SecondArguments : argv = <<a, b>>
      <3>1. PICK a \in FirstArguments, b \in SecondArguments : argv = <<a, b>>
        BY <2>3
      <3>2. a \in Path /\ b \in Path
        BY ArgumentsAssumption
      <3> QED BY <3>1, <3>2
    <2> QED BY <2>1, <2>2, <2>3 DEF Init
  <1>2. <<>> \in Path
    BY DEF Path
  <1>3. string \in [Pointers -> Path]
    BY <1>2 DEF Init
  <1>4. /\ pc \in Steps /\ live \subseteq Pointers /\ set \subseteq Pointers
        /\ options \subseteq Elements(FileNames)
    BY DEF Init, Steps
  <1>5. handle = FALSE /\ result \in 0 .. 11 /\ undefined = FALSE /\ status \in {0, 1}
    BY DEF Init
  <1>6. TypeOK
    BY <1>1, <1>3, <1>4, <1>5 DEF TypeOK
  <1> QED BY <1>5, <1>6 DEF Init, Inv, Ownership, OptionsOwnNames, NothingLeft, FreedOnce

LEMMA Step == Inv /\ [Next]_vars => Inv'
  <1> SUFFICES ASSUME Inv, [Next]_vars PROVE Inv'
    OBVIOUS
  <1> USE DEF Inv
  <1>1. CASE PrintUsage
    BY <1>1 DEF PrintUsage, TypeOK, Steps, Ownership, OptionsOwnNames, NothingLeft, FreedOnce
  <1>2. CASE SplitSource
    <2>1. argv[1] \in Path
      BY <1>2 DEF SplitSource, TypeOK
    <2>2. CASE SplitPath(argv[1], SourceParts) /\ pc' = "binary" /\ UNCHANGED <<result, status>>
      <3>1. /\ live' \subseteq Pointers \cup {Context} /\ set' \subseteq Pointers
            /\ string' \in [Pointers -> Path]
            /\ \E new : live' = live \cup new /\ set' = set \cup new
        BY <2>1, <2>2, Splitting
      <3> QED BY <1>2, <2>2, <3>1
              DEF SplitSource, TypeOK, Steps, Ownership, OptionsOwnNames, NothingLeft, FreedOnce
    <2>3. CASE SplitFails(argv[1], SourceParts) /\ result' = 2 /\ pc' = "exit" /\ status' = 1
      <3>1. /\ live' = live /\ string' = string
            /\ set \subseteq set' /\ set' \subseteq Pointers
        BY <2>1, <2>3, Splitting
      <3>2. /\ pc = "main" /\ live = {} /\ options = {} /\ undefined = FALSE
            /\ UNCHANGED <<argv, options, handle, undefined>>
        BY <1>2 DEF SplitSource, TypeOK, Ownership
      <3>3. TypeOK'
        BY <2>3, <3>1, <3>2 DEF TypeOK, Steps
      <3>4. Ownership' /\ OptionsOwnNames' /\ NothingLeft' /\ FreedOnce'
        BY <2>3, <3>1, <3>2 DEF Ownership, OptionsOwnNames, NothingLeft, FreedOnce
      <3> QED BY <3>3, <3>4
    <2> QED BY <1>2, <2>2, <2>3 DEF SplitSource
  <1>3. CASE SplitBinary
    <2>1. argv[2] \in Path
      <3>1. argv \in Seq(Path) /\ Len(argv) = 2
        BY <1>3 DEF SplitBinary, TypeOK
      <3> QED BY <3>1, ElementOfSeq
    <2>2. CASE SplitPath(argv[2], BinaryParts) /\ pc' = "join" /\ UNCHANGED result
      <3>1. /\ live' \subseteq Pointers \cup {Context} /\ set' \subseteq Pointers
            /\ string' \in [Pointers -> Path]
            /\ \E new : live' = live \cup new /\ set' = set \cup new
        BY <2>1, <2>2, Splitting
      <3> QED BY <1>3, <2>2, <3>1
              DEF SplitBinary, TypeOK, Steps, Ownership, OptionsOwnNames, NothingLeft, FreedOnce
    <2>3. CASE SplitFails(argv[2], BinaryParts) /\ result' = 7 /\ pc' = "fail"
      <3>1. /\ live' = live /\ string' = string
            /\ set \subseteq set' /\ set' \subseteq Pointers
        BY <2>1, <2>3, Splitting
      <3> QED BY <1>3, <2>3, <3>1
              DEF SplitBinary, TypeOK, Steps, Ownership, OptionsOwnNames, NothingLeft, FreedOnce
    <2> QED BY <1>3, <2>2, <2>3 DEF SplitBinary
  <1>4. CASE DefaultBinary
    <2>1. Needed \subseteq Pointers
      BY Names DEF Needed, Pointers, Temporaries
    <2>2. \A v \in Pointers : Defaults[v] \in Path
      <3>1. <<>> \in Path /\ string["sourceDir"] \in Path /\ string["sourceBaseName"] \in Path
        BY Names DEF Path, TypeOK, Pointers, Temporaries
      <3> QED BY <3>1, Suffixes DEF Defaults
    <2>3. PICK new \in SUBSET Pointers :
            /\ Allocate(new, Defaults)
            /\ \/ pc' = "join" /\ UNCHANGED result
               \/ pc' = "fail" /\ result' \in 3 .. 6
      BY <1>4, <2>1 DEF DefaultBinary
    <2>4. /\ live' \subseteq Pointers \cup {Context} /\ set' \subseteq Pointers
          /\ string' \in [Pointers -> Path]
      BY <2>2, <2>3, AllocateTypes
    <2>5. live' = live \cup new /\ set' = set \cup new
      BY <2>3 DEF Allocate
    <2> QED BY <1>4, <2>3, <2>4, <2>5
            DEF DefaultBinary, TypeOK, Steps, Ownership, OptionsOwnNames, NothingLeft, FreedOnce
  <1>5. CASE JoinName
    <2>1. PICK n \in 1 .. 4 :
            /\ \A m \in 1 .. n-1 : FileNames[m] \in set
            /\ \/ /\ Allocate({FileNames[n]}, [v \in {FileNames[n]} |-> Joined(v)])
                  /\ pc' = IF n = 4 THEN "release" ELSE "join"
                  /\ UNCHANGED result
               \/ /\ result' = 7 + n
                  /\ pc' = "fail"
                  /\ UNCHANGED <<live, set, string>>
      BY <1>5 DEF JoinName
    <2>2. CASE /\ Allocate({FileNames[n]}, [v \in {FileNames[n]} |-> Joined(v)])
               /\ pc' = IF n = 4 THEN "release" ELSE "join"
               /\ UNCHANGED result
      <3>1. FileNames[n] \in Elements(FileNames) /\ FileNames[n] \in Pointers
        BY Names DEF Pointers
      <3>2. Joined(FileNames[n]) \in Path
        BY <3>1, ComponentsArePaths, JoinIsPath DEF Joined, TypeOK
      <3>3. /\ live' \subseteq Pointers \cup {Context} /\ set' \subseteq Pointers
            /\ string' \in [Pointers -> Path]
        BY <2>2, <3>1, <3>2, AllocateTypes
      <3>4. live' = live \cup {FileNames[n]} /\ set' = set \cup {FileNames[n]}
        BY <2>2 DEF Allocate
      <3>5. n = 4 => Elements(FileNames) \subseteq set'
        <4>1. n = 4 => \A m \in 1 .. 4 : FileNames[m] \in set'
          BY <2>1, <3>4
        <4> QED BY <4>1, Names
      <3> QED BY <1>5, <2>2, <3>3, <3>4, <3>5
              DEF JoinName, TypeOK, Steps, Ownership, OptionsOwnNames, NothingLeft, FreedOnce
    <2>3. CASE result' = 7 + n /\ pc' = "fail" /\ UNCHANGED <<live, set, string>>
      BY <1>5, <2>3 DEF JoinName, TypeOK, Steps, Ownership, OptionsOwnNames, NothingLeft, FreedOnce
    <2> QED BY <2>1, <2>2, <2>3
  <1>6. CASE ReleaseParts
    <2>1. /\ set = live /\ Elements(FileNames) \subseteq set /\ set \subseteq Pointers
      BY <1>6 DEF ReleaseParts, OptionsOwnNames, Ownership, TypeOK
    <2>2. live' = live \ (set \cap Temporaries) /\ set' = set \ Temporaries /\ undefined' = FALSE
      BY <1>6, <2>1 DEF ReleaseParts, FreePtrs
    <2>3. live' = Elements(FileNames)
      BY <2>1, <2>2, Names DEF Pointers
    <2>4. TypeOK'
      BY <1>6, <2>1, <2>2, <2>3 DEF ReleaseParts, TypeOK, Steps, Pointers
    <2>5. Ownership' /\ OptionsOwnNames' /\ NothingLeft' /\ FreedOnce'
      BY <1>6, <2>2, <2>3 DEF ReleaseParts, Ownership, OptionsOwnNames, NothingLeft, FreedOnce
    <2> QED BY <2>4, <2>5
  <1>7. CASE ExitError
    <2>1. live \subseteq set /\ set \subseteq Pointers /\ (set = live \/ result = 7)
      BY <1>7 DEF ExitError, Ownership, TypeOK
    <2>2. live' = {} /\ set' = {} /\ undefined' \in BOOLEAN /\ (undefined' => result = 7)
      BY <1>7, <2>1 DEF ExitError, FreePtrs
    <2> QED BY <1>7, <2>2
            DEF ExitError, TypeOK, Steps, Ownership, OptionsOwnNames, NothingLeft, FreedOnce
  <1>8. CASE OpenSource
    BY <1>8, Names DEF OpenSource, TypeOK, Steps, Ownership, OptionsOwnNames, NothingLeft, FreedOnce
  <1>9. CASE CreateContext
    <2>1. options = Elements(FileNames) /\ live = options /\ options' = options
      BY <1>9 DEF CreateContext, OptionsOwnNames
    <2>2. /\ live' \in {live, live \cup {Context}}
          /\ \/ pc' = "parse" /\ live' = live \cup {Context} /\ status' = status
             \/ pc' = "exit" /\ status' = 1
      BY <1>9 DEF CreateContext
    <2>3. TypeOK'
      BY <1>9, <2>2 DEF CreateContext, TypeOK, Steps
    <2>4. live' \ {Context} = options'
      BY <2>1, <2>2, Names
    <2> QED BY <1>9, <2>1, <2>2, <2>3, <2>4
            DEF CreateContext, Ownership, OptionsOwnNames, NothingLeft, FreedOnce
  <1>10. CASE Parse
    BY <1>10, Names DEF Parse, TypeOK, Steps, Ownership, OptionsOwnNames, NothingLeft, FreedOnce
  <1>11. CASE DestroyContext
    <2>1. live' = options' /\ Context \notin live'
      BY <1>11, Names DEF DestroyContext, OptionsOwnNames
    <2> QED BY <1>11, <2>1
            DEF DestroyContext, TypeOK, Steps, Ownership, OptionsOwnNames, NothingLeft, FreedOnce
  <1>12. CASE Cleanup
    <2>1. /\ live' \subseteq {Context} /\ undefined' = undefined
          /\ status' = 0 => live' = {}
      BY <1>12 DEF Cleanup, Ownership, TypeOK
    <2> QED BY <1>12, <2>1
            DEF Cleanup, TypeOK, Steps, Ownership, OptionsOwnNames, NothingLeft, FreedOnce
  <1>13. CASE UNCHANGED vars
    BY <1>13 DEF vars, TypeOK, Ownership, OptionsOwnNames, NothingLeft, FreedOnce
  <1> QED BY <1>1, <1>2, <1>3, <1>4, <1>5, <1>6, <1>7, <1>8, <1>9, <1>10, <1>11, <1>12, <1>13 DEF Next

LEMMA Always == Spec => []Inv
  BY Start, Step, PTL DEF Spec

(* Pointers, strings and error codes keep their types.                     *)
THEOREM TypesHold == Spec => []TypeOK
  BY Always, PTL DEF Inv

(* While ParseOptions succeeds its pointers are the blocks it holds, and   *)
(* what it leaves to the options is exactly the four names.                *)
THEOREM NamesOwned == Spec => []OptionsOwnNames
  BY Always, PTL DEF Inv

(* Whatever failed, a process that has ended has closed its file and freed *)
(* every block, but the context of a parser that called exit: then it ends *)
(* with status 1, and one that reports success has freed all.              *)
THEOREM AllButContextReleased == Spec => []NothingLeft
  BY Always, PTL DEF Inv

(* No block is freed twice except after a failing split of argv[2].        *)
THEOREM NoDoubleFree == Spec => []FreedOnce
  BY Always, PTL DEF Inv

(* JoinPath never writes past the buffer of any of the four names.         *)
THEOREM BuffersHold == Spec => []BufferExact
  <1>1. TypeOK => BufferExact
    BY ComponentsArePaths, JoinFits DEF TypeOK, BufferExact
  <1> QED BY <1>1, TypesHold, PTL
-----------------------------------------------------------------------------
(* The name of the file opened, followed from the split to the join.       *)
SourceExt == IF Len(argv) = 1 /\ Ext(argv[1]) = <<>> THEN DotRet ELSE Ext(argv[1])
SourceName == Join(Dir(argv[1]), BaseName(argv[1]), SourceExt)

PartsSplit ==
  pc = "binary" =>
    /\ argv # <<>>
    /\ Part("sourceDir") = Dir(argv[1])
    /\ Part("sourceBaseName") = BaseName(argv[1])
    /\ Part("sourceExt") = Ext(argv[1])
    /\ "sourceExt" \in set <=> Ext(argv[1]) # <<>>
    /\ "sourceFileName" \notin set

PartsCompleted ==
  pc = "join" =>
    /\ Len(argv) \in {1, 2}
    /\ Part("sourceDir") = Dir(argv[1])
    /\ Part("sourceBaseName") = BaseName(argv[1])
    /\ Part("sourceExt") = SourceExt
    /\ "sourceFileName" \in set => string["sourceFileName"] = SourceName

SourceNamed ==
  pc \in {"release", "open"} =>
    Len(argv) \in {1, 2} /\ string["sourceFileName"] = SourceName

Naming == PartsSplit /\ PartsCompleted /\ SourceNamed

(* An extension is what follows the first dot of the base name that is not *)
(* its first character.                                                    *)
LEMMA ExtensionNamed ==
  ASSUME NEW p \in Path, NamesExtension(p)
  PROVE  BaseEnd(p) <= Len(p) /\ Ext(p) # <<>>
  <1>1. /\ Len(p) \in Nat /\ BaseAt(p) \in 1 .. Len(p)+1
        /\ BaseEnd(p) \in BaseAt(p) .. Len(p)+1
    BY BaseAtIs, BaseEndIs DEF Path
  <1>2. PICK i \in 2 .. Len(p) :
          /\ p[i] = Dot /\ p[i-1] \notin Separators
          /\ \A j \in i .. Len(p) : p[j] \notin Separators
    BY DEF NamesExtension
  <1>3. BaseAt(p) < i
    <2>1. BaseAt(p) > 1 => p[BaseAt(p)-1] \in Separators
      BY BaseAtIs
    <2>2. BaseAt(p) # i
      BY <1>1, <1>2, <2>1
    <2>3. ~(BaseAt(p) > i)
      <3> SUFFICES ASSUME BaseAt(p) > i PROVE FALSE
        OBVIOUS
      <3>1. BaseAt(p)-1 \in i .. Len(p)
        BY <1>1, <1>2
      <3> QED BY <1>1, <1>2, <2>1, <3>1
    <2> QED BY <1>1, <1>2, <2>2, <2>3
  <1>4. BaseEnd(p) <= Len(p)
    <2>1. BaseEnd(p) > Len(p) => \A j \in BaseAt(p)+1 .. Len(p) : p[j] # Dot
      BY BaseEndIs
    <2>2. i \in BaseAt(p)+1 .. Len(p)
      BY <1>1, <1>2, <1>3
    <2> QED BY <1>1, <1>2, <2>1, <2>2
  <1>5. Ext(p) = SubSeq(p, BaseEnd(p), Len(p))
    BY <1>4, ExtIs
  <1>6. Len(Ext(p)) = Len(p) - BaseEnd(p) + 1
    BY <1>1, <1>4, <1>5 DEF Path
  <1> QED BY <1>1, <1>4, <1>6

LEMMA ExtensionAbsent ==
  ASSUME NEW p \in Path, ~NamesExtension(p), DotsInLastComponent(p)
  PROVE  /\ Ext(p) = <<>>
         /\ Hidden(p) \/ \A i \in 1 .. BaseAt(p)-1 : p[i] # Dot
  <1>1. /\ Len(p) \in Nat /\ BaseAt(p) \in 1 .. Len(p)+1
        /\ BaseEnd(p) \in BaseAt(p) .. Len(p)+1
        /\ BaseAt(p) > 1 => p[BaseAt(p)-1] \in Separators
        /\ \A j \in BaseAt(p) .. Len(p) : p[j] \notin Separators
    BY BaseAtIs, BaseEndIs DEF Path
  <1>2. BaseEnd(p) = Len(p)+1
    <2> SUFFICES ASSUME BaseEnd(p) <= Len(p) PROVE FALSE
      BY <1>1
    <2>1. p[BaseEnd(p)] = Dot
      BY BaseEndIs
    <2>2. BaseEnd(p) > BaseAt(p)
      <3>1. CASE Hidden(p)
        <4>1. BaseAt(p)+1 \in 1 .. Len(p)+1
          BY <1>1, <3>1 DEF Hidden
        <4>2. BaseEnd(p) \in BaseAt(p)+1 .. Len(p)+1
          BY <3>1, <4>1, FirstIs DEF BaseEnd
        <4> QED BY <1>1, <4>2
      <3>2. CASE ~Hidden(p)
        BY <1>1, <2>1, <3>2 DEF Hidden
      <3> QED BY <3>1, <3>2
    <2>3. BaseEnd(p) \in 2 .. Len(p) /\ BaseEnd(p)-1 \in BaseAt(p) .. Len(p)
      BY <1>1, <2>2
    <2>4. \A j \in BaseEnd(p) .. Len(p) : p[j] \notin Separators
      BY <1>1
    <2> QED BY <1>1, <2>1, <2>3, <2>4 DEF NamesExtension
  <1>3. \A i \in 1 .. BaseAt(p)-1 : p[i] # Dot
    <2> SUFFICES ASSUME NEW i \in 1 .. BaseAt(p)-1, p[i] = Dot PROVE FALSE
      OBVIOUS
    <2>1. i \in 1 .. Len(p) /\ BaseAt(p)-1 \in i .. Len(p) /\ BaseAt(p) > 1
      BY <1>1
    <2> QED BY <1>1, <2>1 DEF DotsInLastComponent
  <1>4. Ext(p) = SubSeq(p, BaseEnd(p), Len(p))
    BY <1>3, ExtIs
  <1>5. Ext(p) = <<>>
    BY <1>1, <1>2, <1>4 DEF Path
  <1> QED BY <1>3, <1>5

LEMMA NameIsSource ==
  ASSUME TypeOK, Len(argv) \in {1, 2},
         NamesExtension(argv[1]) \/ DotsInLastComponent(argv[1])
  PROVE  SourceName = IF NamesExtension(argv[1]) \/ Len(argv) = 2
                      THEN argv[1] ELSE argv[1] \o DotRet
  <1> DEFINE p == argv[1]
  <1>1. p \in Path
    BY ElementOfSeq DEF TypeOK
  <1>2. CASE NamesExtension(p)
    <2>1. BaseEnd(p) <= Len(p) /\ Ext(p) # <<>>
      BY <1>1, <1>2, ExtensionNamed
    <2>2. Join(Dir(p), BaseName(p), Ext(p)) = p
      BY <1>1, <2>1, SplitJoin
    <2> QED BY <1>2, <2>1, <2>2 DEF SourceName, SourceExt
  <1>3. CASE ~NamesExtension(p)
    <2>1. Ext(p) = <<>> /\ Join(Dir(p), BaseName(p), Ext(p)) = p
      BY <1>1, <1>3, ExtensionAbsent, SplitJoin
    <2>2. CASE Len(argv) = 2
      BY <2>1, <2>2 DEF SourceName, SourceExt
    <2>3. CASE Len(argv) = 1
      <3> DEFINE stem == Dir(p) \o Separator(Dir(p)) \o Stripped(BaseName(p))
      <3>1. Dir(p) \in Path /\ BaseName(p) \in Path
        BY <1>1, PartsArePaths
      <3>2. stem \in Path
        BY <3>1, StemIsPath
      <3>3. Join(Dir(p), BaseName(p), <<>>) = stem
        BY <3>2, ConcatEmptySeq DEF Join, ExtDot, Path
      <3>4. Join(Dir(p), BaseName(p), DotRet) = stem \o DotRet
        BY <3>2, ConcatEmptySeq, Suffixes DEF Join, ExtDot, Begins, DotRet, Path
      <3>5. p = stem
        BY <2>1, <3>3
      <3>6. SourceExt = DotRet
        BY <2>1, <2>3 DEF SourceExt
      <3>7. SourceName = stem \o DotRet
        BY <3>4, <3>6 DEF SourceName
      <3>8. SourceName = p \o DotRet
        BY <3>5, <3>7
      <3>9. Len(argv) # 2
        BY <2>3
      <3> HIDE DEF stem
      <3> QED BY <1>3, <3>8, <3>9
    <2> QED BY <2>2, <2>3
  <1> QED BY <1>2, <1>3

LEMMA NamingStart == Init => Naming
  BY DEF Init, Naming, PartsSplit, PartsCompleted, SourceNamed

LEMMA NamingStep == Inv /\ Naming /\ [Next]_vars => Naming'
  <1> SUFFICES ASSUME Inv, Naming, [Next]_vars PROVE Naming'
    OBVIOUS
  <1> USE DEF Naming
  <1>0. /\ {"sourceDir", "sourceBaseName", "sourceExt"} \subseteq Pointers
        /\ "sourceFileName" \in Pointers
    BY Names DEF Pointers, Temporaries
  <1>1. CASE SplitSource
    <2>1. CASE SplitPath(argv[1], SourceParts) /\ pc' = "binary"
      <3> DEFINE parts == Parts(SourceParts, argv[1])
                 wanted == Wanted(SourceParts, argv[1])
      <3>1. argv # <<>> /\ argv' = argv /\ set = {}
        BY <1>1 DEF SplitSource, Inv, Ownership
      <3>2. set' = wanted /\ string' = [v \in Pointers |-> IF v \in wanted THEN parts[v] ELSE string[v]]
        BY <2>1, <3>1 DEF SplitPath, Allocate
      <3>3. \A v \in Elements(SourceParts) : v \in wanted <=> parts[v] # <<>>
        BY DEF Wanted
      <3>4. /\ parts["sourceDir"] = Dir(argv[1])
            /\ parts["sourceBaseName"] = BaseName(argv[1])
            /\ parts["sourceExt"] = Ext(argv[1])
        BY <1>0 DEF Parts, SourceParts
      <3>5. \A v \in Elements(SourceParts) : Part(v)' = parts[v]
        BY <1>0, <3>2, <3>3, Names DEF Part
      <3>6. "sourceFileName" \notin set'
        BY <3>2, Names DEF Wanted
      <3> QED BY <2>1, <3>1, <3>2, <3>3, <3>4, <3>5, <3>6, Names
              DEF PartsSplit, PartsCompleted, SourceNamed
    <2>2. CASE pc' = "exit"
      BY <2>2 DEF PartsSplit, PartsCompleted, SourceNamed
    <2> QED BY <1>1, <2>1, <2>2 DEF SplitSource
  <1>2. CASE SplitBinary
    <2>1. CASE SplitPath(argv[2], BinaryParts) /\ pc' = "join"
      <3> DEFINE parts == Parts(BinaryParts, argv[2])
                 wanted == Wanted(BinaryParts, argv[2])
      <3>1. pc = "binary" /\ Len(argv) = 2 /\ argv' = argv
        BY <1>2 DEF SplitBinary
      <3>2. /\ set' = set \cup wanted
            /\ string' = [v \in Pointers |-> IF v \in wanted THEN parts[v] ELSE string[v]]
        BY <2>1 DEF SplitPath, Allocate
      <3>3. wanted \subseteq Elements(BinaryParts)
        BY DEF Wanted
      <3>4. \A v \in Elements(SourceParts) : Part(v)' = Part(v)
        BY <1>0, <3>2, <3>3, Names DEF Part
      <3>5. "sourceFileName" \notin set'
        BY <3>1, <3>2, <3>3, Names DEF PartsSplit
      <3>6. SourceExt' = Ext(argv[1])
        BY <3>1 DEF SourceExt
      <3> QED BY <2>1, <3>1, <3>4, <3>5, <3>6, Names
              DEF PartsSplit, PartsCompleted, SourceNamed
    <2>2. CASE pc' = "fail"
      BY <2>2 DEF PartsSplit, PartsCompleted, SourceNamed
    <2> QED BY <1>2, <2>1, <2>2 DEF SplitBinary
  <1>3. CASE DefaultBinary
    <2>1. CASE Allocate(Needed, Defaults) /\ pc' = "join"
      <3>1. pc = "binary" /\ Len(argv) = 1 /\ argv' = argv
        BY <1>3 DEF DefaultBinary
      <3>2. /\ set' = set \cup Needed
            /\ string' = [v \in Pointers |-> IF v \in Needed THEN Defaults[v] ELSE string[v]]
        BY <2>1 DEF Allocate
      <3>3. /\ {"sourceDir", "sourceBaseName", "sourceFileName"} \cap Needed = {}
            /\ "sourceExt" \in Needed <=> "sourceExt" \notin set
        BY DEF Needed
      <3>4. \A v \in {"sourceDir", "sourceBaseName"} : Part(v)' = Part(v)
        BY <1>0, <3>2, <3>3 DEF Part
      <3>5. Part("sourceExt")' = SourceExt'
        <4>1. CASE "sourceExt" \in set
          BY <1>0, <3>1, <3>2, <3>3, <4>1 DEF Part, SourceExt, PartsSplit
        <4>2. CASE "sourceExt" \notin set
          <5>1. Defaults["sourceExt"] = DotRet
            BY <1>0 DEF Defaults
          <5>2. Part("sourceExt")' = DotRet
            BY <1>0, <3>2, <3>3, <4>2, <5>1 DEF Part
          <5> QED BY <3>1, <4>2, <5>2 DEF SourceExt, PartsSplit
        <4> QED BY <4>1, <4>2
      <3>6. "sourceFileName" \notin set'
        BY <3>1, <3>2, <3>3 DEF PartsSplit
      <3> QED BY <2>1, <3>1, <3>4, <3>5, <3>6
              DEF PartsSplit, PartsCompleted, SourceNamed
    <2>2. CASE pc' = "fail"
      BY <2>2 DEF PartsSplit, PartsCompleted, SourceNamed
    <2> QED BY <1>3, <2>1, <2>2 DEF DefaultBinary
  <1>4. CASE JoinName
    <2>1. PICK n \in 1 .. 4 :
            /\ FileNames[n] \notin set
            /\ \A m \in 1 .. n-1 : FileNames[m] \in set
            /\ \/ /\ Allocate({FileNames[n]}, [v \in {FileNames[n]} |-> Joined(v)])
                  /\ pc' = IF n = 4 THEN "release" ELSE "join"
               \/ pc' = "fail"
      BY <1>4 DEF JoinName
    <2>2. CASE /\ Allocate({FileNames[n]}, [v \in {FileNames[n]} |-> Joined(v)])
               /\ pc' = IF n = 4 THEN "release" ELSE "join"
      <3>1. pc = "join" /\ argv' = argv
        BY <1>4 DEF JoinName
      <3>2. /\ set' = set \cup {FileNames[n]}
            /\ string' = [v \in Pointers |-> IF v = FileNames[n] THEN Joined(v) ELSE string[v]]
        BY <2>2 DEF Allocate
      <3>3. FileNames[1] = "sourceFileName" /\ FileNames[n] \in Elements(FileNames)
        BY Names DEF FileNames
      <3>4. \A v \in Elements(SourceParts) : Part(v)' = Part(v)
        BY <1>0, <3>2, <3>3, Names DEF Part
      <3>5. "sourceFileName" \in set' /\ string'["sourceFileName"] = SourceName
        <4>1. CASE n = 1
          <5>1. Components("sourceFileName") =
                  <<Part("sourceDir"), Part("sourceBaseName"), Part("sourceExt")>>
            BY DEF Components
          <5>2. Joined("sourceFileName") = SourceName
            BY <3>1, <5>1 DEF Joined, SourceName, PartsCompleted
          <5> QED BY <1>0, <3>2, <3>3, <4>1, <5>2
        <4>2. CASE n # 1
          <5>1. "sourceFileName" \in set /\ FileNames[n] # "sourceFileName"
            BY <2>1, <3>3, <4>2
          <5> QED BY <1>0, <3>1, <3>2, <5>1 DEF PartsCompleted
        <4> QED BY <4>1, <4>2
      <3>6. SourceName' = SourceName /\ SourceExt' = SourceExt
        BY <3>1 DEF SourceName, SourceExt
      <3> QED BY <2>2, <3>1, <3>4, <3>5, <3>6, Names
              DEF PartsSplit, PartsCompleted, SourceNamed
    <2>3. CASE pc' = "fail"
      BY <2>3 DEF PartsSplit, PartsCompleted, SourceNamed
    <2> QED BY <2>1, <2>2, <2>3
  <1>5. CASE ReleaseParts
    BY <1>5 DEF ReleaseParts, PartsSplit, PartsCompleted, SourceNamed, SourceName, SourceExt
  <1>6. CASE \/ PrintUsage \/ ExitError \/ OpenSource
             \/ CreateContext \/ Parse \/ DestroyContext \/ Cleanup
    BY <1>6 DEF PrintUsage, ExitError, OpenSource, CreateContext, Parse, DestroyContext, Cleanup,
                PartsSplit, PartsCompleted, SourceNamed
  <1>7. CASE UNCHANGED vars
    BY <1>7 DEF vars, PartsSplit, PartsCompleted, SourceNamed, SourceName, SourceExt, Part
  <1> QED BY <1>1, <1>2, <1>3, <1>4, <1>5, <1>6, <1>7 DEF Next

(* For paths of any length: the file opened is the one named, with .ret    *)
(* added where the rules say so, unless only a directory has a dot.        *)
THEOREM RightSource == Spec => []SourceFound
  <1>1. Inv /\ Naming => SourceFound
    <2> SUFFICES ASSUME Inv, Naming, pc = "open",
                        NamesExtension(argv[1]) \/ DotsInLastComponent(argv[1])
                 PROVE  string["sourceFileName"] =
                          IF NamesExtension(argv[1]) \/ Len(argv) = 2
                          THEN argv[1] ELSE argv[1] \o DotRet
      BY DEF SourceFound
    <2>1. TypeOK /\ Len(argv) \in {1, 2} /\ string["sourceFileName"] = SourceName
      BY DEF Inv, Naming, SourceNamed
    <2> QED BY <2>1, NameIsSource
  <1> QED BY <1>1, Always, NamingStart, NamingStep, PTL DEF Spec
=============================================================================
