--------------------------- MODULE RefLexerProofs ---------------------------
(***************************************************************************)
(* Proofs about RefLexer, for files of any length and content, names of    *)
(* any length and an unsigned of any width.                                *)
(***************************************************************************)
EXTENDS RefLexer, EnumerationProofs, TLAPS

Char(f) == ToSet(f) \cup {EOF, NUL}
IsRetFile(f, s) ==
  /\ s.pos \in 0 .. Len(f)
  /\ {s.cur, s.next} \subseteq Char(f)
  /\ {s.line, s.column} \subseteq 0 .. UIntMod-1

(* A comment is open while one is read, and a name is made of characters.  *)
IsLocal(f) ==
  /\ fn \in {"closed", "idle", "space", "comment", "lineComment", "ident", "number", "exit"}
  /\ call.op \in {"none", "mark", "skip", "ident", "number"}
  /\ result \in {0, 3}
  /\ level \in Nat /\ (fn = "comment" => level # 0)
  /\ ident \in Seq(Char(f)) /\ Len(ident) <= IdentMaxIndex
  /\ base \in {0, 2, 8, 10, 16}
  /\ number \in 0 .. UIntMod-1

TypeInv == file \in Files /\ IsRetFile(file, src) /\ IsLocal(file)
-----------------------------------------------------------------------------
(* A file is a sequence of characters, none of which is the end of file.   *)
LEMMA FileType ==
  ASSUME file \in Files
  PROVE  /\ file \in Seq(ToSet(file)) /\ EOF \notin ToSet(file) /\ Len(file) \in Nat
         /\ \A i \in 1 .. Len(file) : file[i] \in ToSet(file) /\ file[i] # EOF
  <1>1. file \in Seq(ToSet(file)) /\ EOF \notin ToSet(file)
    BY FilesAssumption
  <1>2. \A i \in 1 .. Len(file) : file[i] \in ToSet(file)
    BY <1>1, ElementOfSeq
  <1> QED BY <1>1, <1>2

(* What is counted fits in an unsigned.                                    *)
LEMMA WrapType ==
  ASSUME NEW n \in Int
  PROVE  Wrap(n) \in 0 .. UIntMod-1
  BY SizeAssumption DEF Wrap

(* Reading a character leaves a position in the file and two characters.   *)
LEMMA ReadCharType ==
  ASSUME file \in Files, NEW s, IsRetFile(file, s)
  PROVE  IsRetFile(file, ReadChar(s))
  <1> DEFINE r == ReadChar(s)
  <1>1. /\ r.pos = After(s.pos) /\ r.cur = s.next /\ r.next = At(s.pos + 1)
        /\ r.line = IF s.cur = LF THEN Wrap(s.line + 1) ELSE s.line
        /\ r.column = IF s.cur = LF THEN 1 ELSE Wrap(s.column + 1)
    BY DEF ReadChar
  <1>2. s.pos \in 0 .. Len(file) /\ s.line \in 0 .. UIntMod-1 /\ s.column \in 0 .. UIntMod-1
    BY DEF IsRetFile
  <1>3. Len(file) \in Nat
    BY FileType
  <1>4. At(s.pos + 1) \in Char(file)
    BY <1>2, <1>3, FileType DEF At, Char
  <1>5. After(s.pos) \in 0 .. Len(file)
    BY <1>2, <1>3 DEF After, At, EOF, CR, LF
  <1>6. r.line \in 0 .. UIntMod-1 /\ r.column \in 0 .. UIntMod-1
    <2>1. Wrap(s.line + 1) \in 0 .. UIntMod-1
      BY <1>2, SizeAssumption DEF Wrap
    <2>2. Wrap(s.column + 1) \in 0 .. UIntMod-1
      BY <1>2, SizeAssumption DEF Wrap
    <2>3. 1 \in 0 .. UIntMod-1
      BY SizeAssumption
    <2> HIDE DEF r
    <2> QED BY <1>1, <1>2, <2>1, <2>2, <2>3
  <1> HIDE DEF r
  <1>7. {r.cur, r.next} \subseteq Char(file)
    BY <1>1, <1>4 DEF IsRetFile
  <1> QED BY <1>1, <1>5, <1>6, <1>7 DEF IsRetFile, r

(* What a character adds as a digit.                                       *)
LEMMA PositionInIs ==
  ASSUME NEW s, NEW c \in ToSet(s)
  PROVE  PositionIn(s, c) \in DOMAIN s /\ s[PositionIn(s, c)] = c
  BY DEF ToSet, PositionIn

(* A decimal digit counts less than ten, as it should.                     *)
LEMMA DigitWorth ==
  ASSUME NEW c, IsDigit(c)
  PROVE  Worth(c) \in 0 .. 9 /\ HexValue(c) = Worth(c)
  <1>1. PositionIn(Digits, c) \in DOMAIN Digits
    BY PositionInIs DEF IsDigit
  <1>2. DOMAIN Digits = 1 .. 10
    BY DEF Digits
  <1>3. c \notin ToSet(Upper)
    <2>1. ASSUME c \in ToSet(Upper) PROVE FALSE
      <3>1. PICK i \in DOMAIN Upper : c = Upper[i]
        BY <2>1 DEF ToSet
      <3>2. PICK j \in DOMAIN Digits : c = Digits[j]
        BY DEF ToSet, IsDigit
      <3>3. c \in {"A", "B", "C", "D", "E", "F"}
        <4>1. i \in 1 .. 6
          BY <3>1 DEF Upper
        <4> QED BY <3>1, <4>1 DEF Upper
      <3>4. c \in {"0", "1", "2", "3", "4", "5", "6", "7", "8", "9"}
        <4>1. j \in 1 .. 10
          BY <3>2 DEF Digits
        <4> QED BY <3>2, <4>1 DEF Digits
      <3> QED BY <3>3, <3>4
    <2> QED BY <2>1
  <1> HIDE DEF IsDigit
  <1> QED BY <1>1, <1>2, <1>3 DEF Worth, HexValue

(* No digit counts more than 22, the most an upper-case letter adds.       *)
LEMMA WorthType ==
  ASSUME NEW b, NEW c, IsDigitOf(b, c)
  PROVE  Worth(c) \in 0 .. 22 /\ (b # 16 => IsDigit(c))
  <1>1. CASE IsDigit(c)
    <2>1. Worth(c) \in 0 .. 9
      BY <1>1, DigitWorth
    <2> QED BY <1>1, <2>1
  <1>2. CASE ~IsDigit(c)
    <2>0. b = 16
      <3>1. c \in {"0", "1"} => IsDigit(c)
        <4>1. Digits[1] = "0" /\ Digits[2] = "1" /\ DOMAIN Digits = 1 .. 10
          BY DEF Digits
        <4> QED BY <4>1 DEF IsDigit, ToSet
      <3> HIDE DEF IsDigit
      <3> QED BY <1>2, <3>1 DEF IsDigitOf
    <2>1. c \in ToSet(Upper) \/ c \in {"a", "b", "c", "d", "e", "f"}
      BY <1>2, <2>0 DEF IsDigitOf
    <2>2. CASE c \in ToSet(Upper)
      <3>1. PositionIn(Upper, c) \in DOMAIN Upper
        BY <2>2, PositionInIs
      <3>2. DOMAIN Upper = 1 .. 6
        BY DEF Upper
      <3> QED BY <1>2, <2>0, <2>2, <3>1, <3>2 DEF Worth
    <2>3. CASE c \notin ToSet(Upper)
      <3>1. DOMAIN Lower = 1 .. 8
        BY DEF Lower
      <3>2. c \in ToSet(Lower)
        <4>1. \E i \in 1 .. 8 : Lower[i] = c
          BY <2>1, <2>3 DEF Lower
        <4> QED BY <3>1, <4>1 DEF ToSet
      <3>3. PositionIn(Lower, c) \in DOMAIN Lower
        BY <3>2, PositionInIs
      <3> QED BY <1>2, <2>0, <2>3, <3>1, <3>3 DEF Worth
    <2> QED BY <2>1, <2>2, <2>3
  <1> QED BY <1>1, <1>2
-----------------------------------------------------------------------------
(* A reader's state is typed at the start and after every step.            *)
LEMMA InitType ==
  ASSUME Init
  PROVE  TypeInv
  <1>1. file \in Seq(ToSet(file)) /\ Len(file) \in Nat
    BY FileType DEF Init
  <1>2. IsRetFile(file, NoCall.from)
    BY <1>1, SizeAssumption DEF IsRetFile, NoCall, Char
  <1>3. ident \in Seq(Char(file)) /\ Len(ident) <= IdentMaxIndex
    BY SizeAssumption DEF Init
  <1>4. number \in 0 .. UIntMod-1
    BY SizeAssumption DEF Init
  <1>5. IsLocal(file)
    BY <1>3, <1>4 DEF Init, IsLocal, NoCall
  <1> QED BY <1>2, <1>5 DEF Init, TypeInv

(* Reading twice leaves a RetFile too.                                     *)
LEMMA ReadType ==
  ASSUME TypeInv
  PROVE  /\ IsRetFile(file, ReadChar(src)) /\ IsRetFile(file, ReadChar(ReadChar(src)))
         /\ src.cur \in Char(file)
  <1>1. IsRetFile(file, ReadChar(src))
    BY ReadCharType DEF TypeInv
  <1> QED BY <1>1, ReadCharType DEF TypeInv, IsRetFile

(* No step changes the file, and each reads two characters at most.        *)
LEMMA StepReads ==
  ASSUME [Next]_vars
  PROVE  file' = file /\ src' \in {src, ReadChar(src), ReadChar(ReadChar(src))}
  BY DEF Next, vars, OpenRet, SkipMark, SkipNonterminals, ReadIdent, ReadNumber, Loop, Skip,
         SkipSpace, OpenComment, NestComment, CloseComment, OpenLineComment, EndLineComment,
         SkipInComment, EndSkip, IdentChar, ReadDigit

(* Every action keeps the types.                                           *)
LEMMA TypeStep ==
  ASSUME TypeInv, [Next]_vars
  PROVE  TypeInv'
  <1>0. file \in Files /\ IsRetFile(file, src) /\ IsLocal(file)
    BY DEF TypeInv
  <1>1. file' = file /\ src' \in {src, ReadChar(src), ReadChar(ReadChar(src))}
    BY StepReads
  <1>2. IsRetFile(file, src')
    BY <1>0, <1>1, ReadType
  <1> SUFFICES IsLocal(file)'
    BY <1>0, <1>1, <1>2 DEF TypeInv
  <1>3. CASE UNCHANGED vars
    BY <1>0, <1>3 DEF vars, IsLocal
  <1>4. CASE OpenRet
    BY <1>0, <1>4 DEF OpenRet, IsLocal
  <1>5. CASE SkipMark
    BY <1>0, <1>5 DEF SkipMark, Begin, IsLocal
  <1>6. CASE SkipNonterminals
    BY <1>0, <1>6 DEF SkipNonterminals, Begin, IsLocal
  <1>7. CASE Skip
    BY <1>0, <1>7 DEF Skip, SkipSpace, OpenComment, NestComment, CloseComment, OpenLineComment,
                      EndLineComment, SkipInComment, EndSkip, IsLocal
  <1>8. CASE ReadIdent
    <2>1. <<>> \in Seq(Char(file)) /\ Len(<<>>) <= IdentMaxIndex
      BY SizeAssumption
    <2> QED BY <1>0, <1>8, <2>1 DEF ReadIdent, Begin, IsLocal
  <1>9. CASE IdentChar
    <2>1. src.cur \in Char(file)
      BY ReadType
    <2>2. ident \in Seq(Char(file)) /\ Len(ident) <= IdentMaxIndex
      BY <1>0 DEF IsLocal
    <2>3. /\ Append(ident, src.cur) \in Seq(Char(file))
          /\ Len(Append(ident, src.cur)) = Len(ident) + 1
      BY <2>1, <2>2, AppendProperties
    <2>4. ident' \in Seq(Char(file)) /\ Len(ident') <= IdentMaxIndex
      BY <1>9, <2>2, <2>3, SizeAssumption DEF IdentChar
    <2> QED BY <1>0, <1>9, <2>4 DEF IdentChar, IsLocal
  <1>10. CASE ReadNumber
    <2>1. IsDigit(src'.cur) => Worth(src'.cur) \in 0 .. UIntMod-1
      BY DigitWorth, SizeAssumption
    <2>2. base' \in {0, 2, 8, 10, 16} /\ number' \in 0 .. UIntMod-1 /\ fn' \in {"number", "exit"}
      BY <1>10, <2>1, SizeAssumption DEF ReadNumber, StartNumber
    <2> QED BY <1>0, <1>10, <2>2 DEF ReadNumber, Begin, IsLocal
  <1>11. CASE ReadDigit
    <2>1. number \in 0 .. UIntMod-1 /\ base \in {0, 2, 8, 10, 16}
      BY <1>0 DEF IsLocal
    <2>2. ASSUME IsDigitOf(base, src'.cur)
          PROVE  Accumulated(base, number, src'.cur) \in 0 .. UIntMod-1
      <3>1. Worth(src'.cur) \in 0 .. 22
        BY <2>2, WorthType
      <3> QED BY <2>1, <3>1, SizeAssumption DEF Accumulated, Wrap
    <2>3. number' \in 0 .. UIntMod-1
      BY <1>11, <2>1, <2>2 DEF ReadDigit
    <2> QED BY <1>0, <1>11, <2>3 DEF ReadDigit, IsLocal
  <1> QED BY <1>3, <1>4, <1>5, <1>6, <1>7, <1>8, <1>9, <1>10, <1>11 DEF Next, Loop

(* The types hold in every state.                                          *)
LEMMA Typed == Spec => []TypeInv
  <1>1. Init => TypeInv
    BY InitType
  <1>2. TypeInv /\ [Next]_vars => TypeInv'
    BY TypeStep
  <1> QED BY <1>1, <1>2, PTL DEF Spec

(* Whatever the file holds, the reader stays in it, a name does not grow   *)
(* past its room and a number stays an unsigned.                           *)
THEOREM Types == Spec => []TypeOK
  <1>1. TypeInv => TypeOK
    BY DEF TypeInv, TypeOK, IsRetFile, IsLocal, Char
  <1> QED BY <1>1, Typed, PTL
-----------------------------------------------------------------------------
(* Remainders: what is congruent modulo 2^w has the same.                  *)
LEMMA Division ==
  ASSUME NEW m \in Nat, m # 0, NEW x \in Int
  PROVE  /\ x \div m \in Int /\ x % m \in 0 .. m-1
         /\ x = m * (x \div m) + (x % m)
  OBVIOUS

(* Quotient and remainder are unique.                                      *)
LEMMA OneRemainder ==
  ASSUME NEW m \in Nat, m # 0, NEW p \in Int, NEW q \in Int,
         NEW r \in 0 .. m-1, NEW t \in 0 .. m-1, m * p + r = m * q + t
  PROVE  r = t
  <1>1. ASSUME p < q PROVE FALSE
    <2>1. m * (p+1) <= m * q
      BY <1>1
    <2>2. m * (p+1) = m * p + m
      OBVIOUS
    <2> QED BY <2>1, <2>2
  <1>2. ASSUME q < p PROVE FALSE
    <2>1. m * (q+1) <= m * p
      BY <1>2
    <2>2. m * (q+1) = m * q + m
      OBVIOUS
    <2> QED BY <2>1, <2>2
  <1> QED BY <1>1, <1>2

(* Multiples of 2^w count for nothing.                                     *)
LEMMA WrapCongruent ==
  ASSUME NEW x \in Int, NEW y \in Int, NEW d \in Int, x = y + UIntMod * d
  PROVE  Wrap(x) = Wrap(y)
  <1>0. UIntMod \in Nat /\ UIntMod # 0
    BY SizeAssumption
  <1> DEFINE p == x \div UIntMod  q == y \div UIntMod  r == x % UIntMod  t == y % UIntMod
  <1>1. p \in Int /\ r \in 0 .. UIntMod-1 /\ x = UIntMod * p + r
    BY <1>0, Division
  <1>2. q \in Int /\ t \in 0 .. UIntMod-1 /\ y = UIntMod * q + t
    BY <1>0, Division
  <1>3. Wrap(x) = r /\ Wrap(y) = t
    BY DEF Wrap
  <1> HIDE DEF p, q, r, t
  <1>4. UIntMod * (q + d) = UIntMod * q + UIntMod * d
    BY <1>0, <1>2
  <1>5. UIntMod * p + r = UIntMod * (q + d) + t /\ q + d \in Int
    BY <1>0, <1>1, <1>2, <1>4
  <1>6. r = t
    BY <1>0, <1>1, <1>2, <1>5, OneRemainder
  <1> QED BY <1>3, <1>6

(* Wrapping before an addition or a multiplication changes nothing after.  *)
LEMMA WrapTwice ==
  ASSUME NEW x \in Int, NEW b \in Int, NEW w \in Int
  PROVE  Wrap(Wrap(x) * b + w) = Wrap(x * b + w)
  <1>0. UIntMod \in Nat /\ UIntMod # 0
    BY SizeAssumption
  <1> DEFINE q == x \div UIntMod  r == x % UIntMod
  <1>1. q \in Int /\ r \in 0 .. UIntMod-1 /\ x = UIntMod * q + r
    BY <1>0, Division
  <1>2. Wrap(x) = r
    BY DEF Wrap
  <1> HIDE DEF q, r
  <1>3. x * b + w = (r * b + w) + UIntMod * (q * b)
    BY <1>0, <1>1
  <1>4. x * b + w \in Int /\ r * b + w \in Int /\ q * b \in Int
    BY <1>1
  <1>5. Wrap(x * b + w) = Wrap(r * b + w)
    BY <1>3, <1>4, WrapCongruent
  <1> QED BY <1>2, <1>5

(* So it is with an addition alone.                                        *)
LEMMA WrapPlus ==
  ASSUME NEW x \in Int, NEW w \in Int
  PROVE  Wrap(Wrap(x) + w) = Wrap(x + w)
  <1>1. Wrap(x) \in Int
    BY SizeAssumption DEF Wrap
  <1>2. Wrap(Wrap(x) * 1 + w) = Wrap(x * 1 + w)
    BY WrapTwice
  <1>3. Wrap(x) * 1 + w = Wrap(x) + w /\ x * 1 + w = x + w
    BY <1>1
  <1> QED BY <1>2, <1>3

(* What fits is left as it is.                                             *)
LEMMA WrapSmall ==
  ASSUME NEW x \in 0 .. UIntMod-1
  PROVE  Wrap(x) = x
  <1>0. UIntMod \in Nat /\ UIntMod # 0
    BY SizeAssumption
  <1>1. x % UIntMod \in 0 .. UIntMod-1 /\ x \div UIntMod \in Int
        /\ x = UIntMod * (x \div UIntMod) + (x % UIntMod)
    BY <1>0, Division
  <1>2. UIntMod * 0 + x = UIntMod * (x \div UIntMod) + (x % UIntMod)
    BY <1>0, <1>1
  <1>3. x % UIntMod = x
    BY <1>0, <1>1, <1>2, OneRemainder
  <1> QED BY <1>3 DEF Wrap
-----------------------------------------------------------------------------
(* The text of a file, and where in it a position of the file is.          *)
LEMMA TextIs ==
  ASSUME NEW f \in Files
  PROVE  /\ Len(f) \in Nat /\ ReadAt(f) \in SUBSET (1 .. Len(f))
         /\ Text(f) \in Seq(ToSet(f)) /\ Len(Text(f)) \in Nat
         /\ CountTo(ReadAt(f), 0) = 0 /\ CountTo(ReadAt(f), Len(f)) = Len(Text(f))
  <1>1. f \in Seq(ToSet(f))
    BY FilesAssumption
  <1>2. Len(f) \in Nat /\ DOMAIN f = 1 .. Len(f)
    BY <1>1
  <1>3. ReadAt(f) \in SUBSET (1 .. Len(f))
    BY <1>2 DEF ReadAt
  <1>4. /\ Text(f) \in Seq(ToSet(f)) /\ Len(Text(f)) = Cardinality(ReadAt(f))
        /\ Cardinality(ReadAt(f)) \in 0 .. Len(f)
    BY <1>1, <1>3, ElementsAre DEF Text
  <1>5. CountTo(ReadAt(f), 0) = 0 /\ CountTo(ReadAt(f), Len(f)) = Cardinality(ReadAt(f))
    BY <1>2, <1>3, CountEnds
  <1> QED BY <1>2, <1>3, <1>4, <1>5

(* A character that is read stands in the text where it is counted.        *)
LEMMA CharacterAt ==
  ASSUME NEW f \in Files, NEW i \in ReadAt(f)
  PROVE  /\ CountTo(ReadAt(f), i) \in 1 .. Len(Text(f))
         /\ TextAt(f, CountTo(ReadAt(f), i)) = f[i]
         /\ f[i] # EOF
  <1>1. f \in Seq(ToSet(f)) /\ EOF \notin ToSet(f)
    BY FilesAssumption
  <1>2. ReadAt(f) \in SUBSET (1 .. Len(f)) /\ Len(Text(f)) \in Nat
    BY TextIs
  <1>3. /\ Len(ElementsAt(f, ReadAt(f))) = Cardinality(ReadAt(f))
        /\ \A j \in ReadAt(f) : /\ CountTo(ReadAt(f), j) \in 1 .. Cardinality(ReadAt(f))
                                /\ ElementsAt(f, ReadAt(f))[CountTo(ReadAt(f), j)] = f[j]
    BY <1>1, <1>2, ElementsAre
  <1>4. CountTo(ReadAt(f), i) \in 1 .. Len(Text(f)) /\ Text(f)[CountTo(ReadAt(f), i)] = f[i]
    BY <1>3 DEF Text
  <1>5. f[i] \in ToSet(f)
    BY <1>1, <1>2, ElementOfSeq
  <1> QED BY <1>1, <1>2, <1>4, <1>5 DEF TextAt

(* The end of the text is seen right after its last character.             *)
LEMMA TextAtType ==
  ASSUME NEW f \in Files, NEW k \in Nat \ {0}
  PROVE  /\ k <= Len(Text(f)) => TextAt(f, k) \in ToSet(f) /\ TextAt(f, k) = Text(f)[k]
         /\ (TextAt(f, k) = EOF) <=> (Len(Text(f)) < k)
  <1>1. Text(f) \in Seq(ToSet(f)) /\ Len(Text(f)) \in Nat /\ EOF \notin ToSet(f)
    BY TextIs, FilesAssumption
  <1>2. k <= Len(Text(f)) => Text(f)[k] \in ToSet(f)
    BY <1>1, ElementOfSeq
  <1> QED BY <1>1, <1>2 DEF TextAt

(* The text of a file that does not end in CR is what the reader passes.   *)
Reading(f, s) ==
  /\ s.pos \in 0 .. Len(f)
  /\ s.pos < Len(f) => s.pos + 1 \in ReadAt(f)
  /\ s.next = EOF => s.pos = Len(f)
  /\ Index(f, s) \in 1 .. Len(Text(f)) + 1
  /\ s.cur = TextAt(f, Index(f, s)) /\ s.next = TextAt(f, Index(f, s) + 1)
  /\ s.line = LineOf(f, Index(f, s)) /\ s.column = ColumnOf(f, Index(f, s))

(* What fgetc reads next is the next character of the text, and the seek   *)
(* leaves the file there.                                                  *)
LEMMA AfterIs ==
  ASSUME file \in Files, ~EndsInCR(file), NEW p \in 0 .. Len(file),
         p < Len(file) => p + 1 \in ReadAt(file)
  PROVE  /\ p = Len(file) => At(p+1) = EOF /\ After(p) = p
         /\ p < Len(file) => /\ At(p+1) = file[p+1] /\ At(p+1) # EOF
                             /\ After(p) \in 0 .. Len(file)
                             /\ CountTo(ReadAt(file), After(p)) = CountTo(ReadAt(file), p) + 1
                             /\ After(p) < Len(file) => After(p) + 1 \in ReadAt(file)
  <1> DEFINE R == ReadAt(file)
  <1>0. Len(file) \in Nat /\ R \in SUBSET (1 .. Len(file))
    BY TextIs
  <1>1. CASE p = Len(file)
    BY <1>0, <1>1 DEF At, After
  <1>2. CASE p < Len(file)
    <2>1. p \in Nat /\ p+1 \in R /\ p+1 \in 1 .. Len(file)
      BY <1>0, <1>2
    <2>2. At(p+1) = file[p+1] /\ At(p+1) # EOF
      BY <2>1, CharacterAt DEF At
    <2>3. CountTo(R, p+1) = CountTo(R, p) + 1
      BY <1>0, <2>1, CountStep
    <2>4. \A i \in 1 .. Len(file) : i \in R <=> ~(file[i] = LF /\ i > 1 /\ file[i-1] = CR)
      BY <1>0, FileType DEF ReadAt
    <2> HIDE DEF R
    <2>5. CASE At(p+1) = CR /\ At(p+2) = LF
      <3>1. p+2 \in 1 .. Len(file) /\ file[p+2] = LF /\ file[p+1] = CR
        BY <1>0, <2>1, <2>2, <2>5 DEF At, LF, EOF
      <3>2. p+2 \notin R
        BY <2>1, <2>4, <3>1
      <3>3. CountTo(R, p+2) = CountTo(R, p+1)
        <4> DEFINE q == p+1
        <4>1. q \in Nat /\ q+1 = p+2
          BY <2>1
        <4> HIDE DEF q
        <4>2. CountTo(R, q+1) = CountTo(R, q) + (IF q+1 \in R THEN 1 ELSE 0)
          BY <1>0, <4>1, CountStep
        <4>3. CountTo(R, q) \in 0 .. Cardinality(R) /\ Cardinality(R) \in 0 .. Len(file)
          BY <1>0, CountType
        <4>4. CountTo(R, p+2) = CountTo(R, q)
          BY <1>0, <3>2, <4>1, <4>2, <4>3
        <4> QED BY <4>4 DEF q
      <3>4. After(p) = p + 2
        BY <2>2, <2>5 DEF After, LF, EOF, CR
      <3>5. p+2 < Len(file) => p+3 \in R
        BY <1>0, <2>1, <2>4, <3>1 DEF LF, CR
      <3> QED BY <1>0, <1>2, <2>1, <2>2, <2>3, <3>1, <3>3, <3>4, <3>5 DEF R
    <2>6. CASE ~(At(p+1) = CR /\ At(p+2) = LF)
      <3>1. ~(At(p+1) = CR /\ At(p+2) = EOF)
        <4>1. SUFFICES ASSUME At(p+1) = CR, At(p+2) = EOF PROVE FALSE
          OBVIOUS
        <4>2. p+1 = Len(file)
          <5>1. SUFFICES ASSUME p+2 <= Len(file) PROVE FALSE
            BY <1>0, <2>1
          <5>2. p+2 \in 1 .. Len(file) /\ At(p+2) = file[p+2]
            BY <1>0, <2>1, <5>1 DEF At
          <5> QED BY <4>1, <5>2, FileType
        <4> QED BY <2>1, <2>2, <4>1, <4>2 DEF EndsInCR
      <3>2. After(p) = p + 1
        BY <2>2, <2>6, <3>1 DEF After
      <3>3. p+1 < Len(file) => p+2 \in R
        <4>1. SUFFICES ASSUME p+1 < Len(file), p+2 \notin R PROVE FALSE
          OBVIOUS
        <4>2. file[p+2] = LF /\ file[p+1] = CR
          BY <1>0, <2>1, <2>4, <4>1
        <4> QED BY <1>0, <2>1, <2>2, <2>6, <4>1, <4>2 DEF At
      <3> QED BY <1>0, <1>2, <2>1, <2>2, <2>3, <3>2, <3>3 DEF R
    <2> QED BY <2>5, <2>6
  <1> QED BY <1>1, <1>2

(* The line feeds before the next character of the text.                   *)
LEMMA FeedsStep ==
  ASSUME NEW f \in Files, NEW k \in 1 .. Len(Text(f))
  PROVE  /\ LineOf(f, k+1) =
              IF TextAt(f, k) = LF THEN Wrap(LineOf(f, k) + 1) ELSE LineOf(f, k)
         /\ ColumnOf(f, k+1) = IF TextAt(f, k) = LF THEN 1 ELSE Wrap(ColumnOf(f, k) + 1)
  <1> DEFINE F == FeedsBefore(f, k)  G == FeedsBefore(f, k+1)
  <1>0. k \in Nat /\ 0 < k
    BY TextIs
  <1>1. IsFiniteSet(F) /\ Cardinality(F) \in Nat /\ \A i \in F : i \in Nat /\ i < k
    <2>1. F \in SUBSET (1 .. k)
      BY <1>0 DEF FeedsBefore
    <2>2. IsFiniteSet(F) /\ Cardinality(F) \in Nat
      <3> HIDE DEF F
      <3> QED BY <1>0, <2>1, PositionsFinite
    <2> QED BY <1>0, <2>2 DEF FeedsBefore
  <1>2. k \notin F
    BY <1>0, <1>1
  <1>3. \A i : i \in 1 .. (k+1)-1 <=> i \in 1 .. k-1 \/ i = k
    BY <1>0
  <1>4. CASE TextAt(f, k) = LF
    <2>1. G = F \cup {k}
      BY <1>3, <1>4, Zenon DEF FeedsBefore
    <2> HIDE DEF F, G
    <2>2. Cardinality(G) = Cardinality(F) + 1
      BY <1>1, <1>2, <2>1, FS_AddElement
    <2>3. LineOf(f, k+1) = Wrap((Cardinality(F) + 1) + 1)
      BY <2>2 DEF LineOf, F, G
    <2>4. LineOf(f, k) = Wrap(Cardinality(F) + 1)
      BY DEF LineOf, F
    <2>5. Wrap(Wrap(Cardinality(F) + 1) + 1) = Wrap((Cardinality(F) + 1) + 1)
      BY <1>1, WrapPlus
    <2>6. Max(G) = k
      <3>1. k \in G /\ \A i \in G : k >= i
        BY <1>0, <1>1, <2>1
      <3>2. \A i \in G : (\A j \in G : i >= j) => i = k
        BY <1>0, <1>1, <2>1
      <3> QED BY <3>1, <3>2 DEF Max
    <2>7. ColumnOf(f, k+1) = 1
      <3>1. G # {}
        BY <2>1
      <3>2. ColumnOf(f, k+1) = Wrap((k+1) - k)
        BY <2>6, <3>1 DEF ColumnOf, G
      <3>3. (k+1) - k = 1 /\ 1 \in 0 .. UIntMod-1
        BY <1>0, SizeAssumption
      <3> QED BY <3>2, <3>3, WrapSmall
    <2> QED BY <1>4, <2>3, <2>4, <2>5, <2>7
  <1>5. CASE TextAt(f, k) # LF
    <2>1. G = F
      BY <1>3, <1>5, Zenon DEF FeedsBefore
    <2> DEFINE c == IF F = {} THEN k + 2 ELSE k - Max(F)
    <2>2. c \in Int /\ (IF F = {} THEN (k+1) + 2 ELSE (k+1) - Max(F)) = c + 1
      <3>1. F # {} => Max(F) \in Int
        <4>1. SUFFICES ASSUME F # {} PROVE Max(F) \in Int
          OBVIOUS
        <4>2. \E x \in F : \A y \in F : x >= y
          BY <1>0, <1>1, <4>1, GreatestOf
        <4> HIDE DEF F
        <4> QED BY <1>1, <4>2 DEF Max
      <3> HIDE DEF F
      <3> QED BY <1>0, <3>1
    <2> HIDE DEF F, G
    <2>3. ColumnOf(f, k) = Wrap(c)
      BY DEF ColumnOf, F
    <2>4. ColumnOf(f, k+1) = Wrap(IF F = {} THEN (k+1) + 2 ELSE (k+1) - Max(F))
      BY <2>1 DEF ColumnOf, F, G
    <2> HIDE DEF c
    <2>5. ColumnOf(f, k+1) = Wrap(c + 1)
      BY <2>2, <2>4
    <2>6. Wrap(Wrap(c) + 1) = Wrap(c + 1)
      BY <2>2, WrapPlus
    <2>7. LineOf(f, k+1) = LineOf(f, k)
      BY <2>1 DEF LineOf, F, G
    <2> QED BY <1>5, <2>3, <2>5, <2>6, <2>7
  <1> QED BY <1>4, <1>5

(* Reading a character goes one character on in the text.                  *)
LEMMA ReadCharReads ==
  ASSUME file \in Files, ~EndsInCR(file), NEW s, Reading(file, s), s.cur # EOF
  PROVE  Reading(file, ReadChar(s)) /\ Index(file, ReadChar(s)) = Index(file, s) + 1
  <1> DEFINE R == ReadAt(file)  n == Len(Text(file))  r == ReadChar(s)
             p == s.pos  k == Index(file, s)
  <1>0. /\ Len(file) \in Nat /\ R \in SUBSET (1 .. Len(file)) /\ n \in Nat
        /\ CountTo(R, Len(file)) = n
    BY TextIs
  <1>1. /\ p \in 0 .. Len(file) /\ (p < Len(file) => p + 1 \in R)
        /\ (s.next = EOF => p = Len(file)) /\ k \in 1 .. n + 1
        /\ s.cur = TextAt(file, k) /\ s.next = TextAt(file, k+1)
        /\ s.line = LineOf(file, k) /\ s.column = ColumnOf(file, k)
    BY DEF Reading
  <1>2. /\ r.pos = After(p) /\ r.cur = s.next /\ r.next = At(p + 1)
        /\ r.line = IF s.cur = LF THEN Wrap(s.line + 1) ELSE s.line
        /\ r.column = IF s.cur = LF THEN 1 ELSE Wrap(s.column + 1)
    BY DEF ReadChar
  <1>3. k \in 1 .. n
    BY <1>0, <1>1, TextAtType
  <1>4. r.line = LineOf(file, k+1) /\ r.column = ColumnOf(file, k+1)
    <2>1. /\ LineOf(file, k+1) = IF s.cur = LF THEN Wrap(LineOf(file, k) + 1) ELSE LineOf(file, k)
          /\ ColumnOf(file, k+1) = IF s.cur = LF THEN 1 ELSE Wrap(ColumnOf(file, k) + 1)
      BY <1>1, <1>3, FeedsStep
    <2> HIDE DEF r, k
    <2> QED BY <1>1, <1>2, <2>1
  <1>5. /\ p = Len(file) => At(p+1) = EOF /\ After(p) = p
        /\ p < Len(file) => /\ At(p+1) = file[p+1] /\ At(p+1) # EOF
                            /\ After(p) \in 0 .. Len(file)
                            /\ CountTo(R, After(p)) = CountTo(R, p) + 1
                            /\ After(p) < Len(file) => After(p) + 1 \in R
    BY <1>1, AfterIs
  <1>6. k = IF s.next # EOF THEN CountTo(R, p) - 1 ELSE n
    BY <1>1 DEF Index
  <1>7. Index(file, r) = IF At(p+1) # EOF THEN CountTo(R, After(p)) - 1
                         ELSE IF s.next # EOF THEN n ELSE n + 1
    BY <1>2 DEF Index
  <1> SUFFICES Reading(file, r) /\ Index(file, r) = k + 1
    OBVIOUS
  <1>10. p \in Nat /\ CountTo(R, p) \in Nat
    <2>1. CountTo(R, p) \in 0 .. Cardinality(R) /\ Cardinality(R) \in 0 .. Len(file)
      BY <1>0, CountType
    <2> HIDE DEF p, R, k, r, n
    <2> QED BY <1>0, <1>1, <2>1
  <1>11. CountTo(R, p+1) = CountTo(R, p) + (IF p+1 \in R THEN 1 ELSE 0)
    BY <1>0, <1>10, CountStep
  <1> HIDE DEF r, k, n, R, p
  <1>8. CASE p = Len(file)
    <2>1. r.pos = p /\ r.next = EOF
      BY <1>2, <1>5, <1>8
    <2>2. Index(file, r) = k + 1
      BY <1>0, <1>5, <1>6, <1>7, <1>8
    <2>3. k + 1 \in 1 .. n+1
      BY <1>0, <1>3
    <2>4. TextAt(file, k+2) = EOF
      <3>1. k + 2 \in Nat \ {0} /\ n < k + 2
        BY <1>0, <1>3, <1>5, <1>6, <1>8
      <3> QED BY <3>1, TextAtType DEF n
    <2>5. r.pos \in 0 .. Len(file) /\ ~(r.pos < Len(file)) /\ (k+1)+1 = k+2
      BY <1>0, <1>1, <1>3, <1>8, <2>1
    <2> QED BY <1>1, <1>2, <1>4, <1>8, <2>1, <2>2, <2>3, <2>4, <2>5 DEF Reading, n, R
  <1>9. CASE p < Len(file)
    <2>1. s.next # EOF /\ k = CountTo(R, p) - 1
      <3>1. s.next # EOF
        BY <1>0, <1>1, <1>9, <1>10
      <3> QED BY <1>6, <3>1
    <2>2. /\ r.pos \in 0 .. Len(file) /\ (r.pos < Len(file) => r.pos + 1 \in R)
          /\ r.next # EOF
      BY <1>2, <1>5, <1>9
    <2>3. Index(file, r) = k + 1
      BY <1>0, <1>1, <1>5, <1>7, <1>9, <1>10, <2>1
    <2>4. CountTo(R, p+1) = k + 2 /\ p+1 \in R
      BY <1>0, <1>1, <1>9, <1>10, <1>11, <2>1
    <2>5. /\ CountTo(R, p+1) \in 1 .. n /\ TextAt(file, CountTo(R, p+1)) = file[p+1]
      BY <2>4, CharacterAt DEF R, n
    <2>6. k+1 \in 1 .. n+1 /\ (k+1)+1 = k+2
      BY <1>0, <1>3
    <2> QED BY <1>1, <1>2, <1>4, <1>5, <1>9, <2>2, <2>3, <2>4, <2>5, <2>6 DEF Reading, n, R
  <1> QED BY <1>0, <1>1, <1>8, <1>9

(* Before the first character is read nothing is counted, and the first    *)
(* character of a file is one of the text.                                 *)
LEMMA OpenReads ==
  ASSUME file \in Files, ~EndsInCR(file)
  PROVE  LET s == ReadChar(ReadChar(NoCall.from))
         IN Reading(file, s) /\ Index(file, s) = 1
  <1> DEFINE R == ReadAt(file)  n == Len(Text(file))  p == After(0)
             one == ReadChar(NoCall.from)  s == ReadChar(one)
  <1>0. /\ Len(file) \in Nat /\ R \in SUBSET (1 .. Len(file)) /\ n \in Nat
        /\ CountTo(R, 0) = 0 /\ CountTo(R, Len(file)) = n
    BY TextIs
  <1>1. LineOf(file, 1) = 1 /\ ColumnOf(file, 1) = 3
    <2>1. FeedsBefore(file, 1) = {}
      BY DEF FeedsBefore
    <2>2. LineOf(file, 1) = Wrap(1) /\ ColumnOf(file, 1) = Wrap(3)
      BY <2>1, FS_EmptySet DEF LineOf, ColumnOf
    <2> QED BY <2>2, SizeAssumption, WrapSmall
  <1>2. one.pos = p /\ one.cur = NUL /\ one.next = At(1) /\ one.line = 1 /\ one.column = 2
    <2>1. Wrap(2) = 2
      BY SizeAssumption, WrapSmall
    <2> QED BY <2>1 DEF NoCall, ReadChar, NUL, LF
  <1>3. s.pos = After(p) /\ s.cur = At(1) /\ s.next = At(p+1) /\ s.line = 1 /\ s.column = 3
    <2>1. Wrap(3) = 3
      BY SizeAssumption, WrapSmall
    <2> HIDE DEF one
    <2> QED BY <1>2, <2>1 DEF ReadChar, NUL, LF
  <1>4. 0 < Len(file) => 1 \in R
    BY <1>0, FileType DEF ReadAt
  <1>5. /\ Len(file) = 0 => At(1) = EOF /\ p = 0
        /\ 0 < Len(file) => /\ At(1) = file[1] /\ At(1) # EOF /\ p \in 0 .. Len(file)
                            /\ CountTo(R, p) = 1
                            /\ p < Len(file) => p + 1 \in R
    <2>1. 0 \in 0 .. Len(file) /\ (0 < Len(file) => 0 + 1 \in R)
      BY <1>0, <1>4
    <2>2. /\ 0 = Len(file) => At(0+1) = EOF /\ After(0) = 0
          /\ 0 < Len(file) => /\ At(0+1) = file[0+1] /\ At(0+1) # EOF
                              /\ After(0) \in 0 .. Len(file)
                              /\ CountTo(R, After(0)) = CountTo(R, 0) + 1
                              /\ After(0) < Len(file) => After(0) + 1 \in R
      BY <2>1, AfterIs
    <2> QED BY <1>0, <2>2
  <1>6. /\ p = Len(file) => At(p+1) = EOF /\ After(p) = p
        /\ p < Len(file) => /\ At(p+1) = file[p+1] /\ At(p+1) # EOF
                            /\ After(p) \in 0 .. Len(file)
                            /\ CountTo(R, After(p)) = CountTo(R, p) + 1
                            /\ After(p) < Len(file) => After(p) + 1 \in R
    <2>1. p \in 0 .. Len(file) /\ (p < Len(file) => p + 1 \in R)
      BY <1>0, <1>5
    <2> HIDE DEF p
    <2> QED BY <2>1, AfterIs
  <1>7. Index(file, s) = IF At(p+1) # EOF THEN CountTo(R, After(p)) - 1
                         ELSE IF At(1) # EOF THEN n ELSE n + 1
    BY <1>3 DEF Index
  <1> SUFFICES Reading(file, s) /\ Index(file, s) = 1
    OBVIOUS
  <1>8. ASSUME 0 < Len(file)
        PROVE  CountTo(R, 1) = 1 /\ 1 \in 1 .. n /\ TextAt(file, 1) = file[1]
    <2>1. CountTo(R, 0+1) = CountTo(R, 0) + (IF 0+1 \in R THEN 1 ELSE 0)
      BY <1>0, CountStep
    <2>2. CountTo(R, 1) = 1
      BY <1>0, <1>4, <1>8, <2>1
    <2>3. CountTo(R, 1) \in 1 .. n /\ TextAt(file, CountTo(R, 1)) = file[1]
      BY <1>4, <1>8, CharacterAt
    <2> QED BY <2>2, <2>3
  <1> HIDE DEF R, n, p, one, s
  <1>9. CASE Len(file) = 0
    <2>1. n = 0 /\ p = Len(file) /\ Index(file, s) = 1
      BY <1>0, <1>5, <1>6, <1>7, <1>9
    <2>2. TextAt(file, 1) = EOF /\ TextAt(file, 2) = EOF
      BY <2>1 DEF TextAt, n
    <2>3. s.pos = 0 /\ s.cur = EOF /\ s.next = EOF
      BY <1>3, <1>5, <1>6, <1>9, <2>1
    <2> QED BY <1>1, <1>3, <1>9, <2>1, <2>2, <2>3 DEF Reading, n, R
  <1>10. CASE 0 < Len(file) /\ p = Len(file)
    <2>1. n = 1 /\ Index(file, s) = 1
      BY <1>0, <1>5, <1>6, <1>7, <1>10
    <2>2. TextAt(file, 1) = file[1] /\ TextAt(file, 2) = EOF
      BY <1>8, <1>10, <2>1 DEF TextAt, n
    <2>3. s.pos = Len(file) /\ s.cur = file[1] /\ s.next = EOF
      BY <1>3, <1>5, <1>6, <1>10
    <2> QED BY <1>0, <1>1, <1>3, <2>1, <2>2, <2>3 DEF Reading, n, R
  <1>11. CASE 0 < Len(file) /\ p < Len(file)
    <2>0. p \in Nat /\ p + 1 \in R /\ CountTo(R, p) = 1
      BY <1>0, <1>5, <1>11
    <2>1. CountTo(R, p+1) = 2
      <3>1. CountTo(R, p+1) = CountTo(R, p) + (IF p+1 \in R THEN 1 ELSE 0)
        BY <1>0, <2>0, CountStep
      <3> QED BY <2>0, <3>1
    <2>2. CountTo(R, p+1) \in 1 .. n /\ TextAt(file, CountTo(R, p+1)) = file[p+1]
      BY <2>0, CharacterAt DEF R, n
    <2>3. Index(file, s) = 1
      BY <1>6, <1>7, <1>11, <2>0
    <2>4. /\ s.pos \in 0 .. Len(file) /\ (s.pos < Len(file) => s.pos + 1 \in R)
          /\ s.cur = TextAt(file, 1) /\ s.next = TextAt(file, 2) /\ s.next # EOF
      BY <1>3, <1>5, <1>6, <1>8, <1>11, <2>1, <2>2
    <2>5. 1 \in 1 .. n+1
      BY <1>0
    <2> QED BY <1>1, <1>3, <2>3, <2>4, <2>5 DEF Reading, n, R
  <1> QED BY <1>0, <1>5, <1>9, <1>10, <1>11

(* Reading two characters goes two on.                                     *)
LEMMA ReadTwiceReads ==
  ASSUME file \in Files, ~EndsInCR(file), NEW s, Reading(file, s), s.cur # EOF, s.next # EOF
  PROVE  /\ Reading(file, ReadChar(ReadChar(s)))
         /\ Index(file, ReadChar(ReadChar(s))) = Index(file, s) + 2
  <1> DEFINE r == ReadChar(s)
  <1>1. Reading(file, r) /\ Index(file, r) = Index(file, s) + 1
    BY ReadCharReads
  <1>2. r.cur # EOF
    BY DEF ReadChar
  <1>3. Index(file, s) \in Nat
    BY TextIs DEF Reading
  <1> HIDE DEF r
  <1>4. Reading(file, ReadChar(r)) /\ Index(file, ReadChar(r)) = Index(file, r) + 1
    BY <1>1, <1>2, ReadCharReads
  <1> QED BY <1>1, <1>3, <1>4 DEF r
-----------------------------------------------------------------------------
(* A call reads on from where it began, and only skipping a comment and    *)
(* what a caller sees can be at the end of the file.                       *)
Cursor ==
  /\ fn = "closed" => src = NoCall.from /\ call = NoCall
  /\ fn \in {"space", "comment", "lineComment"} => call.op = "skip"
  /\ fn = "ident" => call.op = "ident"
  /\ fn \in {"number", "exit"} => call.op = "number"
  /\ fn \in {"ident", "number"} => src.cur # EOF
  /\ fn # "closed" /\ ~EndsInCR(file) =>
       /\ Reading(file, src)
       /\ call.op # "none" =>
            Reading(file, call.from) /\ Index(file, call.from) <= Index(file, src)

(* What the reader's functions do not take for the end of the file.        *)
LEMMA NotEOF ==
  /\ ~IsSpace(EOF) /\ ~IsMark(EOF) /\ ~IsDigit(EOF) /\ ~IsIdentStart(EOF) /\ ~IsIdentChar(EOF)
  /\ \A b : ~IsDigitOf(b, EOF)
  <1>1. EOF \notin ToSet(Digits) /\ EOF \notin ToSet(Lower) /\ EOF \notin ToSet(Upper)
    BY DEF ToSet, Digits, Lower, Upper, EOF
  <1>2. EOF \notin {" ", LF, CR, "@", "[", "]", ",", "_", "0", "1",
                    "a", "b", "c", "d", "e", "f"}
    BY DEF EOF, LF, CR
  <1> HIDE DEF EOF
  <1> QED BY <1>1, <1>2
          DEF IsSpace, IsMark, IsDigit, IsIdentStart, IsIdentChar, IsAlpha, IsDigitOf

(* A step of a call reads no, one or two characters, none past the end.    *)
LEMMA StepAdvances ==
  ASSUME TypeInv, Cursor, [Next]_vars, fn # "closed", ~EndsInCR(file)
  PROVE  /\ Reading(file, src')
         /\ Index(file, src') \in {Index(file, src), Index(file, src) + 1, Index(file, src) + 2}
  <1>0. file \in Files /\ Reading(file, src)
    BY DEF TypeInv, Cursor
  <1>1. CASE src' = src
    BY <1>0, <1>1
  <1>2. CASE src' = ReadChar(src) /\ src.cur # EOF
    BY <1>0, <1>2, ReadCharReads
  <1>3. CASE src' = ReadChar(ReadChar(src)) /\ src.cur # EOF /\ src.next # EOF
    BY <1>0, <1>3, ReadTwiceReads
  <1>4. \/ src' = src
        \/ src' = ReadChar(src) /\ src.cur # EOF
        \/ src' = ReadChar(ReadChar(src)) /\ src.cur # EOF /\ src.next # EOF
    <2>1. CASE SkipSpace \/ SkipMark
      BY <2>1, NotEOF DEF SkipSpace, SkipMark
    <2>2. CASE OpenComment \/ NestComment \/ CloseComment \/ OpenLineComment
      BY <2>2 DEF OpenComment, NestComment, CloseComment, OpenLineComment, Opening, Closing,
                  LineOpening, EOF
    <2>3. CASE IdentChar \/ ReadDigit
      BY <2>3 DEF IdentChar, ReadDigit, Cursor
    <2>4. CASE ReadNumber
      BY <2>4 DEF ReadNumber, EOF
    <2>5. CASE SkipInComment
      BY <2>5 DEF SkipInComment
    <2>6. CASE SkipNonterminals \/ EndLineComment \/ EndSkip \/ ReadIdent
      BY <2>6 DEF SkipNonterminals, EndLineComment, EndSkip, ReadIdent
    <2>7. CASE OpenRet \/ UNCHANGED vars
      BY <2>7 DEF OpenRet, vars
    <2> QED BY <2>1, <2>2, <2>3, <2>4, <2>5, <2>6, <2>7 DEF Next, Loop, Skip
  <1> QED BY <1>1, <1>2, <1>3, <1>4

(* Which call a step belongs to, and where it began.                       *)
LEMMA StepCall ==
  ASSUME Cursor, [Next]_vars
  PROVE  /\ fn' # "closed" \/ UNCHANGED vars
         /\ call' = call \/ (fn = "idle" /\ call'.from = src)
         /\ fn' \in {"space", "comment", "lineComment"} => call'.op = "skip"
         /\ fn' = "ident" => call'.op = "ident"
         /\ fn' \in {"number", "exit"} => call'.op = "number"
  <1>1. CASE UNCHANGED vars
    BY <1>1 DEF vars, Cursor
  <1>2. CASE OpenRet \/ SkipMark \/ SkipNonterminals
    BY <1>2 DEF OpenRet, SkipMark, SkipNonterminals, Begin, Cursor
  <1>3. CASE ReadIdent \/ ReadNumber
    BY <1>3 DEF ReadIdent, ReadNumber, StartNumber, Begin, Cursor
  <1>4. CASE Skip
    BY <1>4 DEF Skip, SkipSpace, OpenComment, NestComment, CloseComment, OpenLineComment,
                EndLineComment, SkipInComment, EndSkip, Cursor
  <1>5. CASE IdentChar \/ ReadDigit
    BY <1>5 DEF IdentChar, ReadDigit, Cursor
  <1> QED BY <1>1, <1>2, <1>3, <1>4, <1>5 DEF Next, Loop

(* Every action keeps the reader on the text.                              *)
LEMMA CursorStep ==
  ASSUME TypeInv, Cursor, [Next]_vars
  PROVE  Cursor'
  <1>1. file' = file /\ file \in Files
    BY StepReads DEF TypeInv
  <1>2. /\ fn' # "closed" \/ UNCHANGED vars
        /\ call' = call \/ (fn = "idle" /\ call'.from = src)
        /\ fn' \in {"space", "comment", "lineComment"} => call'.op = "skip"
        /\ fn' = "ident" => call'.op = "ident"
        /\ fn' \in {"number", "exit"} => call'.op = "number"
    BY StepCall
  <1>3. fn' = "closed" => src' = NoCall.from /\ call' = NoCall
    BY <1>2 DEF vars, Cursor
  <1>4. fn' \in {"ident", "number"} => src'.cur # EOF
    <2>1. CASE UNCHANGED vars
      BY <2>1 DEF vars, Cursor
    <2>2. CASE OpenRet \/ SkipMark \/ SkipNonterminals
      BY <2>2 DEF OpenRet, SkipMark, SkipNonterminals
    <2>3. CASE ReadIdent
      BY <2>3, NotEOF DEF ReadIdent
    <2>4. CASE ReadNumber
      <3>1. src'.cur \in {"b", "o", "x"} => src'.cur # EOF
        BY DEF EOF
      <3> QED BY <2>4, <3>1, NotEOF DEF ReadNumber, StartNumber
    <2>5. CASE Skip
      BY <2>5 DEF Skip, SkipSpace, OpenComment, NestComment, CloseComment, OpenLineComment,
                  EndLineComment, SkipInComment, EndSkip
    <2>6. CASE IdentChar
      BY <2>6, NotEOF DEF IdentChar
    <2>7. CASE ReadDigit
      <3>1. "_" # EOF
        BY DEF EOF
      <3> QED BY <2>7, <3>1, NotEOF DEF ReadDigit
    <2> QED BY <2>1, <2>2, <2>3, <2>4, <2>5, <2>6, <2>7 DEF Next, Loop
  <1>5. ASSUME ~EndsInCR(file), fn' # "closed"
        PROVE  /\ Reading(file, src')
               /\ call'.op # "none" => /\ Reading(file, call'.from)
                                       /\ Index(file, call'.from) <= Index(file, src')
    <2>1. CASE fn # "closed"
      <3>1. /\ Reading(file, src')
            /\ Index(file, src') \in {Index(file, src), Index(file, src) + 1, Index(file, src) + 2}
        BY <1>5, <2>1, StepAdvances
      <3>2. Reading(file, src) /\ Index(file, src) \in Nat
        BY <1>1, <1>5, <2>1, TextIs DEF Cursor, Reading
      <3>3. CASE call' = call
        <4>1. call.op # "none" => /\ Reading(file, call.from) /\ Index(file, call.from) \in Nat
                                  /\ Index(file, call.from) <= Index(file, src)
          BY <1>1, <1>5, <2>1, TextIs DEF Cursor, Reading
        <4> QED BY <3>1, <3>2, <3>3, <4>1
      <3>4. CASE call'.from = src
        BY <3>1, <3>2, <3>4
      <3> QED BY <1>2, <3>1, <3>3, <3>4
    <2>2. CASE fn = "closed"
      <3>1. OpenRet
        BY <1>5, <2>2 DEF Next, vars, SkipMark, SkipNonterminals, ReadIdent, ReadNumber, Loop,
               Skip, SkipSpace, OpenComment, NestComment, CloseComment, OpenLineComment,
               EndLineComment, SkipInComment, EndSkip, IdentChar, ReadDigit
      <3>2. src' = ReadChar(ReadChar(NoCall.from)) /\ call'.op = "none"
        BY <2>2, <3>1 DEF OpenRet, Cursor, NoCall
      <3> QED BY <1>1, <1>5, <3>2, OpenReads
    <2> QED BY <2>1, <2>2
  <1> QED BY <1>1, <1>2, <1>3, <1>4, <1>5 DEF Cursor

(* The reader is always on the text.                                       *)
LEMMA Reads == Spec => [](TypeInv /\ Cursor)
  <1>1. Init => Cursor
    BY DEF Init, Cursor
  <1>2. TypeInv /\ Cursor /\ [Next]_vars => Cursor'
    BY CursorStep
  <1> QED BY <1>1, <1>2, Typed, PTL DEF Spec

(* The two characters a reader holds are neighbours in the text of the     *)
(* file, and line and column are those of the first, however many were     *)
(* read and whatever carriage returns the file has but for one at its end. *)
THEOREM PositionKept == Spec => []Position
  <1>1. TypeInv /\ Cursor => Position
    BY DEF Cursor, Reading, Position
  <1> QED BY <1>1, Reads, PTL
-----------------------------------------------------------------------------
(* What is consumed from one state of the reader to another.               *)
ConsumedBy(f, from, s) == SubSeq(Text(f), Index(f, from), Index(f, s) - 1)

(* A part of a sequence grows at its end.                                  *)
LEMMA SubSeqGrows ==
  ASSUME NEW A, NEW t \in Seq(A), NEW i \in 1 .. Len(t), NEW n \in i .. Len(t)
  PROVE  /\ SubSeq(t, i, n-1) \in Seq(A) /\ t[n] \in A
         /\ SubSeq(t, i, n) = Append(SubSeq(t, i, n-1), t[n])
  <1>1. Len(t) \in Nat /\ t[n] \in A /\ \A j \in i .. n-1 : t[j] \in A
    BY ElementOfSeq
  <1>2. SubSeq(t, i, n-1) \in Seq(A)
    BY <1>1, SubSeqProperties
  <1>3. SubSeq(t, i, n) = SubSeq(t, i, n-1) \o <<t[n]>>
    BY SubSeqRecursiveSecond
  <1>4. Append(SubSeq(t, i, n-1), t[n]) = SubSeq(t, i, n-1) \o <<t[n]>>
    BY <1>1, <1>2, AppendIsConcat
  <1> QED BY <1>1, <1>2, <1>3, <1>4

(* A character read is a character more consumed.                          *)
LEMMA ConsumedGrows ==
  ASSUME file \in Files, ~EndsInCR(file), NEW from, NEW s, Reading(file, from), Reading(file, s),
         Index(file, from) <= Index(file, s), s.cur # EOF
  PROVE  /\ ConsumedBy(file, from, s) \in Seq(ToSet(file)) /\ s.cur \in ToSet(file)
         /\ ConsumedBy(file, from, ReadChar(s)) = Append(ConsumedBy(file, from, s), s.cur)
  <1> DEFINE t == Text(file)  i == Index(file, from)  n == Index(file, s)
  <1>1. t \in Seq(ToSet(file)) /\ Len(t) \in Nat
    BY TextIs
  <1>2. i \in 1 .. Len(t)+1 /\ n \in 1 .. Len(t)+1 /\ s.cur = TextAt(file, n)
    BY DEF Reading
  <1>3. n \in Nat \ {0}
    BY <1>1, <1>2
  <1>4. ~(Len(t) < n) /\ TextAt(file, n) = t[n]
    BY <1>1, <1>2, <1>3, TextAtType
  <1>5. i \in 1 .. Len(t) /\ n \in i .. Len(t)
    BY <1>1, <1>2, <1>4
  <1>6. /\ SubSeq(t, i, n-1) \in Seq(ToSet(file)) /\ t[n] \in ToSet(file)
        /\ SubSeq(t, i, n) = Append(SubSeq(t, i, n-1), t[n])
    BY <1>1, <1>5, SubSeqGrows
  <1>7. Index(file, ReadChar(s)) - 1 = n
    BY <1>3, ReadCharReads
  <1> QED BY <1>2, <1>4, <1>6, <1>7 DEF ConsumedBy

(* A call that has read nothing has consumed nothing.                      *)
LEMMA ConsumedNone ==
  ASSUME file \in Files, NEW s, Reading(file, s)
  PROVE  ConsumedBy(file, s, s) = <<>>
  <1>1. Index(file, s) \in Int
    BY TextIs DEF Reading
  <1> QED BY <1>1, SubSeqEmpty DEF ConsumedBy

(* The first characters of a name, as many as fit.                         *)
Kept(s) == SubSeq(s, 1, Min({Len(s), IdentMaxIndex}))

(* What is kept of a name that fits, and of one that does not.             *)
LEMMA KeptIs ==
  ASSUME NEW A, NEW s \in Seq(A)
  PROVE  Kept(s) = IF Len(s) <= IdentMaxIndex THEN s ELSE SubSeq(s, 1, IdentMaxIndex)
  <1>1. Len(s) \in Nat /\ IdentMaxIndex \in Nat
    BY SizeAssumption
  <1>2. CASE Len(s) <= IdentMaxIndex
    <2>1. Min({Len(s), IdentMaxIndex}) = Len(s)
      BY <1>1, <1>2 DEF Min
    <2> QED BY <1>2, <2>1, SubSeqFull DEF Kept
  <1>3. CASE ~(Len(s) <= IdentMaxIndex)
    <2>1. Min({Len(s), IdentMaxIndex}) = IdentMaxIndex
      BY <1>1, <1>3 DEF Min
    <2> QED BY <1>3, <2>1 DEF Kept
  <1> QED BY <1>2, <1>3

(* A character more of a name is kept when there is room.                  *)
LEMMA KeptGrows ==
  ASSUME NEW A, NEW s \in Seq(A), NEW c \in A
  PROVE  Kept(Append(s, c)) =
           IF Len(Kept(s)) < IdentMaxIndex THEN Append(Kept(s), c) ELSE Kept(s)
  <1>1. Len(s) \in Nat /\ IdentMaxIndex \in Nat /\ IdentMaxIndex # 0
    BY SizeAssumption
  <1>2. Append(s, c) \in Seq(A) /\ Len(Append(s, c)) = Len(s) + 1 /\ Append(s, c) = s \o <<c>>
    BY AppendProperties, AppendIsConcat
  <1>3. Kept(s) = IF Len(s) <= IdentMaxIndex THEN s ELSE SubSeq(s, 1, IdentMaxIndex)
    BY KeptIs
  <1>4. Kept(Append(s, c)) = IF Len(s) + 1 <= IdentMaxIndex THEN Append(s, c)
                             ELSE SubSeq(Append(s, c), 1, IdentMaxIndex)
    BY <1>2, KeptIs
  <1>5. CASE Len(s) < IdentMaxIndex
    BY <1>1, <1>3, <1>4, <1>5
  <1>6. CASE ~(Len(s) < IdentMaxIndex)
    <2>1. SubSeq(s \o <<c>>, 1, IdentMaxIndex) = SubSeq(s, 1, IdentMaxIndex)
      <3>1. <<c>> \in Seq(A) /\ 1 \in 1 .. Len(s) /\ IdentMaxIndex \in 1 .. Len(s)
        BY <1>1, <1>6
      <3> QED BY <3>1, SubSeqOfConcat1
    <2>2. Kept(s) = SubSeq(s, 1, IdentMaxIndex)
      <3>1. CASE Len(s) = IdentMaxIndex
        BY <1>1, <1>3, <3>1, SubSeqFull
      <3>2. CASE Len(s) # IdentMaxIndex
        BY <1>1, <1>3, <1>6, <3>2
      <3> QED BY <3>1, <3>2
    <2>3. Len(Kept(s)) = IdentMaxIndex
      <3>1. \A i \in 1 .. IdentMaxIndex : s[i] \in A
        BY <1>1, <1>6, ElementOfSeq
      <3>2. Len(SubSeq(s, 1, IdentMaxIndex)) = IdentMaxIndex
        BY <1>1, <3>1, SubSeqProperties
      <3> QED BY <2>2, <3>2
    <2>4. Kept(Append(s, c)) = SubSeq(s, 1, IdentMaxIndex)
      BY <1>1, <1>2, <1>4, <1>6, <2>1
    <2> QED BY <1>1, <2>2, <2>3, <2>4
  <1> QED BY <1>5, <1>6

(* What is known of a name while it is read, and until the next call.      *)
Named ==
  call.op = "ident" /\ ~EndsInCR(file) =>
    \/ /\ fn = "ident" \/ (fn = "idle" /\ result = 0)
       /\ ident = Kept(ConsumedBy(file, call.from, src))
       /\ \A k \in DOMAIN ConsumedBy(file, call.from, src) :
            IsIdentChar(ConsumedBy(file, call.from, src)[k])
       /\ IsIdentChar(src.cur) <=> fn = "ident"
    \/ fn = "idle" /\ result = 3 /\ src = call.from

(* Every action keeps what is known of a name.                             *)
LEMMA NamedStep ==
  ASSUME TypeInv, Cursor, Named, [Next]_vars
  PROVE  Named'
  <1>0. file' = file /\ file \in Files
    BY StepReads DEF TypeInv
  <1>1. CASE UNCHANGED vars
    BY <1>1 DEF vars, Named
  <1>2. CASE OpenRet
    BY <1>2 DEF OpenRet, Named, Cursor, NoCall
  <1>3. CASE SkipMark \/ SkipNonterminals \/ ReadNumber
    BY <1>3 DEF SkipMark, SkipNonterminals, ReadNumber, Begin, Named
  <1>4. CASE Skip
    BY <1>4 DEF Skip, SkipSpace, OpenComment, NestComment, CloseComment, OpenLineComment,
                EndLineComment, SkipInComment, EndSkip, Cursor, Named
  <1>5. CASE ReadDigit
    BY <1>5 DEF ReadDigit, Cursor, Named
  <1>6. CASE ReadIdent
    <2>1. SUFFICES ASSUME ~EndsInCR(file)
                   PROVE  Named'
      BY <1>0 DEF Named
    <2>2. call'.from = src /\ src' = src
      BY <1>6 DEF ReadIdent, Begin
    <2>3. CASE IsIdentStart(src.cur)
      <3>1. fn' = "ident" /\ ident' = <<>> /\ IsIdentChar(src.cur)
        BY <1>6, <2>3 DEF ReadIdent, IsIdentChar
      <3>2. Reading(file, src)
        BY <1>6, <2>1 DEF Cursor, ReadIdent
      <3>3. ConsumedBy(file, src, src) = <<>>
        BY <1>0, <3>2, ConsumedNone
      <3>4. Kept(<<>>) = <<>> /\ DOMAIN <<>> = {}
        <4>1. Min({Len(<<>>), IdentMaxIndex}) = 0
          BY SizeAssumption DEF Min
        <4>2. SubSeq(<<>>, 1, 0) = <<>>
          BY SubSeqEmpty
        <4>3. DOMAIN <<>> = {}
          OBVIOUS
        <4> QED BY <4>1, <4>2, <4>3 DEF Kept
      <3> QED BY <1>0, <2>2, <3>1, <3>3, <3>4 DEF Named
    <2>4. CASE ~IsIdentStart(src.cur)
      <3>1. fn' = "idle" /\ result' = 3
        BY <1>6, <2>4 DEF ReadIdent
      <3> QED BY <2>2, <3>1 DEF Named
    <2> QED BY <2>3, <2>4
  <1>7. CASE IdentChar
    <2>1. SUFFICES ASSUME ~EndsInCR(file)
                   PROVE  Named'
      BY <1>0 DEF Named
    <2>2. /\ fn = "ident" /\ call' = call /\ call.op = "ident" /\ src' = ReadChar(src)
          /\ IF IsIdentChar(src'.cur) THEN fn' = "ident" ELSE fn' = "idle" /\ result' = 0
          /\ ident' = IF Len(ident) < IdentMaxIndex THEN Append(ident, src.cur) ELSE ident
      BY <1>7 DEF IdentChar, Cursor
    <2> DEFINE c == ConsumedBy(file, call.from, src)
               d == ConsumedBy(file, call.from, ReadChar(src))
    <2>3. ident = Kept(c) /\ (\A k \in DOMAIN c : IsIdentChar(c[k])) /\ IsIdentChar(src.cur)
      BY <2>1, <2>2 DEF Named
    <2>4. c \in Seq(ToSet(file)) /\ src.cur \in ToSet(file) /\ d = Append(c, src.cur)
      <3>1. /\ Reading(file, src) /\ Reading(file, call.from) /\ src.cur # EOF
            /\ Index(file, call.from) <= Index(file, src)
        BY <2>1, <2>2 DEF Cursor
      <3> QED BY <1>0, <2>1, <3>1, ConsumedGrows
    <2> HIDE DEF c, d
    <2>5. ident' = Kept(d)
      BY <2>2, <2>3, <2>4, KeptGrows
    <2>6. \A k \in DOMAIN d : IsIdentChar(d[k])
      <3>1. /\ d \in Seq(ToSet(file)) /\ Len(d) = Len(c) + 1 /\ d[Len(c) + 1] = src.cur
            /\ \A k \in 1 .. Len(c) : d[k] = c[k]
        BY <2>4, AppendProperties
      <3>2. DOMAIN d = 1 .. Len(d) /\ DOMAIN c = 1 .. Len(c) /\ Len(c) \in Nat
        BY <2>4, <3>1
      <3>3. \A k \in DOMAIN d : k = Len(c) + 1 \/ k \in DOMAIN c
        BY <3>1, <3>2
      <3> QED BY <2>3, <3>1, <3>2, <3>3
    <2> QED BY <1>0, <2>2, <2>5, <2>6 DEF Named, d
  <1> QED BY <1>1, <1>2, <1>3, <1>4, <1>5, <1>6, <1>7 DEF Next, Loop

(* However long a name is it is read to its end, and the characters that   *)
(* fit are kept; a call that finds no name reads nothing.                  *)
THEOREM NamesWhole == Spec => []IdentWhole
  <1>1. Init => Named
    BY DEF Init, Named, NoCall
  <1>2. TypeInv /\ Cursor /\ Named /\ [Next]_vars => Named'
    BY NamedStep
  <1>3. Named => IdentWhole
    <2>1. Consumed = ConsumedBy(file, call.from, src)
      BY DEF Consumed, ConsumedTo, ConsumedBy
    <2> QED BY <2>1 DEF Named, IdentWhole, Kept
  <1> QED BY <1>1, <1>2, <1>3, Reads, PTL DEF Spec
-----------------------------------------------------------------------------
(* The values of the beginnings of a numeral.                              *)
DigitsOf(b, s, v, m) ==
  \A n \in 0 .. m :
    v[n] = IF n = 0 THEN 0
           ELSE IF IsDigitOf(b, s[n]) THEN v[n-1] * b + HexValue(s[n]) ELSE v[n-1]

(* A digit has a value.                                                    *)
LEMMA ValueType ==
  ASSUME NEW b, NEW c, IsDigitOf(b, c)
  PROVE  HexValue(c) \in Nat
  <1>1. Worth(c) \in 0 .. 22
    BY WorthType
  <1>2. CASE c \in ToSet(Upper)
    <2>1. PositionIn(Upper, c) \in DOMAIN Upper
      BY <1>2, PositionInIs
    <2>2. DOMAIN Upper = 1 .. 6
      BY DEF Upper
    <2> QED BY <1>2, <2>1, <2>2 DEF HexValue
  <1> QED BY <1>1, <1>2 DEF HexValue

(* A numeral has values for its beginnings.  The least beginning without   *)
(* one would follow from the one before.                                   *)
LEMMA ValuesExist ==
  ASSUME NEW b \in Nat, NEW s, NEW m \in Nat
  PROVE  \E v \in [0 .. m -> Nat] : DigitsOf(b, s, v, m)
  <1> DEFINE P(n) == \E v \in [0 .. n -> Nat] : DigitsOf(b, s, v, n)
             T == {n \in Nat : ~P(n)}
  <1> SUFFICES ASSUME T # {} PROVE FALSE
    OBVIOUS
  <1>1. PICK n \in T : \A k \in T : n <= k
    BY LeastOf
  <1>2. n # 0
    <2>1. [k \in 0 .. 0 |-> 0] \in [0 .. 0 -> Nat]
      OBVIOUS
    <2>2. DigitsOf(b, s, [k \in 0 .. 0 |-> 0], 0)
      BY DEF DigitsOf
    <2>3. P(0)
      BY <2>1, <2>2
    <2> QED BY <1>1, <2>3
  <1>3. n \in Nat /\ n-1 \in Nat /\ P(n-1)
    BY <1>1, <1>2
  <1>4. PICK v \in [0 .. n-1 -> Nat] : DigitsOf(b, s, v, n-1)
    BY <1>3
  <1> DEFINE top == IF IsDigitOf(b, s[n]) THEN v[n-1] * b + HexValue(s[n]) ELSE v[n-1]
             w == [k \in 0 .. n |-> IF k = n THEN top ELSE v[k]]
  <1>5. top \in Nat
    <2>1. v[n-1] \in Nat
      BY <1>3, <1>4
    <2>2. IsDigitOf(b, s[n]) => HexValue(s[n]) \in Nat
      BY ValueType
    <2> QED BY <2>1, <2>2
  <1>6. w \in [0 .. n -> Nat]
    BY <1>3, <1>4, <1>5
  <1>7. DigitsOf(b, s, w, n)
    <2>1. SUFFICES ASSUME NEW k \in 0 .. n
                   PROVE  w[k] = IF k = 0 THEN 0
                                 ELSE IF IsDigitOf(b, s[k]) THEN w[k-1] * b + HexValue(s[k])
                                 ELSE w[k-1]
      BY DEF DigitsOf
    <2>2. CASE k = n
      <3>1. w[n] = top /\ w[n-1] = v[n-1]
        BY <1>3
      <3> HIDE DEF w
      <3> QED BY <1>2, <2>2, <3>1
    <2>3. CASE k # n
      <3>1. w[k] = v[k] /\ k \in 0 .. n-1 /\ (k # 0 => w[k-1] = v[k-1])
        BY <1>3, <2>3
      <3>2. v[k] = IF k = 0 THEN 0
                   ELSE IF IsDigitOf(b, s[k]) THEN v[k-1] * b + HexValue(s[k]) ELSE v[k-1]
        BY <1>4, <3>1 DEF DigitsOf
      <3> HIDE DEF w
      <3> QED BY <3>1, <3>2
    <2> QED BY <2>2, <2>3
  <1>8. P(n)
    BY <1>6, <1>7
  <1> QED BY <1>1, <1>8

Same(s, t, m) == \A n \in 1 .. m : s[n] = t[n]

(* Numerals with the same beginning have the same values there.            *)
LEMMA ValuesUnique ==
  ASSUME NEW b, NEW s, NEW t, NEW v, NEW w, NEW m \in Nat,
         Same(s, t, m), DigitsOf(b, s, v, m), DigitsOf(b, t, w, m)
  PROVE  v[m] = w[m]
  <1> DEFINE T == {n \in 0 .. m : v[n] # w[n]}
  <1> SUFFICES ASSUME T # {} PROVE FALSE
    OBVIOUS
  <1>1. PICK n \in T : \A k \in T : n <= k
    <2>1. T \in SUBSET Nat
      OBVIOUS
    <2> HIDE DEF T
    <2> QED BY <2>1, LeastOf
  <1>2. n \in 0 .. m /\ v[n] # w[n]
    BY <1>1
  <1>3. /\ v[n] = IF n = 0 THEN 0
                  ELSE IF IsDigitOf(b, s[n]) THEN v[n-1] * b + HexValue(s[n]) ELSE v[n-1]
        /\ w[n] = IF n = 0 THEN 0
                  ELSE IF IsDigitOf(b, t[n]) THEN w[n-1] * b + HexValue(t[n]) ELSE w[n-1]
    BY <1>2 DEF DigitsOf
  <1>4. n # 0
    BY <1>2, <1>3
  <1>5. n-1 \in 0 .. m /\ n-1 \notin T /\ n \in 1 .. m
    BY <1>1, <1>2, <1>4
  <1>6. v[n-1] = w[n-1] /\ s[n] = t[n]
    BY <1>5 DEF Same
  <1> QED BY <1>2, <1>3, <1>4, <1>6

(* The value of a numeral is the last of them.                             *)
LEMMA DenotedIs ==
  ASSUME NEW b \in Nat, NEW s, Len(s) \in Nat
  PROVE  \E v \in [0 .. Len(s) -> Nat] : DigitsOf(b, s, v, Len(s)) /\ Denoted(b, s) = v[Len(s)]
  <1> DEFINE m == Len(s)
             F(v) == [n \in 0 .. m |->
                        IF n = 0 THEN 0
                        ELSE IF IsDigitOf(b, s[n]) THEN v[n-1] * b + HexValue(s[n]) ELSE v[n-1]]
             value == CHOOSE v : v = F(v)
  <1>1. PICK v \in [0 .. m -> Nat] : DigitsOf(b, s, v, m)
    BY ValuesExist
  <1>2. v = F(v)
    BY <1>1 DEF DigitsOf
  <1>3. value = F(value)
    BY <1>2
  <1>4. Denoted(b, s) = value[m]
    BY DEF Denoted
  <1> HIDE DEF value
  <1>5. DigitsOf(b, s, value, m)
    <2>1. SUFFICES ASSUME NEW n \in 0 .. m
                   PROVE  value[n] = IF n = 0 THEN 0
                            ELSE IF IsDigitOf(b, s[n]) THEN value[n-1] * b + HexValue(s[n])
                            ELSE value[n-1]
      BY DEF DigitsOf
    <2>2. value[n] = F(value)[n]
      BY <1>3
    <2> QED BY <2>2
  <1>6. value[m] = v[m]
    BY <1>1, <1>5, ValuesUnique DEF Same
  <1> QED BY <1>1, <1>4, <1>6

(* A digit more: the value before, times the base, and what it adds.       *)
LEMMA DenotedAppend ==
  ASSUME NEW b \in Nat, NEW A, NEW s \in Seq(A), NEW c \in A
  PROVE  /\ Denoted(b, s) \in Nat
         /\ Denoted(b, Append(s, c)) = IF IsDigitOf(b, c) THEN Denoted(b, s) * b + HexValue(c)
                                       ELSE Denoted(b, s)
  <1> DEFINE t == Append(s, c)  m == Len(s)
  <1>1. m \in Nat /\ Len(t) = m + 1 /\ t[m+1] = c /\ \A n \in 1 .. m : s[n] = t[n]
    BY AppendProperties
  <1>2. PICK v \in [0 .. m -> Nat] : DigitsOf(b, s, v, m) /\ Denoted(b, s) = v[m]
    BY <1>1, DenotedIs
  <1>3. PICK w \in [0 .. m+1 -> Nat] : DigitsOf(b, t, w, m+1) /\ Denoted(b, t) = w[m+1]
    <2> HIDE DEF t
    <2> QED BY <1>1, DenotedIs
  <1> HIDE DEF t, m
  <1>4. DigitsOf(b, t, w, m)
    <2>1. \A n \in 0 .. m : n \in 0 .. m+1
      BY <1>1
    <2> QED BY <1>3, <2>1, Zenon DEF DigitsOf
  <1>5. v[m] = w[m]
    <2>1. m \in Nat /\ Same(s, t, m)
      BY <1>1 DEF Same
    <2> QED BY <1>2, <1>4, <2>1, ValuesUnique
  <1>6. w[m+1] = IF IsDigitOf(b, t[m+1]) THEN w[m] * b + HexValue(t[m+1]) ELSE w[m]
    <2>1. m+1 \in 0 .. m+1 /\ m+1 # 0 /\ (m+1)-1 = m
      BY <1>1
    <2>2. w[m+1] = IF m+1 = 0 THEN 0
                   ELSE IF IsDigitOf(b, t[m+1]) THEN w[(m+1)-1] * b + HexValue(t[m+1])
                   ELSE w[(m+1)-1]
      BY <1>3, <2>1 DEF DigitsOf
    <2> QED BY <2>1, <2>2
  <1> QED BY <1>1, <1>2, <1>3, <1>5, <1>6 DEF t

(* Nothing has the value 0.                                                *)
LEMMA DenotedEmpty ==
  ASSUME NEW b \in Nat
  PROVE  Denoted(b, <<>>) = 0
  <1>1. PICK v \in [0 .. 0 -> Nat] : DigitsOf(b, <<>>, v, 0) /\ Denoted(b, <<>>) = v[0]
    BY DenotedIs
  <1> QED BY <1>1 DEF DigitsOf

(* What is consumed with the character that is held.                       *)
HeldBy(f, from, s) == SubSeq(Text(f), Index(f, from), Index(f, s))

(* A number is the value of what was read of it, modulo 2^w, and when the  *)
(* program ends the numeral does not fit.                                  *)
Counted ==
  call.op = "number" /\ ~EndsInCR(file) =>
    /\ fn = "number" /\ base # 16 =>
         base \in {2, 8, 10} /\ number = Wrap(Denoted(base, HeldBy(file, call.from, src)))
    /\ fn = "idle" /\ base # 16 =>
         /\ number = Wrap(Denoted(base, ConsumedBy(file, call.from, src)))
         /\ src.cur # "_" /\ ~IsDigitOf(base, src.cur)
    /\ fn = "exit" /\ base \in {2, 8, 10} =>
         Denoted(base, HeldBy(file, call.from, src)) >= UIntMod

(* What is held is what is consumed and one character more.                *)
LEMMA HeldIs ==
  ASSUME file \in Files, ~EndsInCR(file), NEW from, NEW s, Reading(file, from), Reading(file, s),
         Index(file, from) <= Index(file, s), s.cur # EOF
  PROVE  /\ ConsumedBy(file, from, s) \in Seq(ToSet(file)) /\ s.cur \in ToSet(file)
         /\ HeldBy(file, from, s) = Append(ConsumedBy(file, from, s), s.cur)
         /\ ConsumedBy(file, from, ReadChar(s)) = HeldBy(file, from, s)
  <1>1. /\ ConsumedBy(file, from, s) \in Seq(ToSet(file)) /\ s.cur \in ToSet(file)
        /\ ConsumedBy(file, from, ReadChar(s)) = Append(ConsumedBy(file, from, s), s.cur)
    BY ConsumedGrows
  <1>2. Index(file, ReadChar(s)) - 1 = Index(file, s)
    <2>1. Index(file, s) \in Int
      BY TextIs DEF Reading
    <2> QED BY <2>1, ReadCharReads
  <1> QED BY <1>1, <1>2 DEF ConsumedBy, HeldBy

(* Which of the characters of a prefix are digits of its base.             *)
LEMMA Letters ==
  /\ ~IsDigit("b") /\ ~IsDigit("o") /\ ~IsDigit("x") /\ ~IsDigit("_") /\ IsDigit("0")
  /\ Worth("0") = 0 /\ HexValue("0") = 0
  /\ \A b \in {2, 8, 10} : ~IsDigitOf(b, "_")
  /\ ~IsDigitOf(2, "b") /\ ~IsDigitOf(8, "o")
  <1>1. /\ ToSet(Digits) = {"0", "1", "2", "3", "4", "5", "6", "7", "8", "9"}
        /\ DOMAIN Digits = 1 .. 10 /\ Digits[1] = "0"
        /\ \A i \in 1 .. 10 : Digits[i] = "0" => i = 1
    <2>1. DOMAIN Digits = 1 .. 10 /\ Digits[1] = "0"
      BY DEF Digits
    <2>2. \A i \in 1 .. 10 : Digits[i] = "0" => i = 1
      BY DEF Digits
    <2>3. \A i \in 1 .. 10 : Digits[i] \in {"0", "1", "2", "3", "4", "5", "6", "7", "8", "9"}
      BY DEF Digits
    <2>4. \A c \in {"0", "1", "2", "3", "4", "5", "6", "7", "8", "9"} :
            \E i \in 1 .. 10 : Digits[i] = c
      BY DEF Digits
    <2>5. ToSet(Digits) = {Digits[i] : i \in 1 .. 10}
      BY <2>1 DEF ToSet
    <2> HIDE DEF Digits
    <2> QED BY <2>1, <2>2, <2>3, <2>4, <2>5
  <1>2. IsDigit("0") /\ ~IsDigit("b") /\ ~IsDigit("o") /\ ~IsDigit("x") /\ ~IsDigit("_")
    BY <1>1 DEF IsDigit
  <1>3. PositionIn(Digits, "0") = 1
    BY <1>1 DEF PositionIn
  <1>4. Worth("0") = 0
    <2>1. Worth("0") = PositionIn(Digits, "0") - 1
      <3>1. ~("0" \in ToSet(Upper))
        <4>1. DOMAIN Upper = 1 .. 6
          BY DEF Upper
        <4>2. \A i \in 1 .. 6 : Upper[i] # "0"
          BY DEF Upper
        <4> QED BY <4>1, <4>2 DEF ToSet
      <3> HIDE DEF IsDigit
      <3> QED BY <1>2, <3>1 DEF Worth
    <2> QED BY <1>3, <2>1
  <1>5. HexValue("0") = 0
    BY <1>2, <1>4, DigitWorth
  <1>6. ASSUME NEW c
        PROVE  /\ IsDigitOf(2, c) => c \in {"0", "1"}
               /\ IsDigitOf(8, c) => IsDigit(c)
               /\ IsDigitOf(10, c) => IsDigit(c)
    <2> HIDE DEF IsDigit
    <2> QED BY DEF IsDigitOf
  <1>7. ASSUME NEW b \in {2, 8, 10}
        PROVE  ~IsDigitOf(b, "_")
    <2>1. "_" \notin {"0", "1"} /\ ~IsDigit("_")
      BY <1>2
    <2>2. ~IsDigitOf(2, "_") /\ ~IsDigitOf(8, "_") /\ ~IsDigitOf(10, "_")
      BY <1>6, <2>1, Zenon
    <2> QED BY <2>2
  <1>8. ~IsDigitOf(2, "b") /\ ~IsDigitOf(8, "o")
    <2>1. "b" \notin {"0", "1"} /\ ~IsDigit("o")
      BY <1>2
    <2> QED BY <1>6, <2>1, Zenon
  <1> HIDE DEF IsDigit
  <1> QED BY <1>2, <1>4, <1>5, <1>7, <1>8

(* One more digit of a base, and what an overflow tells.                   *)
LEMMA NextDigit ==
  ASSUME NEW b \in {2, 8, 10}, NEW A, NEW s \in Seq(A), NEW c \in A, IsDigitOf(b, c),
         NEW n, n = Wrap(Denoted(b, s))
  PROVE  /\ Accumulated(b, n, c) = Wrap(Denoted(b, Append(s, c)))
         /\ n > Accumulated(b, n, c) => Denoted(b, Append(s, c)) >= UIntMod
  <1> DEFINE d == Denoted(b, s)  w == Worth(c)  e == Denoted(b, Append(s, c))
  <1>1. w \in 0 .. 9 /\ HexValue(c) = w
    <2>1. IsDigit(c)
      <3>1. b # 16
        OBVIOUS
      <3> QED BY <3>1, WorthType
    <2> QED BY <2>1, DigitWorth
  <1>2. d \in Nat /\ e = d * b + w
    <2>1. b \in Nat
      OBVIOUS
    <2>2. /\ Denoted(b, s) \in Nat
          /\ Denoted(b, Append(s, c)) = IF IsDigitOf(b, c) THEN Denoted(b, s) * b + HexValue(c)
                                        ELSE Denoted(b, s)
      BY <2>1, DenotedAppend
    <2> HIDE DEF w
    <2> QED BY <1>1, <2>2
  <1>3. Accumulated(b, n, c) = Wrap(n * b + w)
    BY DEF Accumulated
  <1>4. Wrap(Wrap(d) * b + w) = Wrap(d * b + w)
    <2>1. d \in Int /\ b \in Int /\ w \in Int
      BY <1>1, <1>2
    <2> HIDE DEF d, w
    <2> QED BY <2>1, WrapTwice
  <1>5. Accumulated(b, n, c) = Wrap(e)
    BY <1>2, <1>3, <1>4
  <1>6. ASSUME e < UIntMod
        PROVE  ~(n > Accumulated(b, n, c))
    <2>1. d <= e /\ e \in Nat
      BY <1>1, <1>2
    <2>2. d \in 0 .. UIntMod-1 /\ e \in 0 .. UIntMod-1
      BY <1>2, <1>6, <2>1, SizeAssumption
    <2>3. n = d /\ Wrap(e) = e
      BY <2>2, WrapSmall
    <2> QED BY <1>2, <1>5, <2>1, <2>3
  <1>7. e \in Nat
    BY <1>1, <1>2
  <1> HIDE DEF d, e, w
  <1> QED BY <1>5, <1>6, <1>7, SizeAssumption DEF e

(* A number begins with its first digit, or with a prefix that counts      *)
(* nothing.                                                                *)
LEMMA FirstDigit ==
  ASSUME file \in Files, ~EndsInCR(file), Reading(file, src), fn = "idle", ReadNumber
  PROVE  /\ fn' = "number" /\ base' # 16 =>
              base' \in {2, 8, 10} /\ number' = Wrap(Denoted(base', HeldBy(file, src, src')))
         /\ fn' = "exit" => base' = 0
         /\ fn' \in {"number", "exit"}
  <1>1. ConsumedBy(file, src, src) = <<>> /\ Index(file, src) \in Nat
    BY ConsumedNone, TextIs DEF Reading
  <1>2. ASSUME src.cur # EOF
        PROVE  /\ src.cur \in ToSet(file) /\ HeldBy(file, src, src) = Append(<<>>, src.cur)
               /\ HeldBy(file, src, src) = ConsumedBy(file, src, ReadChar(src))
    <2>1. Index(file, src) <= Index(file, src)
      BY <1>1
    <2>2. /\ ConsumedBy(file, src, src) \in Seq(ToSet(file)) /\ src.cur \in ToSet(file)
          /\ HeldBy(file, src, src) = Append(ConsumedBy(file, src, src), src.cur)
          /\ ConsumedBy(file, src, ReadChar(src)) = HeldBy(file, src, src)
      BY <1>2, <2>1, HeldIs
    <2> QED BY <1>1, <2>2
  <1>3. ASSUME NEW b \in Nat, NEW c
        PROVE  /\ Denoted(b, Append(<<>>, c)) \in Nat
               /\ Denoted(b, Append(<<>>, c)) = IF IsDigitOf(b, c) THEN HexValue(c) ELSE 0
    <2>1. Denoted(b, Append(<<>>, c)) = IF IsDigitOf(b, c) THEN Denoted(b, <<>>) * b + HexValue(c)
                                        ELSE Denoted(b, <<>>)
      <3>1. <<>> \in Seq({c}) /\ c \in {c}
        OBVIOUS
      <3> QED BY <3>1, DenotedAppend
    <2>2. IsDigitOf(b, c) => HexValue(c) \in Nat
      BY ValueType
    <2>3. Denoted(b, <<>>) = 0
      BY DenotedEmpty
    <2> QED BY <2>1, <2>2, <2>3
  <1>4. CASE src.cur # "0" /\ IsDigit(src.cur)
    <2>1. src' = src /\ fn' = "number" /\ base' = 10 /\ number' = Worth(src.cur)
      BY <1>4 DEF ReadNumber, StartNumber
    <2>2. Worth(src.cur) \in 0 .. 9 /\ HexValue(src.cur) = Worth(src.cur) /\ src.cur # EOF
          /\ IsDigitOf(10, src.cur)
      BY <1>4, DigitWorth, NotEOF DEF IsDigitOf
    <2>3. Denoted(10, HeldBy(file, src, src)) = Worth(src.cur)
      BY <1>2, <1>3, <2>2
    <2>4. Wrap(Worth(src.cur)) = Worth(src.cur)
      BY <2>2, SizeAssumption, WrapSmall
    <2> QED BY <2>1, <2>3, <2>4
  <1>5. CASE src.cur = "0"
    <2> DEFINE c == ReadChar(src).cur  one == HeldBy(file, src, src)
               two == HeldBy(file, src, ReadChar(src))
    <2>1. src.cur # EOF
      BY <1>5, NotEOF, Letters
    <2>2. one = Append(<<>>, "0") /\ one \in Seq(ToSet(file)) /\ "0" \in ToSet(file)
      <3>1. "0" \in ToSet(file) /\ one = Append(<<>>, "0")
        BY <1>2, <1>5, <2>1
      <3> QED BY <3>1
    <2>3. \A b \in {2, 8, 10} : Denoted(b, one) = 0
      <3>1. ASSUME NEW b \in {2, 8, 10}
            PROVE  Denoted(b, one) = 0
        <4>1. b \in Nat
          OBVIOUS
        <4>2. Denoted(b, Append(<<>>, "0")) = IF IsDigitOf(b, "0") THEN HexValue("0") ELSE 0
          BY <1>3, <4>1
        <4> QED BY <2>2, <4>2, Letters
      <3> QED BY <3>1
    <2>4. Reading(file, ReadChar(src)) /\ Index(file, ReadChar(src)) = Index(file, src) + 1
      BY <2>1, ReadCharReads
    <2>5. ASSUME c # EOF
          PROVE  two = Append(one, c) /\ c \in ToSet(file)
      <3>1. ConsumedBy(file, src, ReadChar(src)) = one
        BY <1>2, <2>1
      <3>2. Index(file, src) <= Index(file, ReadChar(src))
        BY <1>1, <2>4
      <3> QED BY <2>4, <2>5, <3>1, <3>2, HeldIs
    <2>6. ASSUME NEW b \in {2, 8, 10}, c # EOF
          PROVE  Denoted(b, two) = IF IsDigitOf(b, c) THEN HexValue(c) ELSE 0
      <3>1. Denoted(b, two) = IF IsDigitOf(b, c) THEN Denoted(b, one) * b + HexValue(c)
                              ELSE Denoted(b, one)
        <4>1. b \in Nat /\ one \in Seq(ToSet(file)) /\ c \in ToSet(file) /\ two = Append(one, c)
          BY <2>2, <2>5, <2>6
        <4> HIDE DEF one, two, c
        <4>2. Denoted(b, Append(one, c)) = IF IsDigitOf(b, c) THEN Denoted(b, one) * b + HexValue(c)
                                           ELSE Denoted(b, one)
          BY <4>1, DenotedAppend
        <4> QED BY <4>1, <4>2
      <3>2. IsDigitOf(b, c) => HexValue(c) \in Nat
        BY ValueType
      <3> HIDE DEF one, two, c
      <3> QED BY <2>3, <3>1, <3>2
    <2>7. src' = ReadChar(src)
      BY <1>5 DEF ReadNumber
    <2>8. Wrap(0) = 0
      BY SizeAssumption, WrapSmall
    <2>9. CASE c = "b"
      <3>1. fn' = "number" /\ base' = 2 /\ number' = 0
        BY <1>5, <2>7, <2>9, Letters DEF ReadNumber, StartNumber
      <3>2. c # EOF
        BY <2>9 DEF EOF
      <3>3. Denoted(2, two) = 0
        BY <2>6, <2>9, <3>2, Letters
      <3> QED BY <2>7, <2>8, <3>1, <3>3
    <2>10. CASE c = "o"
      <3>1. fn' = "number" /\ base' = 8 /\ number' = 0
        BY <1>5, <2>7, <2>10, Letters DEF ReadNumber, StartNumber
      <3>2. c # EOF
        BY <2>10 DEF EOF
      <3>3. Denoted(8, two) = 0
        BY <2>6, <2>10, <3>2, Letters
      <3> QED BY <2>7, <2>8, <3>1, <3>3
    <2>11. CASE c = "x"
      <3>1. fn' = "number" /\ base' = 16
        BY <1>5, <2>7, <2>11, Letters DEF ReadNumber, StartNumber
      <3> QED BY <3>1
    <2>12. CASE IsDigit(c)
      <3>1. c \notin {"b", "o", "x"}
        BY <2>12, Letters
      <3>2. fn' = "number" /\ base' = 10 /\ number' = Worth(c)
        BY <1>5, <2>7, <2>12, <3>1 DEF ReadNumber, StartNumber
      <3>3. Worth(c) \in 0 .. 9 /\ HexValue(c) = Worth(c) /\ c # EOF /\ IsDigitOf(10, c)
        BY <2>12, DigitWorth, NotEOF DEF IsDigitOf
      <3>4. Denoted(10, two) = Worth(c)
        BY <2>6, <3>3
      <3>5. Wrap(Worth(c)) = Worth(c)
        BY <3>3, SizeAssumption, WrapSmall
      <3> QED BY <2>7, <3>2, <3>4, <3>5
    <2>13. CASE c \notin {"b", "o", "x"} /\ ~IsDigit(c)
      <3>1. fn' = "exit" /\ base' = 0
        BY <1>5, <2>7, <2>13 DEF ReadNumber
      <3> QED BY <3>1
    <2> QED BY <2>9, <2>10, <2>11, <2>12, <2>13
  <1>6. CASE src.cur # "0" /\ ~IsDigit(src.cur)
    <2>1. fn' = "exit" /\ base' = 0
      BY <1>6 DEF ReadNumber
    <2> QED BY <2>1
  <1> QED BY <1>4, <1>5, <1>6

(* A character more of a numeral: a digit, a separator, or its end.        *)
LEMMA DigitStep ==
  ASSUME file \in Files, ~EndsInCR(file), Cursor, Counted, ReadDigit, base # 16
  PROVE  Counted'
  <1> DEFINE from == call.from  s == HeldBy(file, call.from, src)  r == ReadChar(src)
             t == HeldBy(file, call.from, ReadChar(src))  c == ReadChar(src).cur
  <1>1. /\ fn = "number" /\ call' = call /\ call.op = "number" /\ src' = r /\ base' = base
        /\ file' = file
    BY DEF ReadDigit, Cursor
  <1>2. base \in {2, 8, 10} /\ base \in Nat /\ number = Wrap(Denoted(base, s))
    <2>1. base \in {2, 8, 10} /\ number = Wrap(Denoted(base, s))
      BY <1>1 DEF Counted
    <2> HIDE DEF s
    <2> QED BY <2>1
  <1>3. /\ Reading(file, src) /\ Reading(file, from) /\ src.cur # EOF
        /\ Index(file, from) <= Index(file, src)
    BY <1>1 DEF Cursor
  <1>4. Reading(file, r) /\ Index(file, from) <= Index(file, r)
    <2>1. Reading(file, r) /\ Index(file, r) = Index(file, src) + 1
      BY <1>3, ReadCharReads
    <2>2. Index(file, from) \in Nat /\ Index(file, src) \in Nat
      BY <1>3, TextIs DEF Reading
    <2> QED BY <1>3, <2>1, <2>2
  <1>5. /\ ConsumedBy(file, from, src) \in Seq(ToSet(file)) /\ src.cur \in ToSet(file)
        /\ s = Append(ConsumedBy(file, from, src), src.cur)
        /\ ConsumedBy(file, from, r) = s
    BY <1>3, HeldIs
  <1>6. s \in Seq(ToSet(file))
    BY <1>5
  <1>7. ASSUME c # EOF
        PROVE  c \in ToSet(file) /\ t = Append(s, c)
    <2>1. /\ ConsumedBy(file, from, r) \in Seq(ToSet(file)) /\ r.cur \in ToSet(file)
          /\ HeldBy(file, from, r) = Append(ConsumedBy(file, from, r), r.cur)
          /\ ConsumedBy(file, from, ReadChar(r)) = HeldBy(file, from, r)
      BY <1>3, <1>4, <1>7, HeldIs
    <2> QED BY <1>5, <2>1
  <1>8. CASE IsDigitOf(base, c)
    <2>1. /\ number' = Accumulated(base, number, c)
          /\ fn' = IF number > number' THEN "exit" ELSE "number"
      BY <1>1, <1>8 DEF ReadDigit
    <2>2. c \in ToSet(file) /\ t = Append(s, c)
      BY <1>7, <1>8, NotEOF
    <2>3. /\ Accumulated(base, number, c) = Wrap(Denoted(base, Append(s, c)))
          /\ number > Accumulated(base, number, c) => Denoted(base, Append(s, c)) >= UIntMod
      <3> HIDE DEF s, c
      <3> QED BY <1>2, <1>6, <1>8, <2>2, NextDigit
    <2>4. number' = Wrap(Denoted(base, t)) /\ (fn' = "exit" => Denoted(base, t) >= UIntMod)
      BY <2>1, <2>2, <2>3
    <2>5. fn' # "idle"
      BY <2>1
    <2> HIDE DEF s, c
    <2> QED BY <1>1, <1>2, <2>4, <2>5 DEF Counted
  <1>9. CASE ~IsDigitOf(base, c) /\ c = "_"
    <2>1. number' = number /\ fn' = "number"
      BY <1>1, <1>9 DEF ReadDigit
    <2>2. c \in ToSet(file) /\ t = Append(s, c)
      <3>1. c # EOF
        BY <1>9 DEF EOF
      <3> QED BY <1>7, <3>1
    <2>3. Denoted(base, Append(s, c)) = IF IsDigitOf(base, c) THEN Denoted(base, s) * base + HexValue(c)
                                        ELSE Denoted(base, s)
      <3> HIDE DEF s, c
      <3> QED BY <1>2, <1>6, <2>2, DenotedAppend
    <2>4. number' = Wrap(Denoted(base, t))
      BY <1>2, <1>9, <2>1, <2>2, <2>3
    <2> HIDE DEF s, c
    <2> QED BY <1>1, <1>2, <2>1, <2>4 DEF Counted
  <1>10. CASE ~IsDigitOf(base, c) /\ c # "_"
    <2>1. number' = number /\ fn' = "idle"
      BY <1>1, <1>10 DEF ReadDigit
    <2>2. number' = Wrap(Denoted(base, ConsumedBy(file, from, r)))
      BY <1>2, <1>5, <2>1
    <2> QED BY <1>1, <1>10, <2>1, <2>2 DEF Counted
  <1> QED BY <1>8, <1>9, <1>10

(* Every action keeps what is known of a number.                           *)
LEMMA CountedStep ==
  ASSUME TypeInv, Cursor, Counted, [Next]_vars
  PROVE  Counted'
  <1>0. file' = file /\ file \in Files
    BY StepReads DEF TypeInv
  <1>1. SUFFICES ASSUME ~EndsInCR(file)
                 PROVE  Counted'
    BY <1>0 DEF Counted
  <1>2. CASE UNCHANGED vars
    BY <1>2 DEF vars, Counted
  <1>3. CASE OpenRet
    <2>1. call'.op = "none"
      BY <1>3 DEF OpenRet, Cursor, NoCall
    <2> QED BY <2>1 DEF Counted
  <1>4. CASE SkipMark \/ SkipNonterminals \/ ReadIdent
    <2>1. call'.op \in {"mark", "skip", "ident"}
      BY <1>4 DEF SkipMark, SkipNonterminals, ReadIdent, Begin
    <2> QED BY <2>1 DEF Counted
  <1>5. CASE Skip
    <2>1. call'.op = "skip"
      BY <1>5 DEF Skip, SkipSpace, OpenComment, NestComment, CloseComment, OpenLineComment,
                  EndLineComment, SkipInComment, EndSkip, Cursor
    <2> QED BY <2>1 DEF Counted
  <1>6. CASE IdentChar
    <2>1. call'.op = "ident"
      BY <1>6 DEF IdentChar, Cursor
    <2> QED BY <2>1 DEF Counted
  <1>7. CASE ReadNumber
    <2>1. fn = "idle" /\ call'.from = src /\ Reading(file, src)
      BY <1>1, <1>7 DEF ReadNumber, Begin, Cursor
    <2>2. /\ fn' = "number" /\ base' # 16 =>
               base' \in {2, 8, 10} /\ number' = Wrap(Denoted(base', HeldBy(file, src, src')))
          /\ fn' = "exit" => base' = 0
          /\ fn' \in {"number", "exit"}
      BY <1>0, <1>1, <1>7, <2>1, FirstDigit
    <2>3. fn' = "exit" => base' \notin {2, 8, 10}
      BY <2>2
    <2>4. fn' # "idle"
      BY <2>2
    <2> QED BY <1>0, <2>1, <2>2, <2>3, <2>4 DEF Counted
  <1>8. CASE ReadDigit
    <2>1. CASE base # 16
      BY <1>0, <1>1, <1>8, <2>1, DigitStep
    <2>2. CASE base = 16
      <3>1. base' = 16
        BY <1>8, <2>2 DEF ReadDigit
      <3>2. 16 \notin {2, 8, 10}
        OBVIOUS
      <3> QED BY <3>1, <3>2 DEF Counted
    <2> QED BY <2>1, <2>2
  <1> QED BY <1>2, <1>3, <1>4, <1>5, <1>6, <1>7, <1>8 DEF Next, Loop

(* What is known of a number holds in every state.                         *)
LEMMA Counts == Spec => []Counted
  <1>1. Init => Counted
    BY DEF Init, Counted, NoCall
  <1>2. TypeInv /\ Cursor /\ Counted /\ [Next]_vars => Counted'
    BY CountedStep
  <1> QED BY <1>1, <1>2, Reads, PTL DEF Spec

(* A binary, octal or decimal number of any length is the value of its     *)
(* digits modulo 2^w, whatever w is, and nothing of it is left unread.     *)
THEOREM NumbersRead == Spec => []NumberRead
  <1>1. Counted => NumberRead
    <2>1. Consumed = ConsumedBy(file, call.from, src)
      BY DEF Consumed, ConsumedTo, ConsumedBy
    <2> QED BY <2>1 DEF Counted, NumberRead, ReadNumeral
  <1> QED BY <1>1, Counts, PTL

(* The program ends at an overflow only when the numeral does not fit: the *)
(* comparison with the sum before never refuses a number of 2, 8 or 10.    *)
THEOREM FittingOnly == Spec => []FittingAccepted
  <1>1. Cursor /\ Counted => FittingAccepted
    <2>1. ConsumedTo(Index(file, src)) = HeldBy(file, call.from, src)
      BY DEF ConsumedTo, HeldBy
    <2>2. 2 # 16 /\ 8 # 16 /\ 10 # 16
      OBVIOUS
    <2> QED BY <2>1, <2>2 DEF Counted, Cursor, FittingAccepted
  <1> QED BY <1>1, Counts, Reads, PTL
-----------------------------------------------------------------------------
(* An element not greater than any other is the least.                     *)
LEMMA LeastIs ==
  ASSUME NEW S, NEW k \in S, \A j \in S : j \in Nat /\ k <= j
  PROVE  Min(S) = k
  <1>1. Min(S) \in S /\ \A j \in S : Min(S) <= j
    <2>1. \E x \in S : \A y \in S : x <= y
      OBVIOUS
    <2> QED BY <2>1 DEF Min
  <1>2. Min(S) <= k /\ k <= Min(S) /\ k \in Nat /\ Min(S) \in Nat
    BY <1>1
  <1> QED BY <1>2

(* What the rule _ of the grammar skips, from the end of the text back.    *)
LEMMA PastType ==
  ASSUME NEW f \in Files, NEW k \in 1 .. Len(Text(f))+1
  PROVE  Past(f, k) \in k .. Len(Text(f))+1
  <1> DEFINE n == Len(Text(f))
             closes == {j \in k+2 .. n : Closes(f, j)}
             feeds == {j \in k+2 .. n : TextAt(f, j) = LF}
  <1>0. n \in Nat /\ k \in Nat \ {0}
    BY TextIs
  <1>1. Past(f, k) = CASE IsSpace(TextAt(f, k)) -> k + 1
                       [] Opens(f, k) /\ closes # {} -> Min(closes) + 2
                       [] LineOpens(f, k) /\ feeds # {} -> Min(feeds) + 1
                       [] OTHER -> k
    BY DEF Past
  <1>2. ASSUME IsSpace(TextAt(f, k))
        PROVE  k + 1 \in k .. n+1 /\ TextAt(f, k) # "/"
    <2>1. TextAt(f, k) # EOF /\ TextAt(f, k) # "/"
      BY <1>2, NotEOF DEF IsSpace, LF, CR
    <2> QED BY <1>0, <2>1, TextAtType
  <1>3. ASSUME closes # {}
        PROVE  Min(closes) \in closes /\ Min(closes) + 2 \in k .. n+1
    <2>1. closes \in SUBSET Nat
      BY <1>0
    <2>2. PICK x \in closes : \A y \in closes : x <= y
      BY <1>3, <2>1, LeastOf
    <2>3. Min(closes) \in closes
      <3> HIDE DEF closes
      <3> QED BY <2>1, <2>2 DEF Min
    <2> DEFINE j == Min(closes)
    <2>4. j \in k+2 .. n /\ TextAt(f, j+1) = "/"
      BY <2>3 DEF Closes
    <2>5. j + 1 \in Nat \ {0} /\ TextAt(f, j+1) # EOF
      BY <1>0, <2>4 DEF EOF
    <2> HIDE DEF j
    <2>6. j + 1 <= n
      BY <1>0, <2>4, <2>5, TextAtType
    <2> QED BY <1>0, <2>3, <2>4, <2>6 DEF j
  <1>4. ASSUME feeds # {}
        PROVE  Min(feeds) \in feeds /\ Min(feeds) + 1 \in k .. n+1
    <2>1. feeds \in SUBSET Nat
      BY <1>0
    <2>2. PICK x \in feeds : \A y \in feeds : x <= y
      BY <1>4, <2>1, LeastOf
    <2>3. Min(feeds) \in feeds
      <3> HIDE DEF feeds
      <3> QED BY <2>1, <2>2 DEF Min
    <2> QED BY <1>0, <2>3
  <1>5. Opens(f, k) => ~LineOpens(f, k)
    BY DEF Opens, LineOpens
  <1>6. IsSpace(TextAt(f, k)) => ~Opens(f, k) /\ ~LineOpens(f, k)
    BY <1>2 DEF Opens, LineOpens
  <1> HIDE DEF n, closes, feeds
  <1> SUFFICES Past(f, k) \in k .. n+1
    BY DEF n
  <1>7. CASE IsSpace(TextAt(f, k))
    BY <1>1, <1>2, <1>6, <1>7
  <1>8. CASE Opens(f, k) /\ closes # {}
    BY <1>1, <1>3, <1>5, <1>6, <1>8
  <1>9. CASE LineOpens(f, k) /\ feeds # {}
    BY <1>1, <1>4, <1>5, <1>6, <1>9
  <1>10. CASE /\ ~IsSpace(TextAt(f, k)) /\ ~(Opens(f, k) /\ closes # {})
              /\ ~(LineOpens(f, k) /\ feeds # {})
    <2>1. Past(f, k) = k
      BY <1>1, <1>10
    <2> QED BY <1>0, <2>1 DEF n
  <1> QED BY <1>7, <1>8, <1>9, <1>10

SkipsFrom(f, v, l) ==
  \A k \in l .. Len(Text(f))+1 : v[k] = IF Past(f, k) = k THEN k ELSE v[Past(f, k)]

(* There is a function that tells where the rule stops: where it fails to  *)
(* exist last, it would follow from the places after.                      *)
LEMMA SkipsExist ==
  ASSUME NEW f \in Files
  PROVE  \E v \in [1 .. Len(Text(f))+1 -> Nat] : SkipsFrom(f, v, 1)
  <1> DEFINE m == Len(Text(f)) + 1
             P(l) == \E v \in [l .. m -> Nat] : SkipsFrom(f, v, l)
             T == {d \in 0 .. m : ~P(m + 1 - d)}
  <1>0. m \in Nat
    BY TextIs
  <1>1. CASE T = {}
    <2>1. m \in 0 .. m /\ m + 1 - m = 1
      BY <1>0
    <2>2. P(m + 1 - m)
      BY <1>1, <2>1
    <2> QED BY <2>1, <2>2
  <1>2. ASSUME T # {} PROVE FALSE
    <2>1. PICK d \in T : \A e \in T : d <= e
      <3>1. T \in SUBSET Nat
        BY <1>0
      <3> HIDE DEF T
      <3> QED BY <1>2, <3>1, LeastOf
    <2>2. d # 0
      <3>1. m + 1 - 0 = m + 1 /\ (m+1) .. m = {}
        BY <1>0
      <3>2. [k \in (m+1) .. m |-> 0] \in [(m+1) .. m -> Nat]
        OBVIOUS
      <3>3. SkipsFrom(f, [k \in (m+1) .. m |-> 0], m+1)
        BY <3>1 DEF SkipsFrom
      <3>4. P(m+1)
        BY <3>2, <3>3
      <3> QED BY <2>1, <3>1, <3>4
    <2> DEFINE l == m + 1 - d
    <2>3. d - 1 \in 0 .. m /\ d - 1 \notin T /\ l \in 1 .. m /\ m + 1 - (d-1) = l + 1
      BY <1>0, <2>1, <2>2
    <2>4. P(l + 1)
      BY <2>3
    <2>5. ~P(l)
      BY <2>1
    <2> HIDE DEF l
    <2>6. PICK v \in [l+1 .. m -> Nat] : SkipsFrom(f, v, l+1)
      BY <2>4
    <2> DEFINE first == IF Past(f, l) = l THEN l ELSE v[Past(f, l)]
               w == [k \in l .. m |-> IF k = l THEN first ELSE v[k]]
    <2>7. ASSUME NEW k \in l .. m
          PROVE  Past(f, k) \in k .. m
      <3>1. k \in 1 .. m
        BY <1>0, <2>3
      <3> QED BY <3>1, PastType
    <2>8. l \in l .. m /\ l \in Nat /\ \A k \in l .. m : k # l => k \in l+1 .. m
      BY <1>0, <2>3
    <2>9. first \in Nat
      <3>1. Past(f, l) # l => Past(f, l) \in l+1 .. m
        BY <1>0, <2>7, <2>8
      <3> HIDE DEF m
      <3> QED BY <2>6, <2>8, <3>1
    <2> HIDE DEF first, m
    <2>10. w \in [l .. m -> Nat]
      BY <2>6, <2>8, <2>9
    <2>11. SkipsFrom(f, w, l)
      <3>1. SUFFICES ASSUME NEW k \in l .. m
                     PROVE  w[k] = IF Past(f, k) = k THEN k ELSE w[Past(f, k)]
        BY DEF SkipsFrom, m
      <3>2. Past(f, k) # k => Past(f, k) \in l+1 .. m
        BY <1>0, <2>3, <2>7
      <3>3. Past(f, k) # k => w[Past(f, k)] = v[Past(f, k)]
        BY <2>3, <3>2
      <3>4. CASE k = l
        BY <2>8, <3>3, <3>4 DEF first
      <3>5. CASE k # l
        <4>1. k \in l+1 .. m /\ w[k] = v[k]
          BY <2>8, <3>5
        <4>2. v[k] = IF Past(f, k) = k THEN k ELSE v[Past(f, k)]
          BY <2>6, <4>1 DEF SkipsFrom, m
        <4> QED BY <3>3, <4>1, <4>2
      <3> QED BY <3>4, <3>5
    <2> QED BY <2>5, <2>10, <2>11
  <1> QED BY <1>1, <1>2

(* What is skipped from k is what is skipped past the blank or comment at  *)
(* k, if there is one.                                                     *)
LEMMA SkippedIs ==
  ASSUME NEW f \in Files, NEW k \in 1 .. Len(Text(f))+1
  PROVE  Skipped(f)[k] = IF Past(f, k) = k THEN k ELSE Skipped(f)[Past(f, k)]
  <1> DEFINE m == Len(Text(f)) + 1
             F(v) == [j \in 1 .. m |-> IF Past(f, j) = j THEN j ELSE v[Past(f, j)]]
             to == CHOOSE v : v = F(v)
  <1>1. PICK v \in [1 .. m -> Nat] : SkipsFrom(f, v, 1)
    BY SkipsExist
  <1>2. v = F(v)
    BY <1>1 DEF SkipsFrom
  <1>3. to = F(to)
    BY <1>2
  <1>4. Skipped(f) = to
    BY DEF Skipped
  <1> HIDE DEF to
  <1>5. to[k] = F(to)[k]
    BY <1>3
  <1> QED BY <1>4, <1>5

(* In a comment that began at a place from which the rule skips to stop,   *)
(* and that does not end before k.                                         *)
WithinComment(f, k, stop) ==
  \E i \in 1 .. k-2 :
    Opens(f, i) /\ Skipped(f)[i] = stop /\ \A j \in i+2 .. k-1 : ~Closes(f, j)
WithinLine(f, k, stop) ==
  \E i \in 1 .. k-2 :
    LineOpens(f, i) /\ Skipped(f)[i] = stop /\ \A j \in i+2 .. k-1 : TextAt(f, j) # LF

(* The cases of Past exclude one another.                                  *)
LEMMA Openings ==
  ASSUME NEW f, NEW k
  PROVE  /\ Opens(f, k) => ~LineOpens(f, k) /\ ~IsSpace(TextAt(f, k)) /\ ~Closes(f, k)
         /\ LineOpens(f, k) => ~Opens(f, k) /\ ~IsSpace(TextAt(f, k))
         /\ Opens(f, k) \/ LineOpens(f, k) \/ Closes(f, k) =>
              TextAt(f, k) # EOF /\ TextAt(f, k+1) # EOF
  BY DEF Opens, LineOpens, Closes, IsSpace, LF, CR, EOF

(* A blank is skipped.                                                     *)
LEMMA SpaceOn ==
  ASSUME NEW f \in Files, NEW k \in 1 .. Len(Text(f))+1, IsSpace(TextAt(f, k))
  PROVE  Skipped(f)[k+1] = Skipped(f)[k]
  <1>0. k \in Nat
    BY TextIs
  <1>1. Past(f, k) = k + 1
    <2>1. ~Opens(f, k) /\ ~LineOpens(f, k)
      BY Openings
    <2> QED BY <2>1 DEF Past
  <1>2. Skipped(f)[k] = IF Past(f, k) = k THEN k ELSE Skipped(f)[Past(f, k)]
    BY SkippedIs
  <1> QED BY <1>0, <1>1, <1>2

(* Nothing else but a comment is.                                          *)
LEMMA NothingOn ==
  ASSUME NEW f \in Files, NEW k \in 1 .. Len(Text(f))+1,
         ~IsSpace(TextAt(f, k)), ~Opens(f, k), ~LineOpens(f, k)
  PROVE  Skipped(f)[k] = k
  <1>1. Past(f, k) = k
    BY DEF Past
  <1> QED BY <1>1, SkippedIs

(* Within the comment that opens at k is where its opening has been read.  *)
LEMMA CommentOpens ==
  ASSUME NEW f \in Files, NEW k \in 1 .. Len(Text(f))+1, NEW stop, Skipped(f)[k] = stop
  PROVE  /\ Opens(f, k) => WithinComment(f, k+2, stop)
         /\ LineOpens(f, k) => WithinLine(f, k+2, stop)
  <1>1. k \in Nat /\ k \in 1 .. (k+2)-2 /\ k+2 .. (k+2)-1 = {}
    BY TextIs
  <1> QED BY <1>1, Zenon DEF WithinComment, WithinLine

(* A comment goes on at a character that does not end it.                  *)
LEMMA WithinOn ==
  ASSUME NEW f, NEW k \in Nat, NEW stop
  PROVE  /\ WithinComment(f, k, stop) /\ ~Closes(f, k) => WithinComment(f, k+1, stop)
         /\ WithinLine(f, k, stop) /\ TextAt(f, k) # LF => WithinLine(f, k+1, stop)
  <1>1. ASSUME NEW i \in 1 .. k-2
        PROVE  i \in 1 .. (k+1)-2 /\ \A j \in i+2 .. (k+1)-1 : j \in i+2 .. k-1 \/ j = k
    OBVIOUS
  <1>2. ASSUME WithinComment(f, k, stop), ~Closes(f, k)
        PROVE  WithinComment(f, k+1, stop)
    <2>1. PICK i \in 1 .. k-2 :
            Opens(f, i) /\ Skipped(f)[i] = stop /\ \A j \in i+2 .. k-1 : ~Closes(f, j)
      BY <1>2 DEF WithinComment
    <2>2. i \in 1 .. (k+1)-2 /\ \A j \in i+2 .. (k+1)-1 : ~Closes(f, j)
      BY <1>1, <1>2, <2>1
    <2> QED BY <2>1, <2>2 DEF WithinComment
  <1>3. ASSUME WithinLine(f, k, stop), TextAt(f, k) # LF
        PROVE  WithinLine(f, k+1, stop)
    <2>1. PICK i \in 1 .. k-2 :
            LineOpens(f, i) /\ Skipped(f)[i] = stop /\ \A j \in i+2 .. k-1 : TextAt(f, j) # LF
      BY <1>3 DEF WithinLine
    <2>2. i \in 1 .. (k+1)-2 /\ \A j \in i+2 .. (k+1)-1 : TextAt(f, j) # LF
      BY <1>1, <1>3, <2>1
    <2> QED BY <2>1, <2>2 DEF WithinLine
  <1> QED BY <1>2, <1>3

(* The first end of a comment is where it ends.                            *)
LEMMA CommentEnds ==
  ASSUME NEW f \in Files, NEW k \in 1 .. Len(Text(f))+1, NEW stop,
         WithinComment(f, k, stop), Closes(f, k)
  PROVE  Skipped(f)[k+2] = stop
  <1> DEFINE n == Len(Text(f))
  <1>0. n \in Nat /\ k \in Nat \ {0}
    BY TextIs
  <1>1. PICK i \in 1 .. k-2 :
          Opens(f, i) /\ Skipped(f)[i] = stop /\ \A j \in i+2 .. k-1 : ~Closes(f, j)
    BY DEF WithinComment
  <1>2. k \in i+2 .. n /\ i \in 1 .. n+1
    <2>1. TextAt(f, k) # EOF
      BY Openings
    <2> QED BY <1>0, <1>1, <2>1, TextAtType
  <1> DEFINE closes == {j \in i+2 .. n : Closes(f, j)}
  <1>3. k \in closes /\ \A j \in closes : j \in Nat /\ k <= j
    <2>1. k \in closes
      BY <1>2
    <2>2. ASSUME NEW j \in closes PROVE j \in Nat /\ k <= j
      <3>1. j \in i+2 .. n /\ Closes(f, j)
        OBVIOUS
      <3>2. ~(j \in i+2 .. k-1)
        BY <1>1, <3>1
      <3> QED BY <1>0, <1>1, <3>1, <3>2
    <2> QED BY <2>1, <2>2
  <1>4. Past(f, i) = Min(closes) + 2
    <2>1. ~IsSpace(TextAt(f, i)) /\ ~LineOpens(f, i)
      BY <1>1, Openings
    <2>2. closes # {}
      BY <1>3
    <2> QED BY <1>1, <2>1, <2>2 DEF Past
  <1> HIDE DEF closes
  <1>5. Min(closes) = k
    BY <1>3, LeastIs
  <1>6. Skipped(f)[i] = IF Past(f, i) = i THEN i ELSE Skipped(f)[Past(f, i)]
    BY <1>2, SkippedIs
  <1> QED BY <1>0, <1>1, <1>4, <1>5, <1>6

(* The first line feed is where a line comment ends.                       *)
LEMMA LineEnds ==
  ASSUME NEW f \in Files, NEW k \in 1 .. Len(Text(f))+1, NEW stop,
         WithinLine(f, k, stop), TextAt(f, k) = LF
  PROVE  Skipped(f)[k] = stop
  <1> DEFINE n == Len(Text(f))
  <1>0. n \in Nat /\ k \in Nat \ {0}
    BY TextIs
  <1>1. PICK i \in 1 .. k-2 :
          LineOpens(f, i) /\ Skipped(f)[i] = stop /\ \A j \in i+2 .. k-1 : TextAt(f, j) # LF
    BY DEF WithinLine
  <1>2. k \in i+2 .. n /\ i \in 1 .. n+1
    <2>1. TextAt(f, k) # EOF
      BY DEF LF, EOF
    <2> QED BY <1>0, <1>1, <2>1, TextAtType
  <1> DEFINE feeds == {j \in i+2 .. n : TextAt(f, j) = LF}
  <1>3. k \in feeds /\ \A j \in feeds : j \in Nat /\ k <= j
    <2>1. k \in feeds
      BY <1>2
    <2>2. ASSUME NEW j \in feeds PROVE j \in Nat /\ k <= j
      <3>1. j \in i+2 .. n /\ TextAt(f, j) = LF
        OBVIOUS
      <3>2. ~(j \in i+2 .. k-1)
        BY <1>1, <3>1
      <3> QED BY <1>0, <1>1, <3>1, <3>2
    <2> QED BY <2>1, <2>2
  <1>4. Past(f, i) = Min(feeds) + 1
    <2>1. ~IsSpace(TextAt(f, i)) /\ ~Opens(f, i)
      BY <1>1, Openings
    <2>2. feeds # {}
      BY <1>3
    <2> QED BY <1>1, <2>1, <2>2 DEF Past
  <1> HIDE DEF feeds
  <1>5. Min(feeds) = k
    BY <1>3, LeastIs
  <1>6. Skipped(f)[i] = IF Past(f, i) = i THEN i ELSE Skipped(f)[Past(f, i)]
    BY <1>2, SkippedIs
  <1>7. Skipped(f)[k+1] = Skipped(f)[k]
    BY SpaceOn DEF IsSpace
  <1> QED BY <1>0, <1>1, <1>4, <1>5, <1>6, <1>7

(* A comment that the end of the file cuts short is not skipped.           *)
LEMMA CutShort ==
  ASSUME NEW f \in Files, NEW stop
  PROVE  /\ WithinComment(f, Len(Text(f))+1, stop) => Opens(f, stop)
         /\ WithinLine(f, Len(Text(f))+1, stop) => LineOpens(f, stop)
  <1> DEFINE n == Len(Text(f))
  <1>0. n \in Nat /\ (n+1)-1 = n
    BY TextIs
  <1>1. ASSUME WithinComment(f, n+1, stop)
        PROVE  Opens(f, stop)
    <2>1. PICK i \in 1 .. (n+1)-2 :
            Opens(f, i) /\ Skipped(f)[i] = stop /\ \A j \in i+2 .. (n+1)-1 : ~Closes(f, j)
      BY <1>1 DEF WithinComment
    <2>2. {j \in i+2 .. n : Closes(f, j)} = {}
      BY <1>0, <2>1
    <2>3. ~IsSpace(TextAt(f, i)) /\ ~LineOpens(f, i)
      BY <2>1, Openings
    <2>4. Past(f, i) = i
      BY <2>2, <2>3 DEF Past
    <2>5. i \in 1 .. n+1
      BY <1>0
    <2>6. Skipped(f)[i] = IF Past(f, i) = i THEN i ELSE Skipped(f)[Past(f, i)]
      BY <2>5, SkippedIs
    <2> QED BY <2>1, <2>4, <2>6
  <1>2. ASSUME WithinLine(f, n+1, stop)
        PROVE  LineOpens(f, stop)
    <2>1. PICK i \in 1 .. (n+1)-2 :
            LineOpens(f, i) /\ Skipped(f)[i] = stop /\ \A j \in i+2 .. (n+1)-1 : TextAt(f, j) # LF
      BY <1>2 DEF WithinLine
    <2>2. {j \in i+2 .. n : TextAt(f, j) = LF} = {}
      BY <1>0, <2>1
    <2>3. ~IsSpace(TextAt(f, i)) /\ ~Opens(f, i)
      BY <2>1, Openings
    <2>4. Past(f, i) = i
      BY <2>2, <2>3 DEF Past
    <2>5. i \in 1 .. n+1
      BY <1>0
    <2>6. Skipped(f)[i] = IF Past(f, i) = i THEN i ELSE Skipped(f)[Past(f, i)]
      BY <2>5, SkippedIs
    <2> QED BY <2>1, <2>4, <2>6
  <1> QED BY <1>1, <1>2

(* In a file without nested comments none opens within a comment.          *)
LEMMA NoneNested ==
  ASSUME NEW f \in Files, NEW k \in 1 .. Len(Text(f))+1, NEW stop,
         ~Nested(f), WithinComment(f, k, stop)
  PROVE  ~Opens(f, k)
  <1> DEFINE n == Len(Text(f))
  <1>0. n \in Nat /\ k \in Nat \ {0}
    BY TextIs
  <1>1. PICK i \in 1 .. k-2 :
          Opens(f, i) /\ Skipped(f)[i] = stop /\ \A j \in i+2 .. k-1 : ~Closes(f, j)
    BY DEF WithinComment
  <1>2. ASSUME Opens(f, k)
        PROVE  FALSE
    <2>1. k <= n
      BY <1>0, <1>2, Openings, TextAtType
    <2>2. k \in i+2 .. n /\ i \in 1 .. n
      BY <1>0, <1>1, <2>1
    <2> QED BY <1>1, <1>2, <2>2 DEF Nested
  <1> QED BY <1>2

(* A file without carriage returns does not end in one.                    *)
LEMMA NoCREnd ==
  ASSUME NEW f \in Files, CR \notin ToSet(f)
  PROVE  ~EndsInCR(f)
  <1>1. f \in Seq(ToSet(f))
    BY FilesAssumption
  <1>2. f # <<>> => f[Len(f)] \in ToSet(f)
    <2>1. f # <<>> => Len(f) \in 1 .. Len(f)
      BY <1>1
    <2> QED BY <1>1, <2>1, ElementOfSeq
  <1> QED BY <1>2 DEF EndsInCR

(* What is left to skip is what was when the call began, and a comment is  *)
(* open when one is read; at the end nothing is left, or a comment is cut  *)
(* short.                                                                  *)
Stop == Skipped(file)[Index(file, call.from)]
Ended(f, k, stop) ==
  k = stop \/ ((Opens(f, stop) \/ LineOpens(f, stop)) /\ k = Len(Text(f)) + 1)
Skipping ==
  call.op = "skip" /\ ~Nested(file) /\ CR \notin ToSet(file) =>
    /\ fn = "space" => Skipped(file)[Index(file, src)] = Stop
    /\ fn = "comment" => level = 1 /\ WithinComment(file, Index(file, src), Stop)
    /\ fn = "lineComment" => WithinLine(file, Index(file, src), Stop)
    /\ fn = "idle" => Ended(file, Index(file, src), Stop)

(* What the reader sees when it skips, in terms of the text.               *)
LEMMA Sees ==
  ASSUME TypeInv, Cursor, CR \notin ToSet(file), fn \in {"space", "comment", "lineComment"}
  PROVE  /\ file \in Files /\ ~EndsInCR(file) /\ Reading(file, src) /\ Len(Text(file)) \in Nat
         /\ Index(file, src) \in 1 .. Len(Text(file)) + 1 /\ Index(file, src) \in Nat \ {0}
         /\ src.cur = TextAt(file, Index(file, src))
         /\ (src.cur = EOF) <=> (Index(file, src) = Len(Text(file)) + 1)
         /\ Opening <=> Opens(file, Index(file, src))
         /\ Closing <=> Closes(file, Index(file, src))
         /\ LineOpening <=> LineOpens(file, Index(file, src))
  <1> DEFINE k == Index(file, src)
  <1>1. file \in Files /\ ~EndsInCR(file)
    BY NoCREnd DEF TypeInv
  <1>2. Reading(file, src)
    BY <1>1 DEF Cursor
  <1>3. /\ Len(Text(file)) \in Nat /\ k \in 1 .. Len(Text(file)) + 1
        /\ src.cur = TextAt(file, k) /\ src.next = TextAt(file, k+1)
    BY <1>1, <1>2, TextIs DEF Reading
  <1>4. k \in Nat \ {0}
    BY <1>3
  <1> HIDE DEF k
  <1>5. (TextAt(file, k) = EOF) <=> (Len(Text(file)) < k)
    BY <1>1, <1>4, TextAtType
  <1>6. (src.cur = EOF) <=> (k = Len(Text(file)) + 1)
    BY <1>3, <1>4, <1>5
  <1>7. /\ Opening <=> Opens(file, k)
        /\ Closing <=> Closes(file, k)
        /\ LineOpening <=> LineOpens(file, k)
    BY <1>3 DEF Opening, Closing, LineOpening, Opens, Closes, LineOpens
  <1> QED BY <1>1, <1>2, <1>3, <1>4, <1>6, <1>7 DEF k

(* Every action of Skip keeps what is left to skip.                        *)
LEMMA SkipStep ==
  ASSUME TypeInv, Cursor, Skipping, Skip, ~Nested(file), CR \notin ToSet(file)
  PROVE  Skipping'
  <1> DEFINE k == Index(file, src)  stop == Stop  n == Len(Text(file))
  <1>0. /\ file' = file /\ call' = call /\ call.op = "skip"
        /\ fn \in {"space", "comment", "lineComment"}
    BY DEF Skip, SkipSpace, OpenComment, NestComment, CloseComment, OpenLineComment,
           EndLineComment, SkipInComment, EndSkip, Cursor
  <1>1. /\ file \in Files /\ ~EndsInCR(file) /\ Reading(file, src) /\ n \in Nat
        /\ k \in 1 .. n + 1 /\ k \in Nat \ {0}
        /\ src.cur = TextAt(file, k)
        /\ (src.cur = EOF) <=> (k = n + 1)
        /\ Opening <=> Opens(file, k)
        /\ Closing <=> Closes(file, k)
        /\ LineOpening <=> LineOpens(file, k)
    BY <1>0, Sees
  <1>2. Stop' = stop
    BY <1>0 DEF Stop
  <1>3. ASSUME src.cur # EOF
        PROVE  Index(file, ReadChar(src)) = k + 1
    BY <1>1, <1>3, ReadCharReads
  <1>4. ASSUME Opening \/ Closing \/ LineOpening
        PROVE  Index(file, ReadChar(ReadChar(src))) = k + 2
    <2>1. src.cur # EOF /\ src.next # EOF
      BY <1>4 DEF Opening, Closing, LineOpening, EOF
    <2> QED BY <1>1, <2>1, ReadTwiceReads
  <1>5. /\ fn = "space" => Skipped(file)[k] = stop
        /\ fn = "comment" => level = 1 /\ WithinComment(file, k, stop)
        /\ fn = "lineComment" => WithinLine(file, k, stop)
    BY <1>0 DEF Skipping
  <1>6. ASSUME NEW i, Index(file, src') = i,
               fn' \in {"space", "comment", "lineComment", "idle"},
               fn' = "space" => Skipped(file)[i] = stop,
               fn' = "comment" => level' = 1 /\ WithinComment(file, i, stop),
               fn' = "lineComment" => WithinLine(file, i, stop),
               fn' = "idle" => Ended(file, i, stop)
        PROVE  Skipping'
    <2>1. Index(file', src') = i /\ file' = file
      BY <1>0, <1>6
    <2> HIDE DEF stop
    <2> QED BY <1>2, <1>6, <2>1 DEF Skipping
  <1> HIDE DEF k, stop, n
  <1>7. CASE SkipSpace
    <2>1. fn = "space" /\ fn' = "space" /\ src' = ReadChar(src) /\ IsSpace(TextAt(file, k))
      BY <1>1, <1>7 DEF SkipSpace
    <2>2. Index(file, src') = k + 1
      BY <1>1, <1>3, <2>1, NotEOF
    <2>3. Skipped(file)[k+1] = stop
      <3>1. Skipped(file)[k+1] = Skipped(file)[k]
        BY <1>1, <2>1, SpaceOn DEF n
      <3> QED BY <1>5, <2>1, <3>1
    <2> QED BY <1>6, <2>1, <2>2, <2>3
  <1>8. CASE OpenComment
    <2>1. fn = "space" /\ fn' = "comment" /\ level' = 1 /\ src' = ReadChar(ReadChar(src)) /\ Opening
      BY <1>8 DEF OpenComment
    <2>2. Index(file, src') = k + 2
      BY <1>4, <2>1
    <2>3. WithinComment(file, k+2, stop)
      BY <1>1, <1>5, <2>1, CommentOpens DEF n
    <2> QED BY <1>6, <2>1, <2>2, <2>3
  <1>9. CASE NestComment
    <2>1. fn = "comment" /\ Opens(file, k)
      BY <1>1, <1>9 DEF NestComment
    <2>2. ~Opens(file, k)
      BY <1>1, <1>5, <2>1, NoneNested DEF n
    <2> QED BY <2>1, <2>2
  <1>10. CASE CloseComment
    <2>1. fn = "comment" /\ level = 1 /\ fn' = "space" /\ src' = ReadChar(ReadChar(src)) /\ Closing
      BY <1>5, <1>10 DEF CloseComment
    <2>2. Index(file, src') = k + 2
      BY <1>4, <2>1
    <2>3. Skipped(file)[k+2] = stop
      BY <1>1, <1>5, <2>1, CommentEnds DEF n
    <2> QED BY <1>6, <2>1, <2>2, <2>3
  <1>11. CASE OpenLineComment
    <2>1. fn = "space" /\ fn' = "lineComment" /\ src' = ReadChar(ReadChar(src)) /\ LineOpening
      BY <1>11 DEF OpenLineComment
    <2>2. Index(file, src') = k + 2
      BY <1>4, <2>1
    <2>3. WithinLine(file, k+2, stop)
      BY <1>1, <1>5, <2>1, CommentOpens DEF n
    <2> QED BY <1>6, <2>1, <2>2, <2>3
  <1>12. CASE EndLineComment
    <2>1. fn = "lineComment" /\ fn' = "space" /\ src' = src /\ TextAt(file, k) = LF
      BY <1>1, <1>12 DEF EndLineComment
    <2>2. Index(file, src') = k
      BY <2>1 DEF k
    <2>3. Skipped(file)[k] = stop
      BY <1>1, <1>5, <2>1, LineEnds DEF n
    <2> QED BY <1>6, <2>1, <2>2, <2>3
  <1>13. CASE SkipInComment
    <2>1. /\ src.cur # EOF /\ src' = ReadChar(src) /\ fn' = fn /\ level' = level
          /\ \/ fn = "comment" /\ ~Closes(file, k)
             \/ fn = "lineComment" /\ TextAt(file, k) # LF
      BY <1>1, <1>13 DEF SkipInComment
    <2>2. Index(file, src') = k + 1
      BY <1>3, <2>1
    <2>3. /\ WithinComment(file, k, stop) /\ ~Closes(file, k) => WithinComment(file, k+1, stop)
          /\ WithinLine(file, k, stop) /\ TextAt(file, k) # LF => WithinLine(file, k+1, stop)
      BY <1>1, WithinOn
    <2>4. CASE fn = "comment"
      BY <1>5, <1>6, <2>1, <2>2, <2>3, <2>4
    <2>5. CASE fn = "lineComment"
      BY <1>5, <1>6, <2>1, <2>2, <2>3, <2>5
    <2> QED BY <2>1, <2>4, <2>5
  <1>14. CASE EndSkip
    <2>1. fn' = "idle" /\ src' = src
      BY <1>14 DEF EndSkip
    <2>2. Index(file, src') = k
      BY <2>1 DEF k
    <2>3. CASE fn = "space"
      <3>1. ~IsSpace(TextAt(file, k)) /\ ~Opens(file, k) /\ ~LineOpens(file, k)
        BY <1>1, <1>14, <2>3 DEF EndSkip
      <3>2. Skipped(file)[k] = k
        BY <1>1, <3>1, NothingOn DEF n
      <3>3. Ended(file, k, stop)
        BY <1>5, <2>3, <3>2 DEF Ended
      <3> QED BY <1>6, <2>1, <2>2, <3>3
    <2>4. CASE fn # "space"
      <3>1. k = n + 1
        BY <1>1, <1>14, <2>4 DEF EndSkip
      <3>2. Opens(file, stop) \/ LineOpens(file, stop)
        BY <1>0, <1>1, <1>5, <2>4, <3>1, CutShort DEF n
      <3>3. Ended(file, k, stop)
        BY <3>1, <3>2 DEF Ended, n
      <3> QED BY <1>6, <2>1, <2>2, <3>3
    <2> QED BY <2>3, <2>4
  <1> QED BY <1>7, <1>8, <1>9, <1>10, <1>11, <1>12, <1>13, <1>14 DEF Skip

(* So does every other.                                                    *)
LEMMA SkippingStep ==
  ASSUME TypeInv, Cursor, Skipping, [Next]_vars
  PROVE  Skipping'
  <1>0. file' = file
    BY StepReads
  <1>1. SUFFICES ASSUME ~Nested(file), CR \notin ToSet(file)
                 PROVE  Skipping'
    BY <1>0 DEF Skipping
  <1>2. CASE UNCHANGED vars
    <2>1. UNCHANGED <<file, src, fn, call, level>>
      BY <1>2 DEF vars
    <2> QED BY <2>1 DEF Skipping, Stop
  <1>3. CASE OpenRet
    <2>1. call'.op = "none"
      BY <1>3 DEF OpenRet, Cursor, NoCall
    <2> QED BY <2>1 DEF Skipping
  <1>4. CASE SkipMark \/ ReadIdent \/ ReadNumber
    <2>1. call'.op \in {"mark", "ident", "number"}
      BY <1>4 DEF SkipMark, ReadNumber, ReadIdent, Begin
    <2> QED BY <2>1 DEF Skipping
  <1>5. CASE SkipNonterminals
    <2>1. call'.from = src /\ src' = src /\ fn' = "space"
      BY <1>5 DEF SkipNonterminals, Begin
    <2>2. Index(file', src') = Index(file', (call').from)
      BY <2>1
    <2> QED BY <2>1, <2>2 DEF Skipping, Stop
  <1>6. CASE Skip
    BY <1>1, <1>6, SkipStep
  <1>7. CASE IdentChar \/ ReadDigit
    <2>1. call'.op \in {"ident", "number"}
      BY <1>7 DEF IdentChar, ReadDigit, Cursor
    <2> QED BY <2>1 DEF Skipping
  <1> QED BY <1>2, <1>3, <1>4, <1>5, <1>6, <1>7 DEF Next, Loop

(* Where a file has neither nested comments nor carriage returns, what a   *)
(* call skips is what the rule _ of the grammar skips there, however many  *)
(* blanks and comments follow one another; a comment the end of the file   *)
(* cuts short is read to that end.                                         *)
THEOREM GrammarFollowed == Spec => []GrammarAgrees
  <1>1. Init => Skipping
    BY DEF Init, Skipping, NoCall
  <1>2. TypeInv /\ Cursor /\ Skipping /\ [Next]_vars => Skipping'
    BY SkippingStep
  <1>3. Skipping => GrammarAgrees
    BY DEF Skipping, Stop, Ended, GrammarAgrees
  <1> QED BY <1>1, <1>2, <1>3, Reads, PTL DEF Spec
=============================================================================
