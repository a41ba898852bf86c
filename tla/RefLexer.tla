------------------------------ MODULE RefLexer ------------------------------
(***************************************************************************)
(* The lexer of origoref.c (537-997): a source file read one character     *)
(* ahead, and the functions the parser calls on it.  A call runs one       *)
(* ReadChar per step, so that loops can be seen to end.                    *)
(*                                                                         *)
(* A file is what stdio delivers in text mode, after the translation of    *)
(* line ends by the C run-time; a lone carriage return survives it.        *)
(* MarkToken is left out: only ReturnToken, which nothing calls, reads     *)
(* what it stores.  A seek in a file that has just been read succeeds, so  *)
(* the exit at 581 is left out; the two calls at 989, whose order C leaves *)
(* open, are made from left to right, as tcc makes them.                   *)
(***************************************************************************)
EXTENDS Integers, Sequences, FiniteSets, FiniteSetsExt, SequencesExt, Enumeration

CONSTANTS
  Files,         (* The source files.                                      *)
  IdentMaxIndex, (* IDENT_MAXINDEX, the characters kept of a name (31).     *)
  UIntMod        (* 2^w, w the width of unsigned.                          *)

(* C gives unsigned 16 bits at least; a digit has to fit.                  *)
ASSUME SizeAssumption ==
  IdentMaxIndex \in Nat \ {0} /\ UIntMod \in Nat /\ UIntMod >= 16

LF == "LF"
CR == "CR"
EOF == "EOF"
NUL == "NUL"   (* curCh and nextCh before the first character is read.     *)
Digits == <<"0", "1", "2", "3", "4", "5", "6", "7", "8", "9">>
Lower == <<"a", "b", "c", "d", "e", "f", "o", "x">>
Upper == <<"A", "B", "C", "D", "E", "F">>

(* fgetc tells the end of a file from every character.                     *)
ASSUME FilesAssumption ==
  \A f \in Files : f \in Seq(ToSet(f)) /\ EOF \notin ToSet(f)

PositionIn(s, c) == CHOOSE i \in DOMAIN s : s[i] = c

IsSpace(c) == c \in {" ", LF, CR}
IsDigit(c) == c \in ToSet(Digits)
IsAlpha(c) == c \in ToSet(Lower) \cup ToSet(Upper)
IsIdentStart(c) == c = "_" \/ IsAlpha(c)
IsIdentChar(c) == IsIdentStart(c) \/ IsDigit(c)
IsMark(c) == c \in {"@", "[", "]", ","}

VARIABLES
  file,    (* The characters of the file.                                  *)
  src,     (* The RetFile: file position, curCh, nextCh, line, column.     *)
  fn,      (* The loop that runs, "idle" between calls, "exit" after exit. *)
  call,    (* The last call, with the RetFile it began at (auxiliary).     *)
  result,  (* What it returned.                                            *)
  level,   (* commentLevel.                                                *)
  ident,   (* tmpIdent.                                                    *)
  base,    (* Which of the number readers runs.                            *)
  number   (* The number it has read so far.                               *)

vars == <<file, src, fn, call, result, level, ident, base, number>>

NoCall == [op |-> "none", from |-> [pos |-> 0, cur |-> NUL, next |-> NUL, line |-> 1, column |-> 1]]
-----------------------------------------------------------------------------
At(i) == IF i <= Len(file) THEN file[i] ELSE EOF

(* Mutant of After: whatever follows a carriage return, the seek goes back *)
(* over both.                                                              *)
AfterStuck(pos) ==
  CASE At(pos+1) = EOF -> pos
    [] At(pos+1) = CR /\ At(pos+2) = LF -> pos + 2
    [] At(pos+1) = CR /\ At(pos+2) # LF -> pos
    [] OTHER -> pos + 1

(* fgetc after a carriage return takes a line feed with it; any other      *)
(* result, end of file included, is put back by seeking one byte back.     *)
(* At the end of the file fgetc did not advance, so the seek goes back     *)
(* over the carriage return itself.                                        *)
After(pos) ==
  CASE At(pos+1) = EOF -> pos
    [] At(pos+1) = CR /\ At(pos+2) = LF -> pos + 2
    [] At(pos+1) = CR /\ At(pos+2) = EOF -> pos
    [] OTHER -> pos + 1

(* Lines, columns and numbers are unsigned.                                *)
Wrap(n) == n % UIntMod

(* Mutant of ReadChar: the line advances with the line feed, not after it. *)
ReadCharEager(s) ==
  [pos |-> After(s.pos), cur |-> s.next, next |-> At(s.pos + 1),
   line |-> IF s.next = LF THEN Wrap(s.line + 1) ELSE s.line,
   column |-> IF s.next = LF THEN 1 ELSE Wrap(s.column + 1)]

ReadChar(s) ==
  [pos |-> After(s.pos), cur |-> s.next, next |-> At(s.pos + 1),
   line |-> IF s.cur = LF THEN Wrap(s.line + 1) ELSE s.line,
   column |-> IF s.cur = LF THEN 1 ELSE Wrap(s.column + 1)]

Begin(op) == call' = [op |-> op, from |-> src]

Init ==
  /\ file \in Files
  /\ src = NoCall.from
  /\ fn = "closed"
  /\ call = NoCall
  /\ result = 0 /\ level = 0 /\ ident = <<>> /\ base = 0 /\ number = 0

(* The first two characters are read, the first into curCh.                *)
OpenRet ==
  /\ fn = "closed"
  /\ src' = ReadChar(ReadChar(src))
  /\ fn' = "idle"
  /\ UNCHANGED <<file, call, result, level, ident, base, number>>

(* The parser skips a punctuation character it has seen.                   *)
SkipMark ==
  /\ fn = "idle"
  /\ IsMark(src.cur)
  /\ Begin("mark")
  /\ src' = ReadChar(src)
  /\ UNCHANGED <<file, fn, result, level, ident, base, number>>
-----------------------------------------------------------------------------
(* SkipNonterminals: SkipSpace and SkipComment in turn, as long as         *)
(* SkipComment skips one.                                                  *)
SkipNonterminals ==
  /\ fn = "idle"
  /\ Begin("skip")
  /\ fn' = "space"
  /\ UNCHANGED <<file, src, result, level, ident, base, number>>

Opening == src.cur = "/" /\ src.next = "*"
Closing == src.cur = "*" /\ src.next = "/"
LineOpening == src.cur = "/" /\ src.next = "/"

SkipSpace ==
  /\ fn = "space"
  /\ IsSpace(src.cur)
  /\ src' = ReadChar(src)
  /\ UNCHANGED <<file, fn, call, result, level, ident, base, number>>

OpenComment ==
  /\ fn = "space"
  /\ Opening
  /\ src' = ReadChar(ReadChar(src))
  /\ level' = 1
  /\ fn' = "comment"
  /\ UNCHANGED <<file, call, result, ident, base, number>>

(* Comments nest.                                                          *)
NestComment ==
  /\ fn = "comment"
  /\ Opening
  /\ src' = ReadChar(ReadChar(src))
  /\ level' = level + 1
  /\ UNCHANGED <<file, fn, call, result, ident, base, number>>

(* Mutant of CloseComment: the slash is not skipped with the star.         *)
CloseCommentShort ==
  /\ fn = "comment"
  /\ Closing
  /\ src' = ReadChar(src)
  /\ level' = level - 1
  /\ fn' = IF level = 1 THEN "space" ELSE "comment"
  /\ UNCHANGED <<file, call, result, ident, base, number>>

CloseComment ==
  /\ fn = "comment"
  /\ Closing
  /\ src' = ReadChar(ReadChar(src))
  /\ level' = level - 1
  /\ fn' = IF level = 1 THEN "space" ELSE "comment"
  /\ UNCHANGED <<file, call, result, ident, base, number>>

OpenLineComment ==
  /\ fn = "space"
  /\ LineOpening
  /\ src' = ReadChar(ReadChar(src))
  /\ fn' = "lineComment"
  /\ UNCHANGED <<file, call, result, level, ident, base, number>>

(* A line comment ends before its line feed, which is then space.          *)
EndLineComment ==
  /\ fn = "lineComment"
  /\ src.cur = LF
  /\ fn' = "space"
  /\ UNCHANGED <<file, src, call, result, level, ident, base, number>>

SkipInComment ==
  /\ \/ fn = "comment" /\ ~Opening /\ ~Closing
     \/ fn = "lineComment" /\ src.cur # LF
  /\ src.cur # EOF
  /\ src' = ReadChar(src)
  /\ UNCHANGED <<file, fn, call, result, level, ident, base, number>>

(* Nothing left to skip, or a comment that the end of the file cuts short: *)
(* SkipNonterminals tells the two apart from no caller.                    *)
EndSkip ==
  /\ \/ fn = "space" /\ ~IsSpace(src.cur) /\ ~Opening /\ ~LineOpening
     \/ fn \in {"comment", "lineComment"} /\ src.cur = EOF
  /\ fn' = "idle"
  /\ level' = 0
  /\ UNCHANGED <<file, src, call, result, ident, base, number>>

Skip ==
  \/ SkipSpace \/ OpenComment \/ NestComment \/ CloseComment
  \/ OpenLineComment \/ EndLineComment \/ SkipInComment \/ EndSkip
-----------------------------------------------------------------------------
(* A name begins with a letter or underscore, else the call returns 3.     *)
ReadIdent ==
  /\ fn = "idle"
  /\ Begin("ident")
  /\ IF IsIdentStart(src.cur)
     THEN fn' = "ident" /\ ident' = <<>> /\ UNCHANGED result
     ELSE result' = 3 /\ UNCHANGED <<fn, ident>>
  /\ UNCHANGED <<file, src, level, base, number>>

(* Mutant of IdentChar: reading stops when the name is full.               *)
IdentCharStops ==
  /\ fn = "ident"
  /\ ident' = Append(ident, src.cur)
  /\ src' = ReadChar(src)
  /\ IF IsIdentChar(src'.cur) /\ Len(ident') < IdentMaxIndex THEN UNCHANGED <<fn, result>>
                                                          ELSE fn' = "idle" /\ result' = 0
  /\ UNCHANGED <<file, call, level, base, number>>

(* The characters past the longest name are read and dropped.              *)
IdentChar ==
  /\ fn = "ident"
  /\ ident' = IF Len(ident) < IdentMaxIndex THEN Append(ident, src.cur) ELSE ident
  /\ src' = ReadChar(src)
  /\ IF IsIdentChar(src'.cur) THEN UNCHANGED <<fn, result>>
                              ELSE fn' = "idle" /\ result' = 0
  /\ UNCHANGED <<file, call, level, base, number>>
-----------------------------------------------------------------------------
IsDigitOf(b, c) ==
  CASE b = 2 -> c \in {"0", "1"}
    [] b = 8 -> IsDigit(c) /\ c \notin {"8", "9"}
    [] b = 10 -> IsDigit(c)
    [] b = 16 -> IsDigit(c) \/ c \in ToSet(Upper) \cup {"a", "b", "c", "d", "e", "f"}
    [] OTHER -> FALSE

(* What a digit adds: its distance from '0', or from 'a' and ten more.     *)
(* Upper-case letters lie 17 and more past '0'.                            *)
Worth(c) ==
  CASE IsDigit(c) -> PositionIn(Digits, c) - 1
    [] c \in ToSet(Upper) -> PositionIn(Upper, c) + 16
    [] OTHER -> PositionIn(Lower, c) + 9

(* Mutant of Accumulated: wide arithmetic.                                 *)
AccumulatedWide(b, n, c) == n * (IF b = 16 THEN 8 ELSE b) + Worth(c)

(* The number with one more digit, modulo 2^w.  Hexadecimal digits shift   *)
(* it by three bits, like octal ones.                                      *)
Accumulated(b, n, c) == Wrap(n * (IF b = 16 THEN 8 ELSE b) + Worth(c))

StartNumber(b, n) == fn' = "number" /\ base' = b /\ number' = n

(* A number is a decimal digit and what follows, or 0 with one of the      *)
(* letters b, o and x; anything else ends the program.                     *)
ReadNumber ==
  /\ fn = "idle"
  /\ Begin("number")
  /\ src' = IF src.cur = "0" THEN ReadChar(src) ELSE src
  /\ CASE src.cur = "0" /\ src'.cur = "b" -> StartNumber(2, 0)
       [] src.cur = "0" /\ src'.cur = "o" -> StartNumber(8, 0)
       [] src.cur = "0" /\ src'.cur = "x" -> StartNumber(16, 0)
       [] IsDigit(src'.cur) -> StartNumber(10, Worth(src'.cur))
       [] OTHER -> fn' = "exit" /\ base' = 0 /\ number' = 0
  /\ UNCHANGED <<file, result, level, ident>>

(* Mutants of ReadDigit: a sum equal to the number before is an overflow;  *)
(* a separator ends the number.                                            *)
ReadDigitStrict ==
  /\ fn = "number"
  /\ src' = ReadChar(src)
  /\ IF IsDigitOf(base, src'.cur)
     THEN /\ number' = Accumulated(base, number, src'.cur)
          /\ fn' = IF number >= number' THEN "exit" ELSE fn
          /\ UNCHANGED result
     ELSE /\ IF src'.cur = "_" THEN UNCHANGED <<fn, result>> ELSE fn' = "idle" /\ result' = 0
          /\ UNCHANGED number
  /\ UNCHANGED <<file, call, level, ident, base>>
ReadDigitPlain ==
  /\ fn = "number"
  /\ src' = ReadChar(src)
  /\ IF IsDigitOf(base, src'.cur)
     THEN /\ number' = Accumulated(base, number, src'.cur)
          /\ fn' = IF number > number' THEN "exit" ELSE fn
          /\ UNCHANGED result
     ELSE fn' = "idle" /\ result' = 0 /\ UNCHANGED number
  /\ UNCHANGED <<file, call, level, ident, base>>

(* The next character: a digit is added, unless the sum is less than the   *)
(* number before, which is an overflow and ends the program; a separator   *)
(* is skipped; anything else ends the number.                              *)
ReadDigit ==
  /\ fn = "number"
  /\ src' = ReadChar(src)
  /\ IF IsDigitOf(base, src'.cur)
     THEN /\ number' = Accumulated(base, number, src'.cur)
          /\ fn' = IF number > number' THEN "exit" ELSE fn
          /\ UNCHANGED result
     ELSE /\ IF src'.cur = "_" THEN UNCHANGED <<fn, result>> ELSE fn' = "idle" /\ result' = 0
          /\ UNCHANGED number
  /\ UNCHANGED <<file, call, level, ident, base>>
-----------------------------------------------------------------------------
Loop == Skip \/ IdentChar \/ ReadDigit
Next ==
  \/ OpenRet
  \/ SkipMark \/ SkipNonterminals \/ ReadIdent \/ ReadNumber
  \/ Loop

(* A function that was called runs until it returns.                       *)
Spec == Init /\ [][Next]_vars /\ WF_vars(Loop)
-----------------------------------------------------------------------------
TypeOK ==
  /\ file \in Files
  /\ src.pos \in 0 .. Len(file)
  /\ {src.cur, src.next} \subseteq ToSet(file) \cup {EOF, NUL}
  /\ {src.line, src.column} \subseteq 0 .. UIntMod-1
  /\ fn \in {"closed", "idle", "space", "comment", "lineComment", "ident", "number", "exit"}
  /\ call.op \in {"none", "mark", "skip", "ident", "number"}
  /\ result \in {0, 3}
  /\ level \in Nat
  /\ Len(ident) <= IdentMaxIndex
  /\ base \in {0, 2, 8, 10, 16}
  /\ number \in 0 .. UIntMod-1

(* The text of a file as it should be read: a line feed right after a      *)
(* carriage return belongs to it.                                          *)
ReadAt(f) == {i \in DOMAIN f : ~(f[i] = LF /\ i > 1 /\ f[i-1] = CR)}
Text(f) == ElementsAt(f, ReadAt(f))
TextAt(f, k) == IF k <= Len(Text(f)) THEN Text(f)[k] ELSE EOF

(* Where in the text curCh of a RetFile stands.                            *)
Index(f, s) ==
  IF s.next # EOF THEN CountTo(ReadAt(f), s.pos) - 1
  ELSE IF s.cur # EOF THEN Len(Text(f))
  ELSE Len(Text(f)) + 1

EndsInCR(f) == f # <<>> /\ f[Len(f)] = CR

(* Lines end in line feeds; the columns of the first line count from 3,    *)
(* because OpenRet reads twice.                                            *)
FeedsBefore(f, k) == {i \in 1 .. k-1 : TextAt(f, i) = LF}
LineOf(f, k) == Wrap(Cardinality(FeedsBefore(f, k)) + 1)
ColumnOf(f, k) ==
  Wrap(IF FeedsBefore(f, k) = {} THEN k + 2 ELSE k - Max(FeedsBefore(f, k)))

(* The two characters held are neighbours in the text, none was lost or    *)
(* read twice, and line and column are those of the first.                 *)
Position ==
  fn # "closed" /\ ~EndsInCR(file) =>
    LET k == Index(file, src)
    IN /\ src.cur = TextAt(file, k) /\ src.next = TextAt(file, k+1)
       /\ src.line = LineOf(file, k) /\ src.column = ColumnOf(file, k)

(* The rule _ of the grammar (origotoc.peg): where a blank or a comment at *)
(* k ends, and what the rule skips from k on.                              *)
Opens(f, k) == TextAt(f, k) = "/" /\ TextAt(f, k+1) = "*"
Closes(f, k) == TextAt(f, k) = "*" /\ TextAt(f, k+1) = "/"
LineOpens(f, k) == TextAt(f, k) = "/" /\ TextAt(f, k+1) = "/"
Past(f, k) ==
  LET closes == {j \in k+2 .. Len(Text(f)) : Closes(f, j)}
      feeds == {j \in k+2 .. Len(Text(f)) : TextAt(f, j) = LF}
  IN CASE IsSpace(TextAt(f, k)) -> k + 1
       [] Opens(f, k) /\ closes # {} -> Min(closes) + 2
       [] LineOpens(f, k) /\ feeds # {} -> Min(feeds) + 1
       [] OTHER -> k
Skipped(f) ==
  LET to[k \in 1 .. Len(Text(f))+1] == IF Past(f, k) = k THEN k ELSE to[Past(f, k)]
  IN to

Nested(f) ==
  \E i \in 1 .. Len(Text(f)) : Opens(f, i) /\
    \E j \in i+2 .. Len(Text(f)) : Opens(f, j) /\ \A k \in i+2 .. j-1 : ~Closes(f, k)

(* Both front ends skip the same blanks and comments, where comments are   *)
(* not nested and carriage returns do not occur.  At a comment that does   *)
(* not end the grammar stops, and this lexer goes to the end of the file.  *)
GrammarAgrees ==
  fn = "idle" /\ call.op = "skip" /\ ~Nested(file) /\ CR \notin ToSet(file) =>
    LET k == Index(file, src)
        stop == Skipped(file)[Index(file, call.from)]
    IN \/ k = stop
       \/ (Opens(file, stop) \/ LineOpens(file, stop)) /\ k = Len(Text(file)) + 1

(* What the last call consumed, up to n.                                   *)
ConsumedTo(n) == SubSeq(Text(file), Index(file, call.from), n)
Consumed == ConsumedTo(Index(file, src) - 1)

(* A name is read to its end however long it is, and its first characters  *)
(* are kept, as many as fit; a call that finds no name reads nothing.      *)
IdentWhole ==
  fn = "idle" /\ call.op = "ident" /\ ~EndsInCR(file) =>
    \/ /\ result = 0
       /\ ident = SubSeq(Consumed, 1, Min({Len(Consumed), IdentMaxIndex}))
       /\ \A k \in DOMAIN Consumed : IsIdentChar(Consumed[k])
       /\ ~IsIdentChar(src.cur)
    \/ result = 3 /\ src = call.from

(* The value of a numeral: prefix and separators count for nothing.        *)
HexValue(c) == IF c \in ToSet(Upper) THEN PositionIn(Upper, c) + 9 ELSE Worth(c)
Denoted(b, s) ==
  LET value[n \in 0 .. Len(s)] ==
        IF n = 0 THEN 0
        ELSE IF IsDigitOf(b, s[n]) THEN value[n-1] * b + HexValue(s[n]) ELSE value[n-1]
  IN value[Len(s)]

ReadNumeral == fn = "idle" /\ call.op = "number" /\ ~EndsInCR(file)

(* A binary, octal or decimal number is read to its end, through any       *)
(* separators, and has the value written modulo 2^w.                       *)
NumberRead ==
  ReadNumeral /\ base # 16 =>
    /\ number = Wrap(Denoted(base, Consumed))
    /\ src.cur # "_" /\ ~IsDigitOf(base, src.cur)

(* No number that fits is refused as too long.                             *)
FittingAccepted ==
  fn = "exit" /\ base \in {2, 8, 10} /\ ~EndsInCR(file) =>
    Denoted(base, ConsumedTo(Index(file, src))) >= UIntMod

(* Every call returns or exits, unless the file ends in a carriage return, *)
(* which is then read again for ever.                                      *)
Terminates ==
  fn \notin {"idle", "exit"} /\ fn # "closed" /\ ~EndsInCR(file) ~> fn \in {"idle", "exit"}

(* "Only read 09afAF" (origoref.c 764), "Overflow", "Too many digits in    *)
(* number" (828): a number that was read is the one written, because each  *)
(* digit has its value and one that does not fit is an error.              *)
NumberAsWritten == ReadNumeral => number = Denoted(base, Consumed)
=============================================================================
