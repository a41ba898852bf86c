-------------------------- MODULE RefParserProofs --------------------------
(***************************************************************************)
(* Proofs about RefParser, for source files of any length and content.     *)
(*                                                                         *)
(* Nothing the parser asserts is inductive alone: which table is there     *)
(* while a word is searched depends on what it is searched in, the search  *)
(* is right because of what lies outside its bounds, and the types of what *)
(* is counted depend on who owns the tables.  Inv adds these.              *)
(*                                                                         *)
(* That the right files are accepted is an invariant of its own (Parsing): *)
(* where the parser is in the code says what part of a program the words   *)
(* read so far are.  Words are counted by the positions that hold them, so *)
(* that a step of the parser is a step of the count.                       *)
(***************************************************************************)
EXTENDS RefParser, EnumerationProofs

(* While a word is searched, the entries before left are smaller and those *)
(* from right on are greater.                                              *)
Bracket ==
  fn = "search" =>
    /\ table \in {topLevelKeyword, baseTypeName}
    /\ table = baseTypeName => runDeclared
    /\ token = NoName
    /\ \A i \in 1 .. Len(table) :
         /\ i <= left => table[i] < ident
         /\ i > right => table[i] > ident

Inv ==
  /\ TypeOK
  /\ TablesOwned
  /\ LocalTableScope
  /\ NothingLeft
  /\ Bracket
  /\ KeywordFound
-----------------------------------------------------------------------------
(* The two tables of words are in order, and not the same.                 *)
LEMMA Sorted ==
  /\ topLevelKeyword \in Seq(Nat \ {0}) /\ Len(topLevelKeyword) = 13
  /\ baseTypeName \in Seq(Nat \ {0}) /\ Len(baseTypeName) = 14
  /\ \A i, j \in 1 .. 13 : i < j => topLevelKeyword[i] < topLevelKeyword[j]
  /\ \A i, j \in 1 .. 14 : i < j => baseTypeName[i] < baseTypeName[j]
  BY DEF topLevelKeyword, baseTypeName, Run, Var

(* A file whose next lexeme is known has one, and can be read on.          *)
LEMMA NextExists ==
  ASSUME NEW r \in Seq(Lexemes), Next1(r) # "EOF"
  PROVE  r # <<>>
  BY DEF Next1

(* What follows the next lexeme is shorter by one.                         *)
LEMMA NextType ==
  ASSUME NEW r \in Seq(Lexemes), r # <<>>
  PROVE  /\ r[1] \in Lexemes /\ r[1].name \in Nat
         /\ Tail(r) \in Seq(Lexemes) /\ Len(Tail(r)) = Len(r) - 1 /\ Len(Tail(r)) \in Nat
<1>1. Len(r) \in Nat /\ Len(r) # 0
  BY EmptySeq, LenProperties
<1>2. r[1] \in Lexemes
  BY <1>1, ElementOfSeq
<1>3. r[1].name \in Nat
  BY <1>2 DEF Lexemes
<1> QED
  BY <1>1, <1>2, <1>3, HeadTailProperties, LenProperties

(* What is left of a file after a blank is a file, and no longer.          *)
LEMMA SkippedType ==
  ASSUME NEW r \in Seq(Lexemes)
  PROVE  Skipped(r) \in Seq(Lexemes) /\ Len(Skipped(r)) \in Nat /\ Len(Skipped(r)) <= Len(r)
<1>1. Len(r) \in Nat
  BY LenProperties
<1>2. CASE Next1(r) = "blank"
  BY <1>1, <1>2, NextExists, NextType DEF Skipped
<1>3. CASE Next1(r) # "blank"
  BY <1>1, <1>3 DEF Skipped
<1> QED
  BY <1>2, <1>3

(* Taking program off a file leaves a file that is no longer.              *)
LEMMA MatchedType ==
  ASSUME NEW r \in Seq(Lexemes), Matches(r)
  PROVE  Matched(r) \in Seq(Lexemes) /\ Len(Matched(r)) \in Nat /\ Len(Matched(r)) <= Len(r)
<1>1. r # <<>> /\ Name(X) \in Lexemes
  BY DEF Matches, Name, Lexemes, Kinds, X
<1>2. Tail(r) \in Seq(Lexemes) /\ Len(Tail(r)) = Len(r) - 1 /\ Len(Tail(r)) \in Nat
  BY <1>1, NextType
<1>3. Len(r) \in Nat
  BY LenProperties
<1>4. CASE r[1] = Name(ProgramX)
  <2> DEFINE x == <<Name(X)>>
  <2>1. Matched(r) = x \o Tail(r)
    BY <1>4 DEF Matched
  <2>2. x \in Seq(Lexemes) /\ Len(x) = 1
    BY <1>1
  <2> HIDE DEF x
  <2>3. x \o Tail(r) \in Seq(Lexemes) /\ Len(x \o Tail(r)) = Len(x) + Len(Tail(r))
    BY <1>2, <2>2, ConcatProperties
  <2> QED
    BY <1>2, <1>3, <2>1, <2>2, <2>3
<1>5. CASE r[1] # Name(ProgramX)
  BY <1>2, <1>3, <1>5 DEF Matched
<1> QED
  BY <1>4, <1>5

(* ReadName takes a name off what it is given.                             *)
LEMMA ReadNameType ==
  ASSUME NEW r \in Seq(Lexemes), NEW f, ReadName(r, f)
  PROVE  /\ rest' \in Seq(Lexemes) /\ Len(rest') \in Nat /\ Len(rest') < Len(r)
         /\ ident' \in Nat /\ fn' = f
         /\ UNCHANGED <<source, table, left, right, token>>
<1>1. Skipped(r) \in Seq(Lexemes) /\ Len(Skipped(r)) <= Len(r) /\ Len(Skipped(r)) \in Nat
  BY SkippedType
<1>2. Skipped(r) # <<>> /\ Len(r) \in Nat
  BY <1>1, NextExists, LenProperties DEF ReadName
<1>3. /\ Skipped(r)[1].name \in Nat /\ Tail(Skipped(r)) \in Seq(Lexemes)
      /\ Len(Tail(Skipped(r))) = Len(Skipped(r)) - 1 /\ Len(Tail(Skipped(r))) \in Nat
  BY <1>1, <1>2, NextType
<1> QED
  BY <1>1, <1>2, <1>3 DEF ReadName, Goto
-----------------------------------------------------------------------------
(* The search.  Each step of it keeps the word where it can still be.      *)
LEMMA StartSearchBracket ==
  ASSUME NEW t \in {topLevelKeyword, baseTypeName}, NEW n \in Nat,
         StartSearch(t, n), t = baseTypeName => runDeclared'
  PROVE  Bracket'
<1>1. table' = t /\ ident' = n /\ left' = 0 /\ token' = NoName
  BY DEF StartSearch
<1>2. Len(t) \in Nat /\ \A i \in 1 .. Len(t) : t[i] \in Nat \ {0}
  BY Sorted, ElementOfSeq, LenProperties
<1>3. \A i \in 1 .. Len(t) : ~(i <= left') /\ (i > right' => t[i] > n)
  BY <1>1, <1>2 DEF StartSearch, NoName
<1> QED
  BY <1>1, <1>3 DEF Bracket

(* The two tables of words are not the same one.                           *)
LEMMA Different == topLevelKeyword # baseTypeName
<1>1. Len(topLevelKeyword) = 13 /\ Len(baseTypeName) = 14
  BY Sorted
<1>2. 13 # 14
  OBVIOUS
<1> QED
  BY <1>1, <1>2, Zenon

(* The words of either table ascend, and none of them is NoName.           *)
LEMMA InOrder ==
  ASSUME NEW t \in {topLevelKeyword, baseTypeName}
  PROVE  /\ Len(t) \in Nat /\ \A i \in 1 .. Len(t) : t[i] \in Nat \ {0}
         /\ \A i, j \in 1 .. Len(t) : i < j => t[i] < t[j]
  BY Sorted, ElementOfSeq, LenProperties

(* A probe of a keyword search stays inside the table and keeps the        *)
(* bracket.                                                                *)
LEMMA ProbeSearch ==
  ASSUME Inv, Probe
  PROVE  /\ Index \in Nat /\ left <= Index /\ Index < right
         /\ Bracket' /\ KeywordFound'
<1>1. /\ table \in {topLevelKeyword, baseTypeName}
      /\ left \in Nat /\ right \in Nat /\ right <= Len(table) /\ left < right
      /\ ident \in Nat /\ fn = "search"
  BY DEF Inv, TypeOK, Bracket, Probe
<1>2. Len(table) \in Nat /\ \A i \in 1 .. Len(table) : table[i] \in Nat \ {0}
  BY <1>1, InOrder
<1>3. \A i, j \in 1 .. Len(table) : i < j => table[i] < table[j]
  BY <1>1, InOrder
<1>4. Index \in Nat /\ left <= Index /\ Index < right /\ Index + 1 \in 1 .. Len(table)
  BY <1>1, <1>2 DEF Index
<1>5. ident' = ident /\ table' = table /\ runDeclared' = runDeclared
  BY DEF Probe, process
<1>6. CASE table[Index+1] > ident /\ right' = Index /\ UNCHANGED <<fn, left, token>>
  <2>1. \A i \in 1 .. Len(table) : i > Index => table[i] > ident
    BY <1>1, <1>2, <1>3, <1>4, <1>6
  <2> QED
    BY <1>1, <1>4, <1>5, <1>6, <2>1 DEF Inv, Bracket, KeywordFound
<1>7. CASE table[Index+1] < ident /\ left' = Index + 1 /\ UNCHANGED <<fn, right, token>>
  <2>1. \A i \in 1 .. Len(table) : i <= Index + 1 => table[i] < ident
    BY <1>1, <1>2, <1>3, <1>4, <1>7
  <2> QED
    BY <1>1, <1>4, <1>5, <1>7, <2>1 DEF Inv, Bracket, KeywordFound
<1>8. CASE table[Index+1] = ident /\ token' = ident /\ fn' = Returns
  <2>1. In(table, ident)
    BY <1>4, <1>8 DEF In
  <2> QED
    BY <1>4, <1>5, <1>8, <2>1 DEF Bracket, KeywordFound, Returns, In
<1> QED
  BY <1>4, <1>6, <1>7, <1>8 DEF Probe, Goto

(* A search whose interval is empty has failed rightly.                    *)
LEMMA NotFoundSearch ==
  ASSUME Inv, NotFound
  PROVE  Bracket' /\ KeywordFound'
<1>1. /\ table \in {topLevelKeyword, baseTypeName} /\ token = NoName
      /\ left \in Nat /\ right \in Nat /\ left >= right /\ ident \in Nat
  BY DEF Inv, TypeOK, Bracket, NotFound
<1>2. Len(table) \in Nat /\ \A i \in 1 .. Len(table) : table[i] \in Nat \ {0}
  BY <1>1, InOrder
<1>3. \A i \in 1 .. Len(table) : table[i] < ident \/ table[i] > ident
  BY <1>1, <1>2 DEF Inv, Bracket, NotFound
<1>4. ~In(table, ident)
  BY <1>1, <1>2, <1>3 DEF In
<1>5. ident' = ident /\ table' = table /\ token' = token /\ fn' \in {"declare", "dimension"}
  BY DEF NotFound, search, Goto, Returns
<1> QED
  BY <1>1, <1>4, <1>5 DEF Bracket, KeywordFound, In

(* A word in ident is a number.  What is searched for: the name ahead.     *)
LEMMA TopLevelSearch ==
  ASSUME Inv, TopLevelKeyword
  PROVE  Bracket' /\ KeywordFound'
<1>1. rest \in Seq(Lexemes)
  BY DEF Inv, TypeOK
<1>2. Skipped(rest) \in Seq(Lexemes)
  BY <1>1, SkippedType
<1>3. CASE Fail
  BY <1>3 DEF Fail, Goto, Bracket, KeywordFound
<1>4. CASE Next1(Skipped(rest)) = "name" /\ StartSearch(topLevelKeyword, Skipped(rest)[1].name)
  <2>1. Skipped(rest)[1].name \in Nat
    BY <1>2, <1>4, NextExists, NextType
  <2>2. Bracket'
    BY <1>4, <2>1, Different, StartSearchBracket
  <2> QED
    BY <1>4, <2>2 DEF StartSearch, Goto, KeywordFound
<1> QED
  BY <1>3, <1>4 DEF TopLevelKeyword

(* Reading over an @ leaves a sequence of lexemes, not a longer one.       *)
LEMMA AfterAtType ==
  ASSUME NEW r \in Seq(Lexemes)
  PROVE  AfterAt(r) \in Seq(Lexemes) /\ Len(AfterAt(r)) \in Nat /\ Len(AfterAt(r)) <= Len(r)
<1>1. Len(r) \in Nat
  BY LenProperties
<1>2. CASE Next1(r) = "@"
  <2>1. Tail(r) \in Seq(Lexemes) /\ Len(Tail(r)) \in Nat /\ Len(Tail(r)) <= Len(r)
    BY <1>1, <1>2, NextExists, NextType
  <2>2. Skipped(Tail(r)) \in Seq(Lexemes) /\ Len(Skipped(Tail(r))) \in Nat
        /\ Len(Skipped(Tail(r))) <= Len(Tail(r))
    BY <2>1, SkippedType
  <2> QED
    BY <1>1, <1>2, <2>1, <2>2 DEF AfterAt
<1>3. CASE Next1(r) # "@"
  BY <1>1, <1>3, SkippedType DEF AfterAt
<1> QED
  BY <1>2, <1>3

(* A type specifier starts a search of the base types with the whole table.*)
LEMMA TypeSpecSearch ==
  ASSUME Inv, TypeSpec
  PROVE  Bracket' /\ KeywordFound'
<1> DEFINE r == AfterAt(Skipped(rest))
<1>1. r \in Seq(Lexemes)
  BY SkippedType, AfterAtType DEF Inv, TypeOK
<1>2. runDeclared'
  BY DEF Inv, LocalTableScope, InRun, TypeSpec, process
<1>3. PICK n \in Nat : StartSearch(baseTypeName, n)
  <2>1. CASE Next1(r) = "name" /\ StartSearch(baseTypeName, r[1].name)
    BY <1>1, <2>1, NextExists, NextType
  <2>2. CASE StartSearch(baseTypeName, NoName)
    BY <2>2 DEF NoName
  <2> QED
    BY <2>1, <2>2 DEF TypeSpec
<1>4. Bracket'
  BY <1>2, <1>3, StartSearchBracket
<1> QED
  BY <1>3, <1>4 DEF StartSearch, Goto, KeywordFound
-----------------------------------------------------------------------------
(* Every action keeps the search right.                                    *)
LEMMA SearchStep ==
  ASSUME Inv, Next
  PROVE  Bracket' /\ KeywordFound'
<1> DEFINE Elsewhere == fn' \notin {"search", "declare", "dimension"}
<1>1. Elsewhere => Bracket' /\ KeywordFound'
  BY DEF Bracket, KeywordFound
<1>2. Fail => Elsewhere
  BY DEF Fail, Goto
<1>3. ASSUME NEW r, NEW f, f \notin {"search", "declare", "dimension"}, ReadName(r, f)
      PROVE  Elsewhere
  BY <1>3 DEF ReadName, Goto
<1>4. CASE Open \/ OpenFails \/ ParseEnds \/ Block \/ EndOfRun \/ Cleanup
  BY <1>1, <1>2, <1>4 DEF Open, OpenFails, ParseEnds, Block, EndOfRun, Cleanup, Goto
<1>5. CASE ParseProgram
  BY <1>1, <1>2, <1>3, <1>5 DEF ParseProgram, Goto
<1>6. CASE TopLevelKeyword
  BY <1>6, TopLevelSearch
<1>7. CASE Probe
  BY <1>7, ProbeSearch
<1>8. CASE NotFound
  BY <1>8, NotFoundSearch
<1>9. CASE Declare \/ RunRefused
  BY <1>1, <1>2, <1>9 DEF Declare, RunRefused, Goto
<1>10. CASE ParseRun
  BY <1>1, <1>3, <1>10 DEF ParseRun, Goto
<1>11. CASE LocalVar
  BY <1>1, <1>3, <1>11 DEF LocalVar, Goto
<1>12. CASE TypeSpec
  BY <1>12, TypeSpecSearch
<1>13. CASE Dimension \/ Declarator
  BY <1>1, <1>2, <1>13 DEF Dimension, Declarator, Goto
<1>14. CASE AfterVar \/ Statement
  BY <1>1, <1>2, <1>3, <1>14 DEF AfterVar, Statement
<1> QED
  BY <1>4, <1>5, <1>6, <1>7, <1>8, <1>9, <1>10, <1>11, <1>12, <1>13, <1>14 DEF Next

(* Every action keeps the count of the tables, makes and frees the local   *)
(* one at the two ends of a run block, and leaves nothing at the end.      *)
LEMMA TablesStep ==
  ASSUME Inv, Next
  PROVE  TablesOwned' /\ LocalTableScope' /\ NothingLeft'
<1> DEFINE Kept == UNCHANGED <<symTable, localTable, live>>
<1>1. live \in Int /\ symTable \in BOOLEAN /\ localTable \in BOOLEAN
  BY DEF Inv, TypeOK
<1>2. Kept => TablesOwned'
  BY DEF Inv, TablesOwned
<1>3. CASE Fail
  BY <1>2, <1>3 DEF Fail, Goto, tables, LocalTableScope, NothingLeft, InRun, InParse
<1>4. CASE Open
  BY <1>1, <1>4 DEF Open, Goto, Inv, TablesOwned, LocalTableScope, NothingLeft, InRun, InParse
<1>5. CASE OpenFails \/ RunRefused
  BY <1>3, <1>5 DEF OpenFails, RunRefused
<1>6. CASE ParseProgram
  <2>1. CASE Kept /\ fn' = "parse"
    BY <1>2, <1>6, <2>1
       DEF ParseProgram, Inv, LocalTableScope, NothingLeft, InRun, InParse
  <2> QED
    BY <1>3, <1>6, <2>1 DEF ParseProgram, ReadName, Goto, tables
<1>7. CASE ParseEnds
  BY <1>2, <1>7 DEF ParseEnds, Goto, tables, LocalTableScope, NothingLeft, InRun, InParse
<1>8. CASE TopLevelKeyword
  <2>1. CASE Kept /\ fn' = "search" /\ table' = topLevelKeyword
    <3>1. localTable' = FALSE
      BY <1>1, <1>8, <2>1 DEF TopLevelKeyword, Inv, LocalTableScope, InParse
    <3>2. (table' = baseTypeName) = FALSE
      BY <2>1, Different
    <3> QED
      BY <1>2, <2>1, <3>1, <3>2 DEF LocalTableScope, NothingLeft, InRun, InParse
  <2> QED
    BY <1>3, <1>8, <2>1 DEF TopLevelKeyword, StartSearch, Goto, tables
<1>9. CASE Probe \/ NotFound
  <2>1. Kept /\ fn = "search" /\ table' = table /\ runDeclared' = runDeclared
        /\ fn' \in {"search", Returns}
    BY <1>9 DEF Probe, NotFound, Goto, tables, process, search
  <2> QED
    BY <1>2, <2>1, Different
       DEF Inv, Bracket, LocalTableScope, NothingLeft, Returns, InRun, InParse
<1>10. CASE Declare
  <2>1. CASE Kept /\ fn' \in {"run", "exit"}
    BY <1>2, <1>10, <2>1
       DEF Declare, Inv, LocalTableScope, NothingLeft, InRun, InParse
  <2> QED
    BY <1>3, <1>10, <2>1 DEF Declare, Goto, tables
<1>11. CASE ParseRun
  <2>1. /\ ~localTable /\ localTable' = TRUE /\ live' = live + 1 /\ symTable' = symTable
        /\ \/ fn' = "block" /\ runDeclared'
           \/ fn' = "exit"
    BY <1>11 DEF ParseRun, Create, ReadName, Goto
  <2>2. TablesOwned'
    BY <1>1, <2>1 DEF Inv, TablesOwned
  <2>3. LocalTableScope' /\ NothingLeft'
    BY <2>1 DEF LocalTableScope, NothingLeft, InRun, InParse
  <2> QED
    BY <2>2, <2>3
<1>12. CASE Block
  BY <1>2, <1>12
     DEF Block, Goto, tables, process, Inv, LocalTableScope, NothingLeft, InRun, InParse
<1>13. CASE LocalVar
  <2>1. Kept /\ runDeclared' = runDeclared /\ fn = "localVar" /\ fn' \in {"afterVar", "typeSpec"}
    BY <1>13 DEF LocalVar, ReadName, Goto, tables, process
  <2> QED
    BY <1>2, <2>1 DEF Inv, LocalTableScope, NothingLeft, InRun, InParse
<1>14. CASE TypeSpec
  <2>1. Kept /\ runDeclared' = runDeclared /\ fn = "typeSpec" /\ fn' = "search"
        /\ table' = baseTypeName
    BY <1>14 DEF TypeSpec, StartSearch, Goto, tables, process
  <2> QED
    BY <1>2, <2>1 DEF Inv, LocalTableScope, NothingLeft, InRun, InParse
<1>15. CASE Dimension \/ Declarator \/ AfterVar
  <2>1. CASE Kept /\ runDeclared' = runDeclared /\ fn \in InRun /\ fn' \in InRun
    BY <1>2, <2>1 DEF Inv, LocalTableScope, NothingLeft, InRun, InParse
  <2> QED
    BY <1>3, <1>15, <2>1
       DEF Dimension, Declarator, AfterVar, ReadName, Goto, tables, process, InRun
<1>16. ASSUME FreeLocal, fn \in InRun, fn' = "parse"
       PROVE  TablesOwned' /\ LocalTableScope' /\ NothingLeft'
  BY <1>1, <1>16
     DEF FreeLocal, Inv, TablesOwned, LocalTableScope, NothingLeft, InRun, InParse
<1>17. CASE EndOfRun
  BY <1>16, <1>17 DEF EndOfRun, Goto, InRun
<1>18. CASE Statement
  <2>1. CASE Kept /\ runDeclared' = runDeclared /\ fn' = "statements"
    BY <1>2, <1>18, <2>1
       DEF Statement, Inv, LocalTableScope, NothingLeft, InRun, InParse
  <2>2. CASE FreeLocal /\ fn' = "parse"
    BY <1>16, <1>18, <2>2 DEF Statement, InRun
  <2> QED
    BY <1>3, <1>18, <2>1, <2>2 DEF Statement, ReadName, Goto, tables, process
<1>19. CASE Cleanup
  BY <1>1, <1>19
     DEF Cleanup, Goto, Inv, TablesOwned, LocalTableScope, NothingLeft, InRun, InParse
<1> QED
  BY <1>4, <1>5, <1>6, <1>7, <1>8, <1>9, <1>10, <1>11, <1>12, <1>13, <1>14, <1>15,
     <1>17, <1>18, <1>19 DEF Next
-----------------------------------------------------------------------------
(* What an action reads is part of what is left, and shorter or the same.  *)
Shorter(r) == r \in Seq(Lexemes) /\ Len(r) \in Nat /\ Len(r) < Len(rest)
NotLonger(r) == r \in Seq(Lexemes) /\ Len(r) \in Nat /\ Len(r) <= Len(rest)

(* The ways of reading make what is left shorter, or leave it as long.     *)
LEMMA ReadOn ==
  ASSUME rest \in Seq(Lexemes), NEW r, NotLonger(r)
  PROVE  /\ NotLonger(Skipped(r)) /\ NotLonger(AfterAt(r))
         /\ Next1(r) # "EOF" => Shorter(Tail(r)) /\ r[1].name \in Nat
         /\ Matches(r) => NotLonger(Matched(r))
         /\ \A f : ReadName(r, f) => Shorter(rest') /\ ident' \in Nat
<1>1. r \in Seq(Lexemes) /\ Len(r) \in Nat /\ Len(rest) \in Nat /\ Len(r) <= Len(rest)
  BY LenProperties DEF NotLonger
<1>2. NotLonger(Skipped(r)) /\ NotLonger(AfterAt(r))
  BY <1>1, SkippedType, AfterAtType DEF NotLonger
<1>3. ASSUME Next1(r) # "EOF"
      PROVE  Shorter(Tail(r)) /\ r[1].name \in Nat
  BY <1>1, <1>3, NextExists, NextType DEF Shorter
<1>4. ASSUME Matches(r)
      PROVE  NotLonger(Matched(r))
  BY <1>1, <1>4, MatchedType DEF NotLonger
<1>5. ASSUME NEW f, ReadName(r, f)
      PROVE  Shorter(rest') /\ ident' \in Nat
  BY <1>1, <1>5, ReadNameType DEF Shorter
<1> QED
  BY <1>2, <1>3, <1>4, <1>5

(* After a dimension less is left: its brackets and its number.            *)
LEMMA DimensionRead ==
  ASSUME rest \in Seq(Lexemes), Next1(rest) = "[",
         Next1(Skipped(Tail(rest))) = "number",
         Next1(Skipped(Tail(Skipped(Tail(rest))))) = "]"
  PROVE  Shorter(Tail(Skipped(Tail(Skipped(Tail(rest))))))
<1>1. NotLonger(rest)
  BY LenProperties DEF NotLonger
<1>2. \A r : Shorter(r) => NotLonger(r)
  BY <1>1 DEF Shorter, NotLonger
<1>3. NotLonger(Tail(rest))
  BY <1>1, <1>2, ReadOn
<1>4. NotLonger(Skipped(Tail(rest)))
  BY <1>3, ReadOn
<1>5. NotLonger(Tail(Skipped(Tail(rest))))
  BY <1>2, <1>4, ReadOn
<1>6. NotLonger(Skipped(Tail(Skipped(Tail(rest)))))
  BY <1>5, ReadOn
<1> QED
  BY <1>6, ReadOn

(* Every action keeps the types of what it changes.                        *)
LEMMA TypeStep ==
  ASSUME Inv, Next
  PROVE  TypeOK'
<1> DEFINE InputOK == source' = source /\ rest' \in Seq(Lexemes)
           SearchOK == ident' \in Nat /\ UNCHANGED <<table, left, right, token>>
           SearchKept == UNCHANGED search
           TablesKept == UNCHANGED tables
           ProcessKept == UNCHANGED process
<1>1. /\ source \in Seq(Lexemes) /\ rest \in Seq(Lexemes) /\ ident \in Nat
      /\ table \in {<<>>, topLevelKeyword, baseTypeName}
      /\ left \in Nat /\ right \in Nat /\ right <= Len(table) /\ token \in Nat
      /\ symTable \in BOOLEAN /\ localTable \in BOOLEAN
      /\ runDeclared \in BOOLEAN /\ handle \in BOOLEAN /\ status \in {0, 1}
  BY DEF Inv, TypeOK
<1>2. NotLonger(rest) /\ NotLonger(Skipped(rest))
  BY <1>1, LenProperties, SkippedType DEF NotLonger
<1>3. \A r : Shorter(r) \/ NotLonger(r) => r \in Seq(Lexemes)
  BY DEF Shorter, NotLonger
<1>4. ASSUME symTable' \in BOOLEAN, localTable' \in BOOLEAN
      PROVE  live' \in 0 .. 2
  BY <1>4, TablesStep DEF TablesOwned
<1>5. ASSUME InputOK, fn' \in Steps, SearchOK \/ SearchKept,
             symTable' \in BOOLEAN, localTable' \in BOOLEAN,
             runDeclared' \in BOOLEAN, handle' \in BOOLEAN, status' \in {0, 1}
      PROVE  TypeOK'
  BY <1>1, <1>4, <1>5 DEF TypeOK, search
<1>6. ASSUME NEW t \in {topLevelKeyword, baseTypeName}, NEW n \in Nat, StartSearch(t, n)
      PROVE  /\ fn' = "search" /\ ident' \in Nat /\ table' = t
             /\ left' \in Nat /\ right' \in Nat /\ right' <= Len(t) /\ token' \in Nat
  BY <1>6, InOrder DEF StartSearch, Goto, NoName
<1>7. ASSUME InputOK, TablesKept, ProcessKept, NEW t \in {topLevelKeyword, baseTypeName},
             NEW n \in Nat, StartSearch(t, n)
      PROVE  TypeOK'
  BY <1>1, <1>4, <1>6, <1>7 DEF TypeOK, Steps, tables, process
<1>8. ASSUME Fail PROVE TypeOK'
  BY <1>1, <1>5, <1>8 DEF Fail, Goto, Steps, input, search, tables, process
<1>9. ASSUME NEW r, NEW f, NotLonger(r), ReadName(r, f)
      PROVE  InputOK /\ SearchOK /\ fn' = f
  BY <1>1, <1>3, <1>9, ReadOn DEF ReadName, Goto
<1>10. CASE Open \/ OpenFails
  BY <1>1, <1>5, <1>8, <1>10 DEF Open, OpenFails, Goto, Steps, input, search
<1>11. CASE ParseProgram
  <2>1. CASE fn' = "parse" /\ UNCHANGED <<input, search, tables, process>>
    BY <1>1, <1>5, <2>1 DEF Steps, InParse, input, search, tables, process
  <2>2. CASE Matches(Skipped(rest)) /\ ReadName(Matched(Skipped(rest)), "parse")
             /\ UNCHANGED <<tables, process>>
    <3>1. NotLonger(Matched(Skipped(rest)))
      BY <1>1, <1>2, <2>2, ReadOn
    <3> QED
      BY <1>1, <1>5, <1>9, <2>2, <3>1 DEF Steps, InParse, tables, process
  <2> QED
    BY <1>8, <1>11, <2>1, <2>2 DEF ParseProgram, Goto
<1>12. CASE ParseEnds \/ NotFound \/ Block \/ EndOfRun \/ Cleanup
  <2>1. InputOK
    BY <1>1, <1>12, EmptySeq DEF ParseEnds, NotFound, Block, EndOfRun, Cleanup, input
  <2>2. SearchKept /\ fn' \in Steps
    BY <1>12 DEF ParseEnds, NotFound, Block, EndOfRun, Cleanup, Goto, Returns,
       Steps, InRun, InParse
  <2>3. /\ symTable' \in BOOLEAN /\ localTable' \in BOOLEAN
        /\ runDeclared' \in BOOLEAN /\ handle' \in BOOLEAN /\ status' \in {0, 1}
    BY <1>1, <1>12 DEF ParseEnds, NotFound, Block, EndOfRun, Cleanup, FreeLocal,
       tables, process
  <2> QED
    BY <1>5, <2>1, <2>2, <2>3
<1>13. CASE TopLevelKeyword
  <2>1. CASE Next1(Skipped(rest)) = "name" /\ rest' = Tail(Skipped(rest))
             /\ StartSearch(topLevelKeyword, Skipped(rest)[1].name)
             /\ UNCHANGED <<source, tables, process>>
    <3>1. Skipped(rest)[1].name \in Nat /\ InputOK
      BY <1>1, <1>2, <1>3, <2>1, ReadOn
    <3> QED
      BY <1>7, <2>1, <3>1
  <2> QED
    BY <1>8, <1>13, <2>1 DEF TopLevelKeyword
<1>14. CASE Probe
  <2>1. /\ InputOK /\ TablesKept /\ ProcessKept /\ ident' = ident /\ table' = table
        /\ fn' \in Steps /\ token' \in Nat
    BY <1>1, <1>14 DEF Probe, Goto, Returns, Steps, InRun, InParse, input
  <2>2. Len(table) \in Nat /\ Index \in Nat /\ Index < right
    BY <1>14, InOrder, ProbeSearch DEF Inv, Bracket, Probe
  <2>3. left' \in {left, Index + 1} /\ right' \in {right, Index}
    BY <1>14 DEF Probe
  <2>4. left' \in Nat /\ right' \in Nat /\ right' <= Len(table)
    BY <1>1, <2>2, <2>3
  <2> QED
    BY <1>1, <1>4, <2>1, <2>4 DEF TypeOK, tables, process
<1>15. CASE Declare \/ RunRefused
  <2>1. CASE fn' \in {"exit", "run"} /\ UNCHANGED <<input, search, tables, process>>
    BY <1>1, <1>5, <2>1 DEF Steps, InParse, input, search, tables, process
  <2> QED
    BY <1>8, <1>15, <2>1 DEF Declare, RunRefused, Goto
<1>16. CASE ParseRun
  <2>1. localTable' = TRUE /\ symTable' = symTable
    BY <1>16 DEF ParseRun, Create
  <2>2. CASE ReadName(rest, "block") /\ runDeclared' = TRUE /\ UNCHANGED <<handle, status>>
    BY <1>1, <1>2, <1>5, <1>9, <2>1, <2>2 DEF Steps, InRun
  <2>3. CASE /\ fn' = "exit" /\ status' = 1 /\ runDeclared' = TRUE
             /\ UNCHANGED <<input, search, handle>>
    BY <1>1, <1>5, <2>1, <2>3 DEF Steps, input
  <2> QED
    BY <1>16, <2>2, <2>3 DEF ParseRun, Goto
<1>17. CASE LocalVar
  <2>1. InputOK /\ (SearchOK \/ SearchKept) /\ fn' \in Steps
    BY <1>1, <1>2, <1>3, <1>9, <1>17 DEF LocalVar, Goto, Steps, InRun
  <2> QED
    BY <1>1, <1>5, <1>17, <2>1 DEF LocalVar, tables, process
<1>18. CASE TypeSpec
  <2> DEFINE r == AfterAt(Skipped(rest))
  <2>1. NotLonger(r)
    BY <1>1, <1>2, ReadOn
  <2>2. CASE Next1(r) = "name" /\ rest' = Tail(r) /\ StartSearch(baseTypeName, r[1].name)
    <3>1. r[1].name \in Nat /\ InputOK
      BY <1>1, <1>3, <1>18, <2>1, <2>2, ReadOn DEF TypeSpec
    <3> QED
      BY <1>7, <1>18, <2>2, <3>1 DEF TypeSpec
  <2>3. CASE rest' = r /\ StartSearch(baseTypeName, NoName)
    BY <1>3, <1>7, <1>18, <2>1, <2>3 DEF TypeSpec, NoName
  <2> QED
    BY <1>18, <2>2, <2>3 DEF TypeSpec
<1>19. CASE Dimension
  <2>1. CASE fn' = "declarators" /\ rest' \in Seq(Lexemes)
             /\ UNCHANGED <<source, search, tables, process>>
    BY <1>1, <1>5, <2>1 DEF Steps, InRun, tables, process
  <2> QED
    BY <1>1, <1>3, <1>8, <1>19, <2>1, DimensionRead DEF Dimension, Goto, input
<1>20. CASE Declarator
  <2>1. CASE /\ Next1(Skipped(rest)) \in {"name", ","} /\ rest' = Tail(Skipped(rest))
             /\ ident' = IF Next1(Skipped(rest)) = "name" THEN Skipped(rest)[1].name ELSE NoName
             /\ fn' \in {"afterVar", "declarators"}
             /\ UNCHANGED <<source, table, left, right, token, tables, process>>
    <3>1. InputOK /\ SearchOK
      BY <1>1, <1>2, <1>3, <2>1, ReadOn DEF NoName
    <3> QED
      BY <1>1, <1>5, <2>1, <3>1 DEF Steps, InRun, tables, process
  <2> QED
    BY <1>8, <1>20, <2>1 DEF Declarator, Goto
<1>21. CASE AfterVar
  BY <1>1, <1>2, <1>5, <1>8, <1>9, <1>21 DEF AfterVar, Steps, InRun, tables, process
<1>22. CASE Statement
  <2>1. CASE ReadName(rest, IF rest' = <<>> THEN "parse" ELSE "statements")
             /\ (FreeLocal \/ UNCHANGED tables) /\ UNCHANGED process
    <3>1. InputOK /\ SearchOK /\ fn' \in Steps
      BY <1>2, <1>9, <2>1 DEF Steps, InRun, InParse
    <3> QED
      BY <1>1, <1>5, <2>1, <3>1 DEF FreeLocal, tables, process
  <2> QED
    BY <1>8, <1>22, <2>1 DEF Statement
<1> QED
  BY <1>10, <1>11, <1>12, <1>13, <1>14, <1>15, <1>16, <1>17, <1>18, <1>19, <1>20,
     <1>21, <1>22 DEF Next
-----------------------------------------------------------------------------
(* The invariant holds when main begins.                                   *)
LEMMA Start == ASSUME Init PROVE Inv
<1>1. source \in Seq(Lexemes) /\ rest \in Seq(Lexemes)
  BY SourcesAssumption DEF Init
<1>2. right <= Len(table)
  BY EmptySeq DEF Init
<1>3. fn = "main" /\ fn \in Steps
  BY DEF Init, Steps
<1>4. ident \in Nat /\ left \in Nat /\ right \in Nat /\ token \in Nat /\ live \in 0 .. 2
  BY DEF Init, NoName
<1>5. /\ table \in {<<>>, topLevelKeyword, baseTypeName} /\ status \in {0, 1}
      /\ symTable \in BOOLEAN /\ localTable \in BOOLEAN
      /\ runDeclared \in BOOLEAN /\ handle \in BOOLEAN
  BY Zenon DEF Init
<1>6. TypeOK
  BY <1>1, <1>2, <1>3, <1>4, <1>5 DEF TypeOK
<1>7. TablesOwned
  BY DEF Init, TablesOwned
<1>8. LocalTableScope /\ NothingLeft /\ Bracket /\ KeywordFound
  BY <1>3 DEF Init, LocalTableScope, NothingLeft, Bracket, KeywordFound, InRun, InParse
<1> QED
  BY <1>6, <1>7, <1>8 DEF Inv

(* Every step keeps the invariant.                                         *)
LEMMA Step == ASSUME Inv, [Next]_vars PROVE Inv'
<1>1. CASE Next
  BY <1>1, TypeStep, TablesStep, SearchStep DEF Inv
<1>2. CASE UNCHANGED vars
  <2>1. UNCHANGED <<source, rest, fn, ident, table, left, right, token, symTable, localTable,
                    live, runDeclared, handle, status>>
    BY <1>2 DEF vars, input, search, tables, process
  <2> QED
    BY <2>1 DEF Inv, TypeOK, TablesOwned, LocalTableScope, NothingLeft, Bracket, KeywordFound, In
<1> QED
  BY <1>1, <1>2

(* The invariant holds in every state.                                     *)
LEMMA Invariance == Spec => []Inv
<1> QED
  BY Start, Step, PTL DEF Spec

(* Every variable keeps its type, whatever is in the file.                 *)
THEOREM TypeCorrect == Spec => []TypeOK
<1>1. Inv => TypeOK
  BY DEF Inv
<1> QED
  BY <1>1, Invariance, PTL

(* FindTopLevelKeyword and FindBaseType find a word exactly when their     *)
(* table has it.                                                           *)
THEOREM SearchCorrect == Spec => []KeywordFound
<1>1. Inv => KeywordFound
  BY DEF Inv
<1> QED
  BY <1>1, Invariance, PTL

(* Every symbol table that is allocated is reached by a pointer.           *)
THEOREM TablesCounted == Spec => []TablesOwned
<1>1. Inv => TablesOwned
  BY DEF Inv
<1> QED
  BY <1>1, Invariance, PTL

(* The local table is there exactly while a run block is parsed.           *)
THEOREM LocalTableScoped == Spec => []LocalTableScope
<1>1. Inv => LocalTableScope
  BY DEF Inv
<1> QED
  BY <1>1, Invariance, PTL

(* After Cleanup no table is left and the file is closed, however the      *)
(* parse ended.                                                            *)
THEOREM AllReleased == Spec => []NothingLeft
<1>1. Inv => NothingLeft
  BY DEF Inv
<1> QED
  BY <1>1, Invariance, PTL
-----------------------------------------------------------------------------
(* Each action reads on or comes closer to one that does.                  *)
LEMMA NearerStep ==
  ASSUME Inv, Next
  PROVE  Nearer
<1>1. rest \in Seq(Lexemes) /\ Len(rest) \in Nat /\ NotLonger(rest) /\ NotLonger(Skipped(rest))
  BY LenProperties, SkippedType DEF Inv, TypeOK, NotLonger
<1>2. ASSUME Shorter(rest') PROVE Nearer
  BY <1>2 DEF Nearer, Shorter
<1>3. ASSUME NotLonger(rest'), Rank(fn') < Rank(fn) PROVE Nearer
  BY <1>1, <1>3 DEF Nearer, NotLonger
<1>4. ASSUME rest' = rest, Rank(fn') < Rank(fn) PROVE Nearer
  BY <1>1, <1>3, <1>4
<1>5. ASSUME Fail, fn \notin {"exit", "ended"}, fn \in Steps PROVE Nearer
  BY <1>4, <1>5 DEF Fail, Goto, input, Rank, Steps, InRun, InParse
<1>6. ASSUME NEW r, NEW f, NotLonger(r), ReadName(r, f) PROVE Nearer
  BY <1>1, <1>2, <1>6, ReadOn
<1>7. CASE Open \/ OpenFails \/ NotFound \/ Block \/ EndOfRun \/ Cleanup
  BY <1>4, <1>5, <1>7 DEF Open, OpenFails, NotFound, Block, EndOfRun, Cleanup, Goto,
     Returns, Rank, Steps, input
<1>8. CASE ParseProgram
  <2>1. CASE fn' = "parse" /\ UNCHANGED input
    BY <1>4, <1>8, <2>1 DEF ParseProgram, Rank, input
  <2>2. CASE Matches(Skipped(rest)) /\ ReadName(Matched(Skipped(rest)), "parse")
    BY <1>1, <1>6, <2>2, ReadOn
  <2> QED
    BY <1>5, <1>8, <2>1, <2>2 DEF ParseProgram, Goto, Steps, input
<1>9. CASE ParseEnds
  <2>1. rest' = <<>> /\ Len(rest') = 0
    BY <1>9, EmptySeq DEF ParseEnds
  <2>2. NotLonger(rest')
    BY <1>1, <2>1, EmptySeq DEF NotLonger
  <2> QED
    BY <1>3, <1>9, <2>2 DEF ParseEnds, Goto, Rank
<1>10. CASE TopLevelKeyword
  <2>1. CASE Next1(Skipped(rest)) = "name" /\ rest' = Tail(Skipped(rest))
    BY <1>1, <1>2, <2>1, ReadOn
  <2> QED
    BY <1>5, <1>10, <2>1 DEF TopLevelKeyword, Steps, InParse
<1>11. CASE Probe
  <2>1. /\ rest' = rest /\ fn = "search" /\ left \in Nat /\ right \in Nat
        /\ Index \in Nat /\ left <= Index /\ Index < right
    BY <1>11, ProbeSearch DEF Probe, input, Inv, TypeOK
  <2>2. CASE fn' = Returns
    BY <1>4, <2>1, <2>2 DEF Returns, Rank
  <2>3. CASE fn' = fn /\ right' - left' < right - left
    BY <1>1, <2>1, <2>3 DEF Nearer
  <2>4. fn' = Returns \/ (fn' = fn /\ right' - left' < right - left)
    BY <1>11, <2>1 DEF Probe, Goto
  <2> QED
    BY <2>2, <2>3, <2>4
<1>12. CASE Declare \/ RunRefused
  <2>1. CASE fn = "declare" /\ fn' \in {"exit", "run"} /\ UNCHANGED input
    BY <1>4, <2>1 DEF Rank, input
  <2> QED
    BY <1>5, <1>12, <2>1 DEF Declare, RunRefused, Goto, Steps, InParse
<1>13. CASE ParseRun
  <2>1. CASE fn' = "exit" /\ UNCHANGED input
    BY <1>4, <1>13, <2>1 DEF ParseRun, Rank, input
  <2> QED
    BY <1>1, <1>6, <1>13, <2>1 DEF ParseRun, Goto, input
<1>14. CASE LocalVar
  <2>1. CASE rest' = Skipped(rest) /\ fn' = "typeSpec"
    BY <1>1, <1>3, <1>14, <2>1 DEF LocalVar, Rank
  <2> QED
    BY <1>1, <1>6, <1>14, <2>1 DEF LocalVar, Goto
<1>15. CASE TypeSpec
  <2> DEFINE r == AfterAt(Skipped(rest))
  <2>1. NotLonger(r)
    BY <1>1, ReadOn
  <2>2. CASE Next1(r) = "name" /\ rest' = Tail(r)
    BY <1>1, <1>2, <2>1, <2>2, ReadOn
  <2>3. CASE rest' = r /\ fn' = "search"
    BY <1>3, <1>15, <2>1, <2>3 DEF TypeSpec, Rank
  <2> QED
    BY <1>15, <2>2, <2>3 DEF TypeSpec, StartSearch, Goto
<1>16. CASE Dimension
  <2>1. CASE rest' = rest /\ fn' = "declarators"
    BY <1>4, <1>16, <2>1 DEF Dimension, Rank
  <2>2. CASE Shorter(rest')
    BY <1>2, <2>2
  <2> QED
    BY <1>1, <1>5, <1>16, <2>1, <2>2, DimensionRead DEF Dimension, Goto, Steps, InRun, input
<1>17. CASE Declarator
  <2>1. CASE Next1(Skipped(rest)) \in {"name", ","} /\ rest' = Tail(Skipped(rest))
    BY <1>1, <1>2, <2>1, ReadOn
  <2> QED
    BY <1>5, <1>17, <2>1 DEF Declarator, Steps, InRun
<1>18. CASE AfterVar
  BY <1>1, <1>5, <1>6, <1>18 DEF AfterVar, Steps, InRun
<1>19. CASE Statement
  BY <1>1, <1>5, <1>6, <1>19 DEF Statement, Steps, InRun
<1> QED
  BY <1>7, <1>8, <1>9, <1>10, <1>11, <1>12, <1>13, <1>14, <1>15, <1>16, <1>17, <1>18,
     <1>19 DEF Next

(* No loop of the parser goes round without reading, for any file.         *)
THEOREM ProgressMade == Spec => Progress
<1>1. Inv /\ [Next]_vars => [Nearer]_vars
  BY NearerStep
<1> QED
  BY <1>1, Invariance, PTL DEF Spec, Progress
-----------------------------------------------------------------------------
(* What is left of a source when c of its lexemes but blanks are read.     *)
Left(s, r, c) ==
  \E q \in 0 .. Len(s) : r = SubSeq(s, q+1, Len(s)) /\ c = CountTo(Solid(s), q)

(* What a file is: lexemes, of which only blanks are of the kind blank, and*)
(* no two of them adjacent.                                                *)
LEMMA SourceType ==
  ASSUME NEW s \in Sources
  PROVE  /\ s \in Seq(Lexemes) /\ Len(s) \in Nat /\ DOMAIN s = 1 .. Len(s)
         /\ \A i \in 1 .. Len(s) : s[i] \in Lexemes /\ (s[i].kind = "blank" <=> s[i] = Blank)
         /\ \A i \in 1 .. Len(s)-1 : s[i] = Blank => s[i+1] # Blank
<1>1. s \in Seq(Lexemes)
  BY SourcesAssumption
<1>2. Len(s) \in Nat /\ DOMAIN s = 1 .. Len(s)
  BY <1>1
<1>3. ASSUME NEW i \in 1 .. Len(s)
      PROVE  s[i] \in Lexemes /\ (s[i].kind = "blank" <=> s[i] = Blank)
  <2>1. s[i] \in Lexemes
    BY <1>1, <1>2, ElementOfSeq
  <2>2. s[i].kind = "blank" => s[i].name = NoName
    BY SourcesAssumption
  <2>3. s[i] = [kind |-> s[i].kind, name |-> s[i].name]
    BY <2>1 DEF Lexemes
  <2> QED
    BY <2>1, <2>2, <2>3 DEF Blank
<1> QED
  BY <1>1, <1>2, <1>3, SourcesAssumption

(* The lexemes but blanks, and how they are counted.                       *)
LEMMA SolidType ==
  ASSUME NEW s \in Sources
  PROVE  /\ Solid(s) \in SUBSET (1 .. Len(s))
         /\ NoBlanks(s) \in Seq(Lexemes) /\ Len(NoBlanks(s)) \in Nat
         /\ CountTo(Solid(s), 0) = 0 /\ CountTo(Solid(s), Len(s)) = Len(NoBlanks(s))
<1>1. s \in Seq(Lexemes) /\ Len(s) \in Nat /\ DOMAIN s = 1 .. Len(s)
  BY SourceType
<1>2. Solid(s) \in SUBSET (1 .. Len(s))
  BY <1>1 DEF Solid
<1>3. /\ ElementsAt(s, Solid(s)) \in Seq(Lexemes)
      /\ Len(ElementsAt(s, Solid(s))) = Cardinality(Solid(s))
      /\ Cardinality(Solid(s)) \in 0 .. Len(s)
  BY <1>1, <1>2, ElementsAre
<1>4. CountTo(Solid(s), 0) = 0 /\ CountTo(Solid(s), Len(s)) = Cardinality(Solid(s))
  BY <1>1, <1>2, CountEnds
<1> QED
  BY <1>1, <1>2, <1>3, <1>4 DEF NoBlanks

(* A part of a sequence that is not empty.                                 *)
LEMMA PartType ==
  ASSUME NEW S, NEW s, NEW m \in Int, NEW l \in Int, m <= l, \A i \in m .. l : s[i] \in S
  PROVE  SubSeq(s, m, l) \in Seq(S) /\ Len(SubSeq(s, m, l)) = l - m + 1
<1>1. /\ SubSeq(s, m, l) \in Seq(S)
      /\ Len(SubSeq(s, m, l)) = IF m <= l THEN l - m + 1 ELSE 0
  BY SubSeqProperties
<1> QED
  BY <1>1

(* What is left begins with the lexeme after those that were read.         *)
LEMMA LeftIs ==
  ASSUME NEW s \in Sources, NEW q \in 0 .. Len(s), NEW r, r = SubSeq(s, q+1, Len(s))
  PROVE  /\ r \in Seq(Lexemes) /\ (r = <<>> <=> q = Len(s))
         /\ r # <<>> => /\ r[1] = s[q+1] /\ Tail(r) = SubSeq(s, q+2, Len(s))
                        /\ q+1 \in 1 .. Len(s)
<1>1. s \in Seq(Lexemes) /\ Len(s) \in Nat
  BY SourceType
<1>2. q \in Nat /\ q <= Len(s)
  BY <1>1
<1>3. CASE q = Len(s)
  <2>1. Len(s) + 1 > Len(s)
    BY <1>1
  <2>2. SubSeq(s, Len(s) + 1, Len(s)) = <<>>
    BY <2>1 DEF SubSeq
  <2> QED
    BY <1>3, <2>2
<1>4. CASE q # Len(s)
  <2> DEFINE m == q+1  l == Len(s)
  <2>1. m \in 1 .. l /\ l \in m .. l /\ m+1 = q+2 /\ l - m + 1 # 0 /\ r = SubSeq(s, m, l)
    BY <1>1, <1>2, <1>4
  <2>2. \A i \in m .. l : s[i] \in Lexemes
    BY <1>1, <1>2, ElementOfSeq
  <2> HIDE DEF m
  <2>3. Head(r) = s[m] /\ Tail(r) = SubSeq(s, m+1, l)
    BY <1>1, <2>1, HeadTailOfSubSeq
  <2> HIDE DEF l
  <2>4. r \in Seq(Lexemes) /\ Len(r) = l - m + 1
    <3>1. m \in Int /\ l \in Int /\ m <= l
      BY <1>1, <1>2, <2>1 DEF l, m
    <3>2. SubSeq(s, m, l) \in Seq(Lexemes) /\ Len(SubSeq(s, m, l)) = l - m + 1
      BY <2>2, <3>1, PartType
    <3> QED
      BY <2>1, <3>2
  <2>5. r # <<>>
    BY <2>1, <2>4, EmptySeq
  <2>6. r[1] = Head(r)
    BY <2>5
  <2> QED
    BY <1>4, <2>1, <2>3, <2>4, <2>5, <2>6 DEF m, l
<1> QED
  BY <1>3, <1>4

(* Reading a lexeme counts one more word, unless it is a blank.            *)
LEMMA LeftOn ==
  ASSUME NEW s \in Sources, NEW q \in 0 .. Len(s), q # Len(s)
  PROVE  /\ CountTo(Solid(s), q) \in Nat
         /\ CountTo(Solid(s), q+1) = CountTo(Solid(s), q) + (IF s[q+1] = Blank THEN 0 ELSE 1)
         /\ s[q+1] # Blank => /\ CountTo(Solid(s), q+1) \in 1 .. Len(NoBlanks(s))
                              /\ NoBlanks(s)[CountTo(Solid(s), q+1)] = s[q+1]
<1>1. s \in Seq(Lexemes) /\ Len(s) \in Nat /\ DOMAIN s = 1 .. Len(s)
  BY SourceType
<1>2. Solid(s) \in SUBSET (1 .. Len(s))
  BY SolidType
<1>0. q \in Nat /\ q < Len(s) /\ q+1 \in 1 .. Len(s) /\ Len(s) \in Nat
  <2>1. Len(s) \in Nat
    BY SourceType
  <2> QED
    BY <2>1
<1>3. CountTo(Solid(s), q) \in 0 .. Cardinality(Solid(s)) /\ Cardinality(Solid(s)) \in 0 .. Len(s)
  BY <1>1, <1>2, CountType
<1>4. CountTo(Solid(s), q+1) = CountTo(Solid(s), q) + (IF q+1 \in Solid(s) THEN 1 ELSE 0)
  BY <1>0, <1>1, <1>2, CountStep
<1>5. q+1 \in Solid(s) <=> s[q+1] # Blank
  BY <1>0, <1>1, Zenon DEF Solid
<1>6. /\ Len(ElementsAt(s, Solid(s))) = Cardinality(Solid(s))
      /\ \A i \in Solid(s) : /\ CountTo(Solid(s), i) \in 1 .. Cardinality(Solid(s))
                             /\ ElementsAt(s, Solid(s))[CountTo(Solid(s), i)] = s[i]
  BY <1>1, <1>2, ElementsAre
<1>7. CountTo(Solid(s), q) \in Nat
  <2>1. Cardinality(Solid(s)) \in Nat
    BY <1>0, <1>3
  <2> QED
    BY <1>3, <2>1
<1>8. s[q+1] # Blank => /\ CountTo(Solid(s), q+1) \in 1 .. Len(NoBlanks(s))
                       /\ NoBlanks(s)[CountTo(Solid(s), q+1)] = s[q+1]
  BY <1>5, <1>6, Zenon DEF NoBlanks
<1> QED
  BY <1>4, <1>5, <1>7, <1>8
(* What a lexeme of a source can be told by.                               *)
LEMMA LexemeIs ==
  ASSUME NEW x \in Lexemes
  PROVE  /\ x.kind = "name" => x = Name(x.name)
         /\ x.kind \in Kinds /\ x.name \in Nat
  BY DEF Lexemes, Name

(* Skipping at most one blank leads to the end or to a word, for no two    *)
(* blanks stand together.                                                  *)
LEMMA SkipsTo ==
  ASSUME NEW s \in Sources, NEW q \in 0 .. Len(s), NEW r, r = SubSeq(s, q+1, Len(s))
  PROVE  \E p \in 0 .. Len(s) :
           /\ Skipped(r) = SubSeq(s, p+1, Len(s))
           /\ CountTo(Solid(s), p) = CountTo(Solid(s), q)
           /\ p # Len(s) => s[p+1] # Blank
<1>1. Len(s) \in Nat
  BY SourceType
<1>2. q \in Nat /\ q <= Len(s)
  BY <1>1
<1>3. /\ r \in Seq(Lexemes) /\ (r = <<>> <=> q = Len(s))
      /\ r # <<>> => /\ r[1] = s[q+1] /\ Tail(r) = SubSeq(s, q+2, Len(s))
                     /\ q+1 \in 1 .. Len(s)
  BY LeftIs
<1>4. CASE q = Len(s)
  <2>1. Skipped(r) = r
    BY <1>3, <1>4 DEF Skipped, Next1
  <2> QED
    BY <1>4, <2>1
<1>5. CASE q # Len(s) /\ s[q+1] # Blank
  <2>1. s[q+1].kind # "blank"
    BY <1>3, <1>5, SourceType
  <2>2. Skipped(r) = r
    BY <1>3, <1>5, <2>1 DEF Skipped, Next1
  <2> QED
    BY <1>5, <2>2
<1>6. CASE q # Len(s) /\ s[q+1] = Blank
  <2>1. Skipped(r) = SubSeq(s, q+2, Len(s))
    BY <1>3, <1>6 DEF Skipped, Next1, Blank
  <2>2. CountTo(Solid(s), q) \in Nat /\ CountTo(Solid(s), q+1) = CountTo(Solid(s), q) + 0
    BY <1>6, LeftOn
  <2> DEFINE p == q+1
  <2>3. p \in 0 .. Len(s) /\ p+1 = q+2
    BY <1>1, <1>2, <1>6
  <2>4. p # Len(s) => s[p+1] # Blank
    <3>1. p # Len(s) => p \in 1 .. Len(s)-1
      BY <1>1, <1>2, <2>3
    <3>2. s[p] = Blank
      BY <1>6
    <3> HIDE DEF p
    <3> QED
      BY <3>1, <3>2, SourceType
  <2>5. CountTo(Solid(s), p) = CountTo(Solid(s), q)
    BY <2>2
  <2> HIDE DEF p
  <2> QED
    BY <2>1, <2>3, <2>4, <2>5
<1> QED
  BY <1>4, <1>5, <1>6

(* The number of words read cannot be more than there are.                 *)
LEMMA LeftType ==
  ASSUME NEW s \in Sources, NEW r, NEW c, Left(s, r, c)
  PROVE  r \in Seq(Lexemes) /\ c \in 0 .. Len(NoBlanks(s)) /\ Len(NoBlanks(s)) \in Nat
<1>1. PICK q \in 0 .. Len(s) : r = SubSeq(s, q+1, Len(s)) /\ c = CountTo(Solid(s), q)
  BY DEF Left
<1>2. Len(s) \in Nat
  BY SourceType
<1>3. r \in Seq(Lexemes)
  BY <1>1, LeftIs
<1>4. /\ Solid(s) \in SUBSET (1 .. Len(s)) /\ Len(NoBlanks(s)) \in Nat
      /\ CountTo(Solid(s), Len(s)) = Len(NoBlanks(s))
  BY SolidType
<1>5. CountTo(Solid(s), q) \in 0 .. Cardinality(Solid(s))
  BY <1>2, <1>4, CountType
<1>6. CountTo(Solid(s), Len(s)) = Cardinality(Solid(s))
  BY <1>2, <1>4, CountEnds
<1> QED
  BY <1>1, <1>3, <1>4, <1>5, <1>6

(* The next word is where the skipping ends, if there is one, and nothing  *)
(* follows the last but a blank.                                           *)
LEMMA WordAhead ==
  ASSUME NEW s \in Sources, NEW r, NEW c, Left(s, r, c)
  PROVE  /\ Skipped(r) = <<>> <=> c = Len(NoBlanks(s))
         /\ c # Len(NoBlanks(s)) =>
              /\ Skipped(r)[1] = NoBlanks(s)[c+1]
              /\ Left(s, Tail(Skipped(r)), c+1)
              /\ Tail(Skipped(r)) = <<>> <=> c+1 = Len(NoBlanks(s)) /\ ~EndsInBlank(s)
<1> DEFINE C(i) == CountTo(Solid(s), i)  N == NoBlanks(s)  l == Len(s)
<1>1. PICK q \in 0 .. l : r = SubSeq(s, q+1, l) /\ c = C(q)
  BY DEF Left
<1>2. PICK p \in 0 .. l : Skipped(r) = SubSeq(s, p+1, l) /\ C(p) = C(q)
                          /\ (p # l => s[p+1] # Blank)
  BY <1>1, SkipsTo
<1>3. l \in Nat /\ C(l) = Len(N) /\ Len(N) \in Nat /\ Solid(s) \in SUBSET (1 .. l)
  BY SourceType, SolidType
<1>4. p \in Nat /\ p <= l
  BY <1>3
<1>5. /\ Skipped(r) = <<>> <=> p = l
      /\ Skipped(r) # <<>> => Skipped(r)[1] = s[p+1] /\ Tail(Skipped(r)) = SubSeq(s, p+2, l)
  BY <1>2, LeftIs
<1>6. ASSUME p # l
      PROVE  /\ C(p) \in Nat /\ C(p+1) = C(p) + 1
             /\ C(p+1) \in 1 .. Len(N) /\ N[C(p+1)] = s[p+1]
  BY <1>2, <1>6, LeftOn
<1> HIDE DEF C, l, N
<1>7. Skipped(r) = <<>> <=> c = Len(N)
  BY <1>1, <1>2, <1>3, <1>5, <1>6
<1>8. ASSUME p # l
      PROVE  Skipped(r)[1] = N[c+1] /\ Left(s, Tail(Skipped(r)), c+1)
  <2>1. Skipped(r)[1] = s[p+1] /\ N[c+1] = s[p+1]
    BY <1>1, <1>2, <1>5, <1>6, <1>8
  <2> DEFINE m == p+1
  <2>2. m \in 0 .. l /\ Tail(Skipped(r)) = SubSeq(s, m+1, l) /\ c+1 = C(m)
    <3>1. m \in 0 .. l /\ m+1 = p+2
      BY <1>3, <1>4, <1>8
    <3> QED
      BY <1>1, <1>2, <1>5, <1>6, <1>8, <3>1
  <2> HIDE DEF m
  <2>3. Left(s, Tail(Skipped(r)), c+1)
    BY <2>2 DEF Left, C, l
  <2> QED
    BY <2>1, <2>3
<1>9. ASSUME p # l
      PROVE  Tail(Skipped(r)) = <<>> <=> c+1 = Len(N) /\ ~EndsInBlank(s)
  <2> DEFINE m == p+1
  <2>1. m \in 0 .. l /\ m \in Nat /\ Tail(Skipped(r)) = SubSeq(s, m+1, l) /\ c+1 = C(m)
    <3>1. m \in 0 .. l /\ m+1 = p+2 /\ m \in Nat
      BY <1>3, <1>4, <1>9
    <3> QED
      BY <1>1, <1>2, <1>5, <1>6, <1>9, <3>1
  <2>2. s[m] # Blank
    BY <1>2, <1>9
  <2> HIDE DEF m
  <2>3. Tail(Skipped(r)) = <<>> <=> m = l
    BY <2>1, LeftIs DEF l
  <2>4. s # <<>>
    <3>1. l # 0
      BY <1>3, <1>4, <1>9
    <3> QED
      BY <3>1, EmptySeq DEF l
  <2>5. EndsInBlank(s) <=> s[l] = Blank
    BY <2>4 DEF EndsInBlank, l
  <2>6. CASE m = l
    BY <1>3, <2>1, <2>2, <2>3, <2>5, <2>6
  <2>7. CASE m # l
    <3>1. CASE s[l] = Blank
      BY <2>3, <2>5, <2>7, <3>1
    <3>2. CASE s[l] # Blank
      <4>1. l \in Solid(s) /\ m < l
        <5>1. l \in 1 .. l /\ m < l
          BY <1>3, <2>1, <2>7
        <5> QED
          BY <5>1, <3>2, SourceType DEF Solid, l
      <4>2. C(m) < C(l)
        BY <1>3, <2>1, <4>1, CountGrows DEF C
      <4>3. C(m) # C(l)
        <5>1. C(m) \in Nat
          <6>1. c \in 0 .. Len(N)
            BY LeftType DEF N
          <6> QED
            BY <1>3, <2>1, <6>1
        <5> QED
          BY <1>3, <4>2, <5>1
      <4> QED
        BY <1>3, <2>1, <2>3, <2>7, <4>3
    <3> QED
      BY <3>1, <3>2
  <2> QED
    BY <2>6, <2>7
<1>10. c # Len(N) => p # l
  BY <1>5, <1>7
<1> QED
  BY <1>7, <1>8, <1>9, <1>10 DEF N

(* At the start no word is read.                                           *)
LEMMA NothingRead ==
  ASSUME NEW s \in Sources
  PROVE  Left(s, s, 0)
<1>1. s \in Seq(Lexemes) /\ Len(s) \in Nat /\ CountTo(Solid(s), 0) = 0
  BY SourceType, SolidType
<1>2. s = SubSeq(s, 1, Len(s))
  BY <1>1, SubSeqFull
<1>3. 0 \in 0 .. Len(s) /\ 0+1 = 1
  BY <1>1
<1> QED
  BY <1>1, <1>2, <1>3 DEF Left
-----------------------------------------------------------------------------
(* The words of a source: its lexemes but blanks, where programx counts    *)
(* for two.                                                                *)
Shift(s) == IF NoBlanks(s) # <<>> /\ NoBlanks(s)[1] = Name(ProgramX) THEN 1 ELSE 0

(* How the words of a source are numbered, with programx at its beginning  *)
(* and without.                                                            *)
LEMMA WordsAre ==
  ASSUME NEW s \in Sources
  PROVE  /\ Words(s) \in Seq(Lexemes) /\ Shift(s) \in {0, 1}
         /\ Len(NoBlanks(s)) \in Nat /\ Len(Words(s)) = Len(NoBlanks(s)) + Shift(s)
         /\ Shift(s) = 0 => Words(s) = NoBlanks(s)
         /\ Shift(s) = 1 => /\ NoBlanks(s) # <<>> /\ NoBlanks(s)[1] = Name(ProgramX)
                            /\ Words(s)[1] = Name(Program) /\ Words(s)[2] = Name(X)
         /\ \A i \in 3 .. Len(Words(s)) : Words(s)[i] = NoBlanks(s)[i - Shift(s)]
<1> DEFINE N == NoBlanks(s)  head == <<Name(Program), Name(X)>>
<1>1. N \in Seq(Lexemes) /\ Len(N) \in Nat
  BY SolidType
<1>2. CASE Shift(s) = 0
  <2>1. Words(s) = N
    BY <1>2 DEF Words, Shift
  <2>2. \A i \in 3 .. Len(Words(s)) : i - 0 = i
    OBVIOUS
  <2> QED
    BY <1>1, <1>2, <2>1, <2>2
<1>3. CASE Shift(s) = 1
  <2>1. N # <<>> /\ N[1] = Name(ProgramX) /\ Words(s) = head \o Tail(N)
    BY <1>3 DEF Words, Shift
  <2>2. Name(Program) \in Lexemes /\ Name(X) \in Lexemes
    BY DEF Name, Lexemes, Kinds, Program, X
  <2>3. head \in Seq(Lexemes) /\ Len(head) = 2 /\ head[1] = Name(Program) /\ head[2] = Name(X)
    BY <2>2
  <2> HIDE DEF N, head
  <2>4. /\ Tail(N) \in Seq(Lexemes) /\ Len(Tail(N)) = Len(N) - 1 /\ Len(N) # 0
        /\ \A i \in 1 .. Len(N)-1 : Tail(N)[i] = N[i+1]
    BY <1>1, <2>1, HeadTailProperties, EmptySeq
  <2> DEFINE t == Tail(N)
  <2>5. t \in Seq(Lexemes) /\ Len(t) = Len(N) - 1 /\ Len(t) \in Nat
    BY <1>1, <2>4
  <2> HIDE DEF t
  <2>6. /\ head \o t \in Seq(Lexemes) /\ Len(head \o t) = Len(head) + Len(t)
        /\ \A i \in 1 .. Len(head) + Len(t) :
             (head \o t)[i] = IF i <= Len(head) THEN head[i] ELSE t[i - Len(head)]
    BY <2>3, <2>5, ConcatProperties
  <2>7. Words(s) \in Seq(Lexemes) /\ Len(Words(s)) = Len(N) + 1
    BY <1>1, <2>1, <2>3, <2>5, <2>6 DEF t
  <2>8. Words(s)[1] = Name(Program) /\ Words(s)[2] = Name(X)
    <3>1. 1 \in 1 .. Len(head) + Len(t) /\ 2 \in 1 .. Len(head) + Len(t)
      BY <2>3, <2>5
    <3>2. (head \o t)[1] = head[1] /\ (head \o t)[2] = head[2]
      BY <2>3, <2>6, <3>1
    <3> QED
      BY <2>1, <2>3, <3>2 DEF t
  <2>9. ASSUME NEW i \in 3 .. Len(Words(s))
        PROVE  Words(s)[i] = N[i-1]
    <3>1. i \in Nat /\ i >= 3 /\ i <= Len(N) + 1
      BY <1>1, <2>7
    <3>2. i \in 1 .. Len(head) + Len(t) /\ ~(i <= Len(head)) /\ i - Len(head) = i - 2
      BY <1>1, <2>3, <2>5, <3>1
    <3>3. (head \o t)[i] = t[i-2]
      BY <2>6, <3>2
    <3>4. i-2 \in 1 .. Len(N)-1 /\ (i-2)+1 = i-1
      BY <1>1, <3>1
    <3>5. t[i-2] = N[i-1]
      BY <2>4, <3>4 DEF t
    <3> QED
      BY <2>1, <3>3, <3>5 DEF t
  <2> QED
    BY <1>1, <1>3, <2>1, <2>7, <2>8, <2>9 DEF N
<1> QED
  BY <1>2, <1>3 DEF Shift

(* A word that is a name is told by its number.                            *)
LEMMA WordIs ==
  ASSUME NEW s \in Sources, NEW i \in 1 .. Len(Words(s))
  PROVE  /\ Words(s)[i] \in Lexemes
         /\ Words(s)[i].kind = "name" => Words(s)[i] = Name(Words(s)[i].name)
<1>1. Words(s) \in Seq(Lexemes)
  BY WordsAre
<1>2. Words(s)[i] \in Lexemes
  BY <1>1, ElementOfSeq
<1> QED
  BY <1>2, LexemeIs

(* What is left of a source when j of its words, the header at least, are  *)
(* read.                                                                   *)
At(s, r, j) == j \in Nat /\ j >= 2 /\ Left(s, r, j - Shift(s))

(* The next lexeme is the next word, and reading it advances by one word.  *)
LEMMA AtAhead ==
  ASSUME NEW s \in Sources, NEW r, NEW j, At(s, r, j)
  PROVE  /\ r \in Seq(Lexemes) /\ j \in Nat /\ j >= 2
         /\ Len(Words(s)) \in Nat /\ j <= Len(Words(s))
         /\ Skipped(r) = <<>> <=> j = Len(Words(s))
         /\ j # Len(Words(s)) =>
              /\ j+1 \in 1 .. Len(Words(s))
              /\ Skipped(r)[1] = Words(s)[j+1]
              /\ At(s, Tail(Skipped(r)), j+1)
              /\ Tail(Skipped(r)) = <<>> <=> j+1 = Len(Words(s)) /\ ~EndsInBlank(s)
<1> DEFINE c == j - Shift(s)
<1>1. Left(s, r, c) /\ j \in Nat /\ j >= 2
  BY DEF At
<1>2. /\ Shift(s) \in {0, 1} /\ Len(NoBlanks(s)) \in Nat
      /\ Len(Words(s)) = Len(NoBlanks(s)) + Shift(s)
      /\ \A i \in 3 .. Len(Words(s)) : Words(s)[i] = NoBlanks(s)[i - Shift(s)]
  BY WordsAre
<1>3. (j+1) - Shift(s) = c+1 /\ c \in Int
  BY <1>1, <1>2
<1>4. j = Len(Words(s)) <=> c = Len(NoBlanks(s))
  BY <1>1, <1>2
<1>5. j+1 = Len(Words(s)) <=> c+1 = Len(NoBlanks(s))
  BY <1>1, <1>2
<1> HIDE DEF c
<1>6. r \in Seq(Lexemes) /\ c \in 0 .. Len(NoBlanks(s))
  BY <1>1, LeftType
<1>7. /\ Skipped(r) = <<>> <=> c = Len(NoBlanks(s))
      /\ c # Len(NoBlanks(s)) =>
            /\ Skipped(r)[1] = NoBlanks(s)[c+1]
            /\ Left(s, Tail(Skipped(r)), c+1)
            /\ Tail(Skipped(r)) = <<>> <=> c+1 = Len(NoBlanks(s)) /\ ~EndsInBlank(s)
  BY <1>1, WordAhead
<1>8. Len(Words(s)) \in Nat /\ j <= Len(Words(s))
  BY <1>1, <1>2, <1>6 DEF c
<1>9. ASSUME j # Len(Words(s))
      PROVE  /\ j+1 \in 1 .. Len(Words(s))
             /\ NoBlanks(s)[c+1] = Words(s)[j+1]
             /\ At(s, Tail(Skipped(r)), j+1)
  <2> DEFINE m == j+1
  <2>1. m \in 3 .. Len(Words(s)) /\ m \in 1 .. Len(Words(s)) /\ m \in Nat /\ m >= 2
    BY <1>1, <1>8, <1>9
  <2>2. m - Shift(s) = c+1
    BY <1>3
  <2> HIDE DEF m
  <2>3. Words(s)[m] = NoBlanks(s)[c+1]
    BY <1>2, <2>1, <2>2
  <2>4. At(s, Tail(Skipped(r)), m)
    BY <1>4, <1>7, <1>9, <2>1, <2>2 DEF At
  <2> QED
    BY <2>1, <2>3, <2>4 DEF m
<1> QED
  BY <1>1, <1>4, <1>5, <1>6, <1>7, <1>8, <1>9

(* The last lexeme of a source that does not end in a blank is its last    *)
(* word.                                                                   *)
LEMMA LastLexeme ==
  ASSUME NEW s \in Sources, s # <<>>, s[Len(s)] # Blank
  PROVE  s[Len(s)] = NoBlanks(s)[Len(NoBlanks(s))]
<1> DEFINE l == Len(s)
<1>1. l \in Nat /\ l # 0
  BY SourceType, EmptySeq
<1> DEFINE q == l - 1
<1>2. q \in 0 .. l /\ q # l /\ q+1 = l
  BY <1>1
<1> HIDE DEF q
<1>3. s[q+1] # Blank
  BY <1>2
<1>4. NoBlanks(s)[CountTo(Solid(s), q+1)] = s[q+1]
  BY <1>2, <1>3, LeftOn
<1>5. CountTo(Solid(s), l) = Len(NoBlanks(s))
  BY SolidType
<1> QED
  BY <1>2, <1>4, <1>5

(* A source that does not end in a blank ends in its last word.            *)
LEMMA LastWord ==
  ASSUME NEW s \in Sources, Len(Words(s)) >= 3, s # <<>>, s[Len(s)] # Blank
  PROVE  s[Len(s)] = Words(s)[Len(Words(s))]
<1> DEFINE n == Len(Words(s))
<1>1. /\ Shift(s) \in {0, 1} /\ Len(NoBlanks(s)) \in Nat /\ n = Len(NoBlanks(s)) + Shift(s)
      /\ \A i \in 3 .. n : Words(s)[i] = NoBlanks(s)[i - Shift(s)]
  BY WordsAre
<1>2. n \in 3 .. n /\ n - Shift(s) = Len(NoBlanks(s))
  BY <1>1
<1>3. Words(s)[n] = NoBlanks(s)[Len(NoBlanks(s))]
  BY <1>1, <1>2
<1> QED
  BY <1>3, LastLexeme

(* What a loose word is, and what is not one.                              *)
LEMMA Loose ==
  ASSUME NEW s \in Sources, Len(Words(s)) >= 3
  PROVE  LooseWord(s) <=> /\ ~EndsInBlank(s)
                          /\ Words(s)[Len(Words(s))].kind = "name"
                          /\ ~In(topLevelKeyword, Words(s)[Len(Words(s))].name)
<1>1. s # <<>>
  <2>1. CASE s = <<>>
    <3>1. Len(s) = 0 /\ Solid(s) \in SUBSET (1 .. Len(s)) /\ Shift(s) \in {0, 1}
          /\ Len(Words(s)) = Len(NoBlanks(s)) + Shift(s)
          /\ CountTo(Solid(s), 0) = 0 /\ CountTo(Solid(s), Len(s)) = Len(NoBlanks(s))
      BY <2>1, SolidType, WordsAre, EmptySeq
    <3>2. Len(Words(s)) = 0 + Shift(s)
      BY <3>1
    <3> QED
      BY <3>1, <3>2
  <2> QED
    BY <2>1
<1>2. CASE s[Len(s)] = Blank
  <2>1. s[Len(s)].kind = "blank"
    BY <1>2 DEF Blank
  <2> QED
    BY <1>1, <1>2, <2>1 DEF LooseWord, EndsInBlank
<1>3. CASE s[Len(s)] # Blank
  <2>1. s[Len(s)] = Words(s)[Len(Words(s))]
    BY <1>1, <1>3, LastWord
  <2> QED
    BY <1>1, <1>3, <2>1 DEF LooseWord, EndsInBlank
<1> QED
  BY <1>2, <1>3
-----------------------------------------------------------------------------
(* What the parser accepts to the letter, in the terms of its code: empty *)
(* var blocks only, and what it lets pass at the end of a file without a   *)
(* blank.  AcceptedAsDocumented follows from it.                           *)
(* The words from the third to the n-th are a run block.                   *)
RunBlock(s, n) ==
  LET w == Words(s)
  IN /\ w[3] = Name(Run)
     /\ \A i \in 4 .. n : w[i].kind = "name"
     /\ \E k \in 0 .. n :
          LET first == 4 + 2*k
          IN /\ first <= n
             /\ EmptyVars(w, k)
             /\ w[first] # Name(Var)
             /\ \A i \in first .. n-1 : w[i] # Name(End)
             /\ \/ w[n] = Name(End)
                \/ ~EndsInBlank(s) /\ first < n
InLanguage(s) ==
  LET w == Words(s)
      n == Len(w)
  IN /\ n >= 2
     /\ w[1] = Name(Program) /\ w[2].kind = "name"
     /\ \/ n = 2 \/ RunBlock(s, n)
        \/ /\ LooseWord(s)
           /\ \/ n = 3
              \/ w[n-1] = Name(End) /\ RunBlock(s, n-1)

(* What has been read so far: the header, and k empty var blocks.          *)
Header(s) ==
  /\ Len(Words(s)) >= 2
  /\ Words(s)[1] = Name(Program) /\ Words(s)[2].kind = "name"
VarsRead(s, k) ==
  /\ Header(s) /\ k \in Nat /\ 3 + 2*k <= Len(Words(s))
  /\ Words(s)[3] = Name(Run) /\ EmptyVars(Words(s), k)

(* What RunBlock says of the words after k var blocks.                     *)
Body(s, n, k) ==
  /\ 4 + 2*k <= n
  /\ EmptyVars(Words(s), k)
  /\ Words(s)[4 + 2*k] # Name(Var)
  /\ \A i \in 4 + 2*k .. n-1 : Words(s)[i] # Name(End)
  /\ Words(s)[n] = Name(End) \/ (~EndsInBlank(s) /\ 4 + 2*k < n)
AllNames(s, a, b) == \A i \in a .. b : Words(s)[i].kind = "name"

(* A run block in terms of the parts the parser meets one after the other. *)
LEMMA RunBlockIs ==
  ASSUME NEW s, NEW n
  PROVE  RunBlock(s, n) <=> /\ Words(s)[3] = Name(Run)
                            /\ AllNames(s, 4, n)
                            /\ \E k \in 0 .. n : Body(s, n, k)
  BY DEF RunBlock, Body, AllNames

(* Every name is told by its number.                                       *)
LEMMA NamesDiffer ==
  /\ \A a, b : Name(a) = Name(b) => a = b
  /\ \A a : Name(a).kind = "name" /\ Name(a).name = a
  /\ Name(Var) # Name(End) /\ Run # NoName
  /\ In(topLevelKeyword, Run) /\ ~In(topLevelKeyword, End)
<1>1. /\ \A a, b : Name(a) = Name(b) => a = b
      /\ \A a : Name(a).kind = "name" /\ Name(a).name = a
  BY DEF Name
<1>2. In(topLevelKeyword, Run)
  <2>1. topLevelKeyword[9] = Run /\ Len(topLevelKeyword) = 13
    BY Sorted DEF topLevelKeyword
  <2>2. 9 \in 1 .. 13
    OBVIOUS
  <2> QED
    BY <2>1, <2>2 DEF In
<1>3. ~In(topLevelKeyword, End)
  <2>1. Len(topLevelKeyword) = 13
    BY Sorted
  <2>2. ASSUME NEW i \in 1 .. 13 PROVE topLevelKeyword[i] # End
    BY DEF topLevelKeyword, Run, Var, End
  <2> QED
    BY <2>1, <2>2 DEF In
<1> QED
  BY <1>1, <1>2, <1>3 DEF Run, NoName, Var, End

(* The var blocks read are the first of those there are.                   *)
LEMMA VarsFirst ==
  ASSUME NEW s, NEW n \in Nat, NEW k \in Nat, NEW m \in 0 .. n,
         EmptyVars(Words(s), k), Body(s, n, m)
  PROVE  m \in Nat /\ m >= k
<1>1. m \in Nat
  OBVIOUS
<1>2. CASE m < k
  <2>1. m \in 0 .. k-1
    BY <1>1, <1>2
  <2>2. Words(s)[4 + 2*m] = Name(Var)
    BY <2>1 DEF EmptyVars
  <2> QED
    BY <2>2 DEF Body
<1> QED
  BY <1>1, <1>2

(* A program with a run block is that block, and a loose word perhaps.     *)
LEMMA SomeBlock ==
  ASSUME NEW s \in Sources, Len(Words(s)) >= 3, Words(s)[3] = Name(Run), InLanguage(s)
  PROVE  \E n \in Nat : /\ RunBlock(s, n)
                        /\ \/ n = Len(Words(s))
                           \/ n = Len(Words(s)) - 1 /\ LooseWord(s) /\ Words(s)[n] = Name(End)
<1> DEFINE l == Len(Words(s))
<1>1. l \in Nat
  BY WordsAre
<1>2. CASE RunBlock(s, l)
  BY <1>1, <1>2
<1>3. CASE LooseWord(s) /\ l = 3
  <2>1. ~In(topLevelKeyword, Words(s)[3].name)
    BY <1>3, Loose
  <2> QED
    BY <2>1, NamesDiffer
<1>4. CASE LooseWord(s) /\ Words(s)[l-1] = Name(End) /\ RunBlock(s, l-1)
  <2>1. l-1 \in Nat
    BY <1>1
  <2> QED
    BY <1>4, <2>1
<1>5. l # 2
  BY <1>1
<1> QED
  BY <1>2, <1>3, <1>4, <1>5 DEF InLanguage

(* The third word is run, or a loose word.                                 *)
LEMMA ThirdWord ==
  ASSUME NEW s \in Sources, Len(Words(s)) >= 3, InLanguage(s), Words(s)[3] # Name(Run)
  PROVE  Len(Words(s)) = 3 /\ LooseWord(s)
<1>1. Len(Words(s)) \in Nat /\ Len(Words(s)) # 2
  BY WordsAre
<1> QED
  BY <1>1, RunBlockIs DEF InLanguage

(* After a run block that ended no more than a loose word may stand.       *)
LEMMA AfterBlock ==
  ASSUME NEW s \in Sources, NEW j \in Nat, j < Len(Words(s)),
         RunBlock(s, j), Words(s)[j] = Name(End), InLanguage(s)
  PROVE  j+1 = Len(Words(s)) /\ LooseWord(s)
<1>1. Len(Words(s)) \in Nat
  BY WordsAre
<1>2. PICK k \in 0 .. j : Body(s, j, k) /\ Words(s)[3] = Name(Run)
  BY RunBlockIs
<1>3. k \in Nat /\ 4 + 2*k <= j
  BY <1>2 DEF Body
<1>4. Len(Words(s)) >= 3
  BY <1>1, <1>3
<1>5. PICK n \in Nat : /\ RunBlock(s, n)
                       /\ \/ n = Len(Words(s))
                          \/ n = Len(Words(s)) - 1 /\ LooseWord(s)
  BY <1>2, <1>4, SomeBlock
<1>6. PICK m \in 0 .. n : Body(s, n, m)
  BY <1>5, RunBlockIs
<1>7. CASE j < n
  <2>1. EmptyVars(Words(s), k) /\ EmptyVars(Words(s), m)
    BY <1>2, <1>6 DEF Body
  <2>2. m \in Nat /\ m >= k
    BY <1>3, <1>6, <2>1, VarsFirst
  <2>3. k >= m
    BY <1>2, <2>1, <2>2, VarsFirst
  <2>4. j \in 4 + 2*m .. n-1
    BY <1>3, <1>7, <2>2, <2>3
  <2>5. Words(s)[j] # Name(End)
    BY <1>6, <2>4 DEF Body
  <2> QED
    BY <2>5
<1> QED
  BY <1>1, <1>5, <1>7

(* After var blocks a name must follow.                                    *)
LEMMA AfterVars ==
  ASSUME NEW s \in Sources, NEW k, VarsRead(s, k), InLanguage(s)
  PROVE  4 + 2*k <= Len(Words(s)) /\ Words(s)[4 + 2*k].kind = "name"
<1>1. Len(Words(s)) \in Nat /\ k \in Nat /\ Len(Words(s)) >= 3
  BY WordsAre DEF VarsRead
<1>2. PICK n \in Nat : RunBlock(s, n) /\ n <= Len(Words(s))
  <2>1. Words(s)[3] = Name(Run)
    BY DEF VarsRead
  <2> QED
    BY <1>1, <2>1, SomeBlock
<1>3. PICK m \in 0 .. n : Body(s, n, m) /\ AllNames(s, 4, n)
  BY <1>2, RunBlockIs
<1>4. m \in Nat /\ m >= k
  BY <1>1, <1>3, VarsFirst DEF VarsRead
<1>5. 4 + 2*k <= n
  BY <1>1, <1>3, <1>4 DEF Body
<1>6. 4 + 2*k \in 4 .. n
  BY <1>1, <1>5
<1> QED
  BY <1>1, <1>2, <1>3, <1>5, <1>6 DEF AllNames

(* After var the word end must follow.                                     *)
LEMMA AfterVarWord ==
  ASSUME NEW s \in Sources, NEW k, VarsRead(s, k), InLanguage(s),
         4 + 2*k <= Len(Words(s)), Words(s)[4 + 2*k] = Name(Var)
  PROVE  5 + 2*k <= Len(Words(s)) /\ Words(s)[5 + 2*k] = Name(End)
<1>1. Len(Words(s)) \in Nat /\ k \in Nat /\ Len(Words(s)) >= 3
  BY WordsAre DEF VarsRead
<1>2. PICK n \in Nat : RunBlock(s, n) /\ n <= Len(Words(s))
  <2>1. Words(s)[3] = Name(Run)
    BY DEF VarsRead
  <2> QED
    BY <1>1, <2>1, SomeBlock
<1>3. PICK m \in 0 .. n : Body(s, n, m)
  BY <1>2, RunBlockIs
<1>4. m \in Nat /\ m >= k
  BY <1>1, <1>3, VarsFirst DEF VarsRead
<1>5. m # k
  BY <1>3 DEF Body
<1>6. k \in 0 .. m-1 /\ 5 + 2*k <= n
  BY <1>1, <1>3, <1>4, <1>5 DEF Body
<1>7. Words(s)[5 + 2*k] = Name(End)
  BY <1>3, <1>6 DEF Body, EmptyVars
<1> QED
  BY <1>1, <1>2, <1>6, <1>7

(* After a word of a block a word must follow, until the end.              *)
LEMMA AfterWord ==
  ASSUME NEW s \in Sources, NEW k, VarsRead(s, k), InLanguage(s), NEW j \in Nat,
         4 + 2*k <= j, j <= Len(Words(s)), Words(s)[4 + 2*k] # Name(Var),
         \A i \in 4 + 2*k .. j : Words(s)[i] # Name(End),
         4 + 2*k < j => j # Len(Words(s)) \/ EndsInBlank(s)
  PROVE  j < Len(Words(s)) /\ Words(s)[j+1].kind = "name"
<1>1. Len(Words(s)) \in Nat /\ k \in Nat /\ Len(Words(s)) >= 3
  BY WordsAre DEF VarsRead
<1>2. PICK n \in Nat : /\ RunBlock(s, n)
                       /\ \/ n = Len(Words(s))
                          \/ n = Len(Words(s)) - 1 /\ Words(s)[n] = Name(End)
  <2>1. Words(s)[3] = Name(Run)
    BY DEF VarsRead
  <2> QED
    BY <1>1, <2>1, SomeBlock
<1>3. PICK m \in 0 .. n : Body(s, n, m) /\ AllNames(s, 4, n)
  BY <1>2, RunBlockIs
<1>4. m \in Nat /\ m >= k
  BY <1>1, <1>3, VarsFirst DEF VarsRead
<1>5. m = k
  <2>1. CASE m > k
    <3>1. k \in 0 .. m-1
      BY <1>1, <1>4, <2>1
    <3>2. Words(s)[4 + 2*k] = Name(Var)
      BY <1>3, <3>1 DEF Body, EmptyVars
    <3> QED
      BY <3>2
  <2> QED
    BY <1>1, <1>4, <2>1
<1>6. 4 + 2*k <= n
  BY <1>3, <1>5 DEF Body
<1>7. CASE j < n
  <2>1. j+1 \in 4 .. n /\ j < Len(Words(s))
    BY <1>1, <1>2, <1>7
  <2> QED
    BY <1>3, <2>1 DEF AllNames
<1>8. CASE n <= j
  <2>1. n \in 4 + 2*k .. j
    BY <1>1, <1>6, <1>8
  <2>2. Words(s)[n] # Name(End)
    BY <2>1
  <2>3. n = Len(Words(s)) /\ j = n
    BY <1>1, <1>2, <1>8, <2>2
  <2>4. ~EndsInBlank(s) /\ 4 + 2*k < n
    BY <1>3, <1>5, <2>2 DEF Body
  <2> QED
    BY <2>3, <2>4
<1> QED
  BY <1>7, <1>8

(* What a run block is put together from.                                  *)
LEMMA BlockOf ==
  ASSUME NEW s \in Sources, NEW k, VarsRead(s, k), NEW j \in Nat, j <= Len(Words(s)),
         Body(s, j, k), AllNames(s, 4 + 2*k, j)
  PROVE  RunBlock(s, j)
<1>1. k \in Nat /\ 4 + 2*k <= j /\ Words(s)[3] = Name(Run) /\ EmptyVars(Words(s), k)
  BY DEF VarsRead, Body
<1>2. ASSUME NEW i \in 4 .. j
      PROVE  Words(s)[i].kind = "name"
  <2>1. i \in Nat
    OBVIOUS
  <2>2. CASE i >= 4 + 2*k
    BY <1>1, <1>2, <2>1, <2>2 DEF AllNames
  <2>3. CASE i < 4 + 2*k
    <3> DEFINE e == (i - 4) \div 2
    <3>1. e \in 0 .. k-1 /\ (i = 4 + 2*e \/ i = 5 + 2*e)
      BY <1>1, <2>1, <2>3
    <3> HIDE DEF e
    <3>2. Words(s)[4 + 2*e] = Name(Var) /\ Words(s)[5 + 2*e] = Name(End)
      BY <1>1, <3>1 DEF EmptyVars
    <3> QED
      BY <3>1, <3>2, NamesDiffer
  <2> QED
    BY <1>1, <2>1, <2>2, <2>3
<1>3. k \in 0 .. j
  BY <1>1
<1> QED
  BY <1>1, <1>2, <1>3, RunBlockIs DEF AllNames

(* One more empty var block.                                               *)
LEMMA VarsMore ==
  ASSUME NEW s \in Sources, NEW k, VarsRead(s, k), 5 + 2*k <= Len(Words(s)),
         Words(s)[4 + 2*k] = Name(Var), Words(s)[5 + 2*k] = Name(End)
  PROVE  VarsRead(s, k+1)
<1>1. k \in Nat /\ Len(Words(s)) \in Nat
  BY WordsAre DEF VarsRead
<1>2. k+1 \in Nat /\ 3 + 2*(k+1) <= Len(Words(s))
  BY <1>1
<1>3. ASSUME NEW j \in 0 .. (k+1)-1
      PROVE  Words(s)[4 + 2*j] = Name(Var) /\ Words(s)[5 + 2*j] = Name(End)
  <2>1. j \in 0 .. k-1 \/ j = k
    BY <1>1
  <2> QED
    BY <2>1 DEF VarsRead, EmptyVars
<1> QED
  BY <1>2, <1>3 DEF VarsRead, EmptyVars
-----------------------------------------------------------------------------
(* Where the parser is in the language: between two parts of a program,    *)
(* after the word that begins one, after a word of a run block that may be *)
(* var, after another word of it, and after var blocks.                    *)
AtTop(s, r, declared) ==
  /\ Header(s)
  /\ IF declared
     THEN \E j \in Nat : /\ At(s, r, j) /\ RunBlock(s, j)
                         /\ j # Len(Words(s)) => Words(s)[j] = Name(End)
     ELSE At(s, r, 2)
AtWord(s, r, x, declared) ==
  /\ Header(s)
  /\ \E j \in Nat :
       /\ At(s, r, j+1) /\ Words(s)[j+1] = Name(x)
       /\ r = <<>> <=> j+1 = Len(Words(s)) /\ ~EndsInBlank(s)
       /\ IF declared THEN RunBlock(s, j) /\ Words(s)[j] = Name(End) ELSE j = 2
InBlock(s, r, x) ==
  \E k \in Nat : VarsRead(s, k) /\ At(s, r, 4 + 2*k) /\ Words(s)[4 + 2*k] = Name(x)
InStatements(s, r, x) ==
  \E k, j \in Nat :
    /\ VarsRead(s, k) /\ At(s, r, j) /\ 4 + 2*k <= j
    /\ Words(s)[4 + 2*k] # Name(Var)
    /\ AllNames(s, 4 + 2*k, j)
    /\ \A i \in 4 + 2*k .. j-1 : Words(s)[i] # Name(End)
    /\ Words(s)[j] = Name(x)
    /\ 4 + 2*k < j => j # Len(Words(s)) \/ EndsInBlank(s)
PastVars(s, r) ==
  \/ r = <<>> /\ ~InLanguage(s)
  \/ \E k \in Nat : VarsRead(s, k) /\ At(s, r, 3 + 2*k)

(* A name ahead is the next word, and the end of the file or the lack of a *)
(* name ahead says what the next word is not.                              *)
LEMMA NameRead ==
  ASSUME NEW s \in Sources, NEW r, NEW j, At(s, r, j), Next1(Skipped(r)) = "name"
  PROVE  /\ j \in Nat /\ j+1 <= Len(Words(s)) /\ Len(Words(s)) \in Nat
         /\ Words(s)[j+1] = Name(Skipped(r)[1].name)
         /\ At(s, Tail(Skipped(r)), j+1)
         /\ Tail(Skipped(r)) = <<>> <=> j+1 = Len(Words(s)) /\ ~EndsInBlank(s)
<1>1. Skipped(r) # <<>> /\ Skipped(r)[1].kind = "name"
  BY DEF Next1
<1>2. j # Len(Words(s)) /\ Len(Words(s)) \in Nat /\ j \in Nat /\ j <= Len(Words(s))
  BY <1>1, AtAhead
<1>3. /\ j+1 \in 1 .. Len(Words(s)) /\ Skipped(r)[1] = Words(s)[j+1]
      /\ At(s, Tail(Skipped(r)), j+1)
      /\ Tail(Skipped(r)) = <<>> <=> j+1 = Len(Words(s)) /\ ~EndsInBlank(s)
  BY <1>2, AtAhead
<1> DEFINE m == j+1
<1>4. m \in 1 .. Len(Words(s)) /\ Words(s)[m].kind = "name"
  BY <1>1, <1>3
<1> HIDE DEF m
<1>5. Words(s)[m] = Name(Words(s)[m].name)
  BY <1>4, WordIs
<1> QED
  BY <1>2, <1>3, <1>5 DEF m

(* If no name is next, the words are at their end or go on with something  *)
(* else.                                                                   *)
LEMMA NoNameRead ==
  ASSUME NEW s \in Sources, NEW r, NEW j, At(s, r, j), Next1(Skipped(r)) # "name"
  PROVE  j \in Nat /\ (j = Len(Words(s)) \/ Words(s)[j+1].kind # "name")
<1>1. CASE j # Len(Words(s))
  <2>1. Skipped(r) # <<>> /\ Skipped(r)[1] = Words(s)[j+1] /\ j \in Nat
    BY <1>1, AtAhead
  <2> QED
    BY <2>1 DEF Next1
<1> QED
  BY <1>1, AtAhead

(* From the beginning of a file to the first part.                         *)
LEMMA ProgramAhead ==
  ASSUME NEW s \in Sources
  PROVE  /\ Skipped(s) = <<>> <=> Len(NoBlanks(s)) = 0
         /\ Skipped(s) # <<>> => /\ Skipped(s)[1] = NoBlanks(s)[1]
                                 /\ Left(s, Tail(Skipped(s)), 1)
         /\ Len(NoBlanks(s)) \in Nat
<1>1. Left(s, s, 0) /\ 0+1 = 1
  BY NothingRead
<1>2. /\ Skipped(s) = <<>> <=> 0 = Len(NoBlanks(s))
      /\ 0 # Len(NoBlanks(s)) => /\ Skipped(s)[1] = NoBlanks(s)[0+1]
                                 /\ Left(s, Tail(Skipped(s)), 0+1)
  BY <1>1, WordAhead
<1> QED
  BY <1>1, <1>2, SolidType

(* After the first lexeme the second one is next.                          *)
LEMMA SecondAhead ==
  ASSUME NEW s \in Sources, NEW r, Left(s, r, 1)
  PROVE  /\ Skipped(r) = <<>> <=> Len(NoBlanks(s)) = 1
         /\ Skipped(r) # <<>> => /\ Skipped(r)[1] = NoBlanks(s)[2]
                                 /\ Left(s, Tail(Skipped(r)), 2)
         /\ Len(NoBlanks(s)) \in Nat /\ Len(NoBlanks(s)) >= 1
<1> DEFINE c == 1  d == c+1
<1>1. Left(s, r, c) /\ d = 2
  OBVIOUS
<1> HIDE DEF c
<1>2. /\ Skipped(r) = <<>> <=> c = Len(NoBlanks(s))
      /\ c # Len(NoBlanks(s)) => /\ Skipped(r)[1] = NoBlanks(s)[c+1]
                                 /\ Left(s, Tail(Skipped(r)), c+1)
  BY <1>1, WordAhead
<1>3. c \in 0 .. Len(NoBlanks(s)) /\ Len(NoBlanks(s)) \in Nat
  BY <1>1, LeftType
<1>4. /\ Skipped(r) = <<>> <=> c = Len(NoBlanks(s))
      /\ c # Len(NoBlanks(s)) => /\ Skipped(r)[1] = NoBlanks(s)[d]
                                 /\ Left(s, Tail(Skipped(r)), d)
  BY <1>2
<1>5. Len(NoBlanks(s)) >= c
  BY <1>3
<1> HIDE DEF d
<1> QED
  BY <1>1, <1>3, <1>4, <1>5 DEF c

(* A header whose two words stand together is read as two words.           *)
LEMMA ProgramXReads ==
  ASSUME NEW s \in Sources, Skipped(s) # <<>>, Skipped(s)[1] = Name(ProgramX)
  PROVE  /\ Next1(Skipped(Matched(Skipped(s)))) = "name"
         /\ AtTop(s, Tail(Skipped(Matched(Skipped(s)))), FALSE)
<1> DEFINE t == Tail(Skipped(s))  x == <<Name(X)>>
<1>1. Left(s, t, 1) /\ NoBlanks(s)[1] = Name(ProgramX) /\ Len(NoBlanks(s)) # 0
  BY ProgramAhead
<1>2. Shift(s) = 1
  BY <1>1, EmptySeq DEF Shift
<1>3. /\ Words(s)[1] = Name(Program) /\ Words(s)[2] = Name(X)
      /\ Len(Words(s)) = Len(NoBlanks(s)) + 1 /\ Len(NoBlanks(s)) \in Nat
  BY <1>2, WordsAre
<1>4. Header(s)
  BY <1>1, <1>3, NamesDiffer DEF Header
<1>5. At(s, t, 2)
  <2>1. 2 - Shift(s) = 1 /\ 2 \in Nat /\ 2 >= 2
    BY <1>2
  <2> QED
    BY <1>1, <2>1 DEF At
<1>6. t \in Seq(Lexemes)
  BY <1>1, LeftType
<1>7. Matched(Skipped(s)) = x \o t
  BY DEF Matched
<1>8. Name(X) \in Lexemes
  BY DEF Name, Lexemes, Kinds, X
<1>9. x \in Seq(Lexemes) /\ x # <<>> /\ Head(x) = Name(X) /\ Tail(x) = <<>> /\ Len(x) = 1
  BY <1>8
<1> HIDE DEF t, x
<1>10. x \o t \in Seq(Lexemes) /\ Len(x \o t) = 1 + Len(t) /\ Len(t) \in Nat
       /\ \A i \in 1 .. Len(x) + Len(t) : (x \o t)[i] = IF i <= Len(x) THEN x[i] ELSE t[i - Len(x)]
  BY <1>6, <1>9, ConcatProperties, LenProperties
<1>11. (x \o t)[1] = Name(X)
  BY <1>9, <1>10
<1>12. x \o t # <<>>
  BY <1>10, EmptySeq
<1>13. Next1(x \o t) = "name"
  BY <1>11, <1>12, NamesDiffer DEF Next1
<1>14. Skipped(x \o t) = x \o t
  BY <1>13 DEF Skipped
<1>15. Tail(x \o t) = t
  BY <1>6, <1>8, SMT DEF x
<1> QED
  BY <1>4, <1>5, <1>7, <1>13, <1>14, <1>15 DEF AtTop, t

(* The header of a program is read.                                        *)
LEMMA ProgramReads ==
  ASSUME NEW s \in Sources, Skipped(s) # <<>>, Skipped(s)[1] = Name(Program),
         Next1(Skipped(Tail(Skipped(s)))) = "name"
  PROVE  AtTop(s, Tail(Skipped(Tail(Skipped(s)))), FALSE)
<1> DEFINE t == Tail(Skipped(s))
<1>1. Left(s, t, 1) /\ NoBlanks(s)[1] = Name(Program)
  BY ProgramAhead
<1>2. Shift(s) = 0
  <2>1. Program # ProgramX
    BY DEF Program, ProgramX
  <2> QED
    BY <1>1, <2>1, NamesDiffer DEF Shift
<1>3. Words(s) = NoBlanks(s) /\ Len(Words(s)) \in Nat
  BY <1>2, WordsAre
<1>4. Skipped(t) # <<>> /\ Skipped(t)[1].kind = "name"
  BY DEF Next1
<1> HIDE DEF t
<1>5. Skipped(t)[1] = NoBlanks(s)[2] /\ Left(s, Tail(Skipped(t)), 2)
      /\ Len(NoBlanks(s)) \in Nat /\ Len(NoBlanks(s)) >= 1 /\ Len(NoBlanks(s)) # 1
  BY <1>1, <1>4, SecondAhead
<1>6. Len(Words(s)) >= 2
  <2> DEFINE l == Len(NoBlanks(s))
  <2>0. l \in Nat /\ l >= 1 /\ l # 1
    BY <1>5
  <2> HIDE DEF l
  <2>1. l >= 2
    BY <2>0
  <2>2. Len(Words(s)) = l
    BY <1>3, Zenon DEF l
  <2> QED
    BY <2>1, <2>2
<1>7. Header(s)
  BY <1>1, <1>3, <1>4, <1>5, <1>6 DEF Header
<1>8. At(s, Tail(Skipped(t)), 2)
  <2>1. 2 - Shift(s) = 2 /\ 2 \in Nat /\ 2 >= 2
    BY <1>2
  <2> QED
    BY <1>5, <2>1 DEF At
<1> QED
  BY <1>7, <1>8 DEF AtTop, t

(* What ParseProgram refuses is not the header of a program.               *)
LEMMA ProgramFails ==
  ASSUME NEW s \in Sources,
         Matches(Skipped(s)) => Next1(Skipped(Matched(Skipped(s)))) # "name"
  PROVE  ~InLanguage(s)
<1> SUFFICES ASSUME Header(s) PROVE FALSE
  BY DEF InLanguage, Header
<1>1. /\ Len(NoBlanks(s)) \in Nat /\ Shift(s) \in {0, 1}
      /\ Len(Words(s)) = Len(NoBlanks(s)) + Shift(s) /\ Len(Words(s)) >= 2
      /\ Shift(s) = 0 => Words(s) = NoBlanks(s)
      /\ Shift(s) = 1 => NoBlanks(s)[1] = Name(ProgramX)
  BY WordsAre DEF Header
<1>2. Skipped(s) # <<>>
  BY <1>1, ProgramAhead
<1>3. Skipped(s)[1] = NoBlanks(s)[1] /\ Left(s, Tail(Skipped(s)), 1)
  BY <1>2, ProgramAhead
<1>4. CASE Shift(s) = 1
  <2>1. Skipped(s)[1] = Name(ProgramX) /\ Matches(Skipped(s))
    BY <1>1, <1>2, <1>3, <1>4 DEF Matches
  <2> QED
    BY <1>2, <2>1, ProgramXReads
<1>5. CASE Shift(s) = 0
  <2>1. Skipped(s)[1] = Name(Program) /\ Matches(Skipped(s))
    BY <1>1, <1>2, <1>3, <1>5 DEF Matches, Header
  <2>2. Matched(Skipped(s)) = Tail(Skipped(s))
    <3>1. Program # ProgramX
      BY DEF Program, ProgramX
    <3> QED
      BY <2>1, <3>1, NamesDiffer DEF Matched
  <2> DEFINE t == Tail(Skipped(s))
  <2>3. Next1(Skipped(t)) # "name" /\ Left(s, t, 1)
    BY <1>3, <2>1, <2>2
  <2> HIDE DEF t
  <2>4. Len(NoBlanks(s)) # 1
    BY <1>1, <1>5
  <2>5. Skipped(t) # <<>> /\ Skipped(t)[1] = NoBlanks(s)[2]
    BY <2>3, <2>4, SecondAhead
  <2>6. Skipped(t)[1].kind # "name"
    BY <2>3, <2>5 DEF Next1
  <2> QED
    BY <1>1, <1>5, <2>5, <2>6 DEF Header
<1> QED
  BY <1>1, <1>4, <1>5
-----------------------------------------------------------------------------
(* What the parser reads leads from one place in the language to another;  *)
(* what it refuses is not in the language.                                 *)
Ahead(r) == Skipped(r)[1].name
Read(r) == Tail(Skipped(r))

(* A source that ends between two blocks is a program.                     *)
LEMMA TopEnds ==
  ASSUME NEW s \in Sources, NEW r, NEW d, AtTop(s, r, d), Skipped(r) = <<>>
  PROVE  InLanguage(s)
<1>1. CASE d
  <2>1. PICK j \in Nat : At(s, r, j) /\ RunBlock(s, j)
    BY <1>1 DEF AtTop
  <2>2. j = Len(Words(s))
    BY <2>1, AtAhead
  <2> QED
    BY <2>1, <2>2 DEF AtTop, Header, InLanguage
<1>2. CASE ~d
  <2>1. At(s, r, 2)
    BY <1>2 DEF AtTop
  <2>2. 2 = Len(Words(s))
    BY <2>1, AtAhead
  <2> QED
    BY <2>2 DEF AtTop, Header, InLanguage
<1> QED
  BY <1>1, <1>2

(* A name between two blocks is read as the next word.                     *)
LEMMA TopName ==
  ASSUME NEW s \in Sources, NEW r, NEW d, AtTop(s, r, d), Next1(Skipped(r)) = "name"
  PROVE  AtWord(s, Read(r), Ahead(r), d)
<1>1. PICK j \in Nat : /\ At(s, r, j)
                       /\ IF d THEN /\ RunBlock(s, j)
                                    /\ j # Len(Words(s)) => Words(s)[j] = Name(End)
                          ELSE j = 2
  BY DEF AtTop
<1>2. /\ j+1 <= Len(Words(s)) /\ Len(Words(s)) \in Nat
      /\ Words(s)[j+1] = Name(Ahead(r)) /\ At(s, Read(r), j+1)
      /\ Read(r) = <<>> <=> j+1 = Len(Words(s)) /\ ~EndsInBlank(s)
  BY <1>1, NameRead DEF Ahead, Read
<1>3. j # Len(Words(s))
  BY <1>2
<1>4. Header(s)
  BY DEF AtTop
<1> QED
  BY <1>1, <1>2, <1>3, <1>4 DEF AtWord

(* What is no name between two blocks makes the source no program.         *)
LEMMA TopFails ==
  ASSUME NEW s \in Sources, NEW r, NEW d, AtTop(s, r, d), Next1(Skipped(r)) \notin {"name", "EOF"}
  PROVE  ~InLanguage(s)
<1> SUFFICES ASSUME InLanguage(s) PROVE FALSE
  OBVIOUS
<1>1. Skipped(r) # <<>> /\ Next1(Skipped(r)) # "name"
  BY DEF Next1
<1>2. ASSUME NEW j \in Nat, At(s, r, j)
      PROVE  /\ j < Len(Words(s)) /\ Len(Words(s)) \in Nat
             /\ Words(s)[j+1].kind # "name"
  <2>1. j # Len(Words(s)) /\ j <= Len(Words(s)) /\ Len(Words(s)) \in Nat
    BY <1>1, <1>2, AtAhead
  <2>2. Words(s)[j+1].kind # "name"
    BY <1>1, <1>2, <2>1, NoNameRead
  <2> QED
    BY <2>1, <2>2
<1>3. CASE d
  <2>1. PICK j \in Nat : At(s, r, j) /\ RunBlock(s, j)
                         /\ (j # Len(Words(s)) => Words(s)[j] = Name(End))
    BY <1>3 DEF AtTop
  <2>2. j < Len(Words(s)) /\ Len(Words(s)) \in Nat /\ Words(s)[j+1].kind # "name" /\ j >= 2
    BY <1>2, <2>1, AtAhead
  <2>3. j+1 = Len(Words(s)) /\ LooseWord(s)
    BY <2>1, <2>2, AfterBlock
  <2>4. Len(Words(s)) >= 3
    BY <2>2
  <2> QED
    BY <2>2, <2>3, <2>4, Loose
<1>4. CASE ~d
  <2>1. Len(Words(s)) >= 3 /\ Words(s)[3].kind # "name"
    <3> DEFINE j == 2
    <3>1. At(s, r, j) /\ j \in Nat /\ j+1 = 3
      BY <1>4 DEF AtTop
    <3>2. Words(s)[j+1].kind # "name" /\ j < Len(Words(s)) /\ Len(Words(s)) \in Nat
      <4> HIDE DEF j
      <4> QED
        BY <1>2, <3>1
    <3> QED
      BY <3>1, <3>2
  <2>2. Words(s)[3] # Name(Run)
    BY <2>1, NamesDiffer
  <2>3. Len(Words(s)) = 3 /\ LooseWord(s)
    BY <2>1, <2>2, ThirdWord
  <2> QED
    BY <2>1, <2>3, Loose
<1> QED
  BY <1>3, <1>4

(* A source that ends right after a word that is no keyword is a program.  *)
LEMMA WordEnds ==
  ASSUME NEW s \in Sources, NEW r, NEW x, NEW d, AtWord(s, r, x, d), r = <<>>,
         ~In(topLevelKeyword, x)
  PROVE  InLanguage(s)
<1>1. PICK j \in Nat :
        /\ At(s, r, j+1) /\ Words(s)[j+1] = Name(x)
        /\ j+1 = Len(Words(s)) /\ ~EndsInBlank(s)
        /\ IF d THEN RunBlock(s, j) /\ Words(s)[j] = Name(End) ELSE j = 2
  BY DEF AtWord
<1>2. Len(Words(s)) >= 3
  <2>1. CASE d
    <3>1. RunBlock(s, j)
      BY <1>1, <2>1
    <3>2. PICK k \in 0 .. j : Body(s, j, k)
      BY <3>1, RunBlockIs
    <3>3. k \in Nat /\ 4 + 2*k <= j
      BY <3>2 DEF Body
    <3> QED
      BY <1>1, <3>3
  <2>2. CASE ~d
    <3>1. j = 2 /\ j+1 = Len(Words(s))
      BY <1>1, <2>2, Zenon
    <3> DEFINE l == Len(Words(s))
    <3> HIDE DEF l
    <3>2. l >= 3
      BY <3>1 DEF l
    <3> QED
      BY <3>2 DEF l
  <2> QED
    BY <2>1, <2>2
<1>3. LooseWord(s)
  BY <1>1, <1>2, Loose, NamesDiffer
<1>4. CASE d
  <2>1. Len(Words(s)) - 1 = j
    BY <1>1
  <2> QED
    BY <1>1, <1>2, <1>3, <1>4, <2>1 DEF AtWord, Header, InLanguage
<1>5. CASE ~d
  <2>1. Len(Words(s)) = 3
    BY <1>1, <1>5
  <2> QED
    BY <1>3, <2>1 DEF AtWord, Header, InLanguage
<1> QED
  BY <1>4, <1>5

(* Any other word between two blocks, but the first run, makes it none.    *)
LEMMA WordFails ==
  ASSUME NEW s \in Sources, NEW r, NEW x, NEW d, AtWord(s, r, x, d),
         InLanguage(s)
  PROVE  \/ ~d /\ x = Run
         \/ r = <<>> /\ ~In(topLevelKeyword, x)
<1>1. PICK j \in Nat :
        /\ At(s, r, j+1) /\ Words(s)[j+1] = Name(x)
        /\ r = <<>> <=> j+1 = Len(Words(s)) /\ ~EndsInBlank(s)
        /\ IF d THEN RunBlock(s, j) /\ Words(s)[j] = Name(End) ELSE j = 2
  BY DEF AtWord
<1>2. Len(Words(s)) \in Nat /\ j+1 <= Len(Words(s)) /\ j+1 >= 2
  BY <1>1, AtAhead
<1>3. ASSUME j+1 = Len(Words(s)), LooseWord(s), Len(Words(s)) >= 3
      PROVE  r = <<>> /\ ~In(topLevelKeyword, x)
  BY <1>1, <1>3, Loose, NamesDiffer
<1>4. CASE d
  <2>1. RunBlock(s, j) /\ Words(s)[j] = Name(End) /\ j < Len(Words(s))
    BY <1>1, <1>2, <1>4
  <2>2. j+1 = Len(Words(s)) /\ LooseWord(s)
    BY <2>1, AfterBlock
  <2>3. Len(Words(s)) >= 3
    <3>1. PICK k \in 0 .. j : Body(s, j, k)
      BY <2>1, RunBlockIs
    <3>2. k \in Nat /\ 4 + 2*k <= j
      BY <3>1 DEF Body
    <3> QED
      BY <2>2, <3>2
  <2> QED
    BY <1>3, <2>2, <2>3
<1>5. CASE ~d /\ x # Run
  <2>1. Words(s)[3] = Name(x) /\ Len(Words(s)) >= 3
    BY <1>1, <1>2, <1>5
  <2>2. Words(s)[3] # Name(Run)
    BY <1>5, <2>1, NamesDiffer
  <2>3. Len(Words(s)) = 3 /\ LooseWord(s)
    BY <2>1, <2>2, ThirdWord
  <2>4. j+1 = Len(Words(s))
    BY <1>1, <1>5, <2>3
  <2> QED
    BY <1>3, <2>1, <2>3, <2>4
<1> QED
  BY <1>4, <1>5

(* The word run with nothing read of its block.                            *)
LEMMA RunRead ==
  ASSUME NEW s \in Sources, NEW r, AtWord(s, r, Run, FALSE)
  PROVE  VarsRead(s, 0) /\ At(s, r, 3)
<1>1. At(s, r, 3) /\ Words(s)[3] = Name(Run) /\ Header(s)
  <2>1. PICK j \in Nat : At(s, r, j+1) /\ Words(s)[j+1] = Name(Run) /\ j = 2
    BY DEF AtWord
  <2>2. j+1 = 3
    BY <2>1
  <2> QED
    BY <2>1, <2>2 DEF AtWord
<1>2. 3 <= Len(Words(s)) /\ Len(Words(s)) \in Nat
  BY <1>1, AtAhead
<1>3. EmptyVars(Words(s), 0)
  BY DEF EmptyVars
<1>4. 3 + 2*0 <= Len(Words(s)) /\ 0 \in Nat
  BY <1>2
<1> QED
  BY <1>1, <1>3, <1>4 DEF VarsRead

(* After var blocks a name begins a block; without one the file is not in  *)
(* the language.                                                           *)
LEMMA VarsName ==
  ASSUME NEW s \in Sources, NEW r, NEW k, VarsRead(s, k), At(s, r, 3 + 2*k),
         Next1(Skipped(r)) = "name"
  PROVE  InBlock(s, Read(r), Ahead(r))
<1>1. k \in Nat
  BY DEF VarsRead
<1> DEFINE j == 3 + 2*k
<1>2. At(s, r, j) /\ j+1 = 4 + 2*k
  BY <1>1
<1> HIDE DEF j
<1>3. Words(s)[j+1] = Name(Ahead(r)) /\ At(s, Read(r), j+1)
  BY <1>2, NameRead DEF Ahead, Read
<1> QED
  BY <1>1, <1>2, <1>3 DEF InBlock

(* What is no name where a var block or a statement may begin makes it     *)
(* none.                                                                   *)
LEMMA VarsFail ==
  ASSUME NEW s \in Sources, NEW r, NEW k, VarsRead(s, k), At(s, r, 3 + 2*k),
         Next1(Skipped(r)) # "name"
  PROVE  ~InLanguage(s)
<1>1. k \in Nat
  BY DEF VarsRead
<1> DEFINE j == 3 + 2*k
<1>2. At(s, r, j) /\ j+1 = 4 + 2*k /\ j < j+1 /\ j \in Nat
  BY <1>1
<1> HIDE DEF j
<1>3. j = Len(Words(s)) \/ Words(s)[j+1].kind # "name"
  BY <1>2, NoNameRead
<1>4. InLanguage(s) => j+1 <= Len(Words(s)) /\ Words(s)[j+1].kind = "name"
  BY <1>2, AfterVars
<1> QED
  BY <1>2, <1>3, <1>4

(* A word of a block that is not var is its first statement.               *)
LEMMA FirstStatement ==
  ASSUME NEW s \in Sources, NEW r, NEW x, InBlock(s, r, x), x # Var
  PROVE  InStatements(s, r, x)
<1>1. PICK k \in Nat : VarsRead(s, k) /\ At(s, r, 4 + 2*k) /\ Words(s)[4 + 2*k] = Name(x)
  BY DEF InBlock
<1> DEFINE j == 4 + 2*k
<1>2. j \in Nat /\ j <= j /\ ~(j < j) /\ \A i \in j .. j : i = j
  BY <1>1
<1>3. \A i \in j .. j-1 : FALSE
  BY <1>1
<1> HIDE DEF j
<1>4. Words(s)[j] = Name(x) /\ At(s, r, j)
  BY <1>1 DEF j
<1>5. AllNames(s, j, j)
  BY <1>2, <1>4, NamesDiffer DEF AllNames
<1>6. Words(s)[j] # Name(Var)
  BY <1>4, NamesDiffer
<1> QED
  BY <1>1, <1>2, <1>3, <1>4, <1>5, <1>6 DEF InStatements, j

(* After var, only the word end goes on.                                   *)
LEMMA VarEnds ==
  ASSUME NEW s \in Sources, NEW r, InBlock(s, r, Var), Next1(Skipped(r)) = "name", Ahead(r) = End
  PROVE  PastVars(s, Read(r))
<1>1. PICK k \in Nat : VarsRead(s, k) /\ At(s, r, 4 + 2*k) /\ Words(s)[4 + 2*k] = Name(Var)
  BY DEF InBlock
<1> DEFINE j == 4 + 2*k
<1>2. At(s, r, j) /\ j+1 = 5 + 2*k /\ j+1 = 3 + 2*(k+1) /\ k+1 \in Nat
  BY <1>1
<1> HIDE DEF j
<1>3. /\ j+1 <= Len(Words(s)) /\ Words(s)[j+1] = Name(End) /\ At(s, Read(r), j+1)
  BY <1>2, NameRead DEF Ahead, Read
<1>4. VarsRead(s, k+1)
  BY <1>1, <1>2, <1>3, VarsMore
<1> QED
  BY <1>2, <1>3, <1>4 DEF PastVars

(* A var block with a variable in it makes it none.                        *)
LEMMA VarFails ==
  ASSUME NEW s \in Sources, NEW r, InBlock(s, r, Var),
         Next1(Skipped(r)) = "name" => Ahead(r) # End
  PROVE  ~InLanguage(s)
<1>1. PICK k \in Nat : VarsRead(s, k) /\ At(s, r, 4 + 2*k) /\ Words(s)[4 + 2*k] = Name(Var)
  BY DEF InBlock
<1> DEFINE j == 4 + 2*k
<1>2. At(s, r, j) /\ j+1 = 5 + 2*k /\ j \in Nat
  BY <1>1
<1>3. Len(Words(s)) \in Nat /\ j <= Len(Words(s))
  BY <1>2, AtAhead
<1> HIDE DEF j
<1>4. InLanguage(s) => j+1 <= Len(Words(s)) /\ Words(s)[j+1] = Name(End)
  BY <1>1, <1>2, <1>3, AfterVarWord DEF j
<1>5. CASE Next1(Skipped(r)) = "name"
  <2>1. Words(s)[j+1] = Name(Ahead(r))
    BY <1>2, <1>5, NameRead DEF Ahead
  <2> QED
    BY <1>4, <1>5, <2>1, NamesDiffer
<1>6. CASE Next1(Skipped(r)) # "name"
  <2>1. j = Len(Words(s)) \/ Words(s)[j+1].kind # "name"
    BY <1>2, <1>6, NoNameRead
  <2> QED
    BY <1>2, <1>3, <1>4, <2>1, NamesDiffer
<1> QED
  BY <1>5, <1>6

(* The word end closes the block.                                          *)
LEMMA StatementsEnd ==
  ASSUME NEW s \in Sources, NEW r, InStatements(s, r, End)
  PROVE  AtTop(s, r, TRUE)
<1>1. PICK k, j \in Nat :
        /\ VarsRead(s, k) /\ At(s, r, j) /\ 4 + 2*k <= j
        /\ Words(s)[4 + 2*k] # Name(Var)
        /\ AllNames(s, 4 + 2*k, j)
        /\ \A i \in 4 + 2*k .. j-1 : Words(s)[i] # Name(End)
        /\ Words(s)[j] = Name(End)
  BY DEF InStatements
<1>2. j <= Len(Words(s))
  BY <1>1, AtAhead
<1>3. Body(s, j, k)
  BY <1>1 DEF Body, VarsRead
<1>4. RunBlock(s, j)
  BY <1>1, <1>2, <1>3, BlockOf
<1>5. Header(s)
  BY <1>1 DEF VarsRead
<1> QED
  BY <1>1, <1>4, <1>5 DEF AtTop

(* One more word of a block.                                               *)
LEMMA StatementMore ==
  ASSUME NEW s \in Sources, NEW r, NEW x, InStatements(s, r, x), x # End,
         Next1(Skipped(r)) = "name"
  PROVE  IF Read(r) = <<>> THEN AtTop(s, Read(r), TRUE) ELSE InStatements(s, Read(r), Ahead(r))
<1>1. PICK k, j \in Nat :
        /\ VarsRead(s, k) /\ At(s, r, j) /\ 4 + 2*k <= j
        /\ Words(s)[4 + 2*k] # Name(Var)
        /\ AllNames(s, 4 + 2*k, j)
        /\ \A i \in 4 + 2*k .. j-1 : Words(s)[i] # Name(End)
        /\ Words(s)[j] = Name(x)
  BY DEF InStatements
<1>2. /\ j+1 <= Len(Words(s)) /\ Len(Words(s)) \in Nat
      /\ Words(s)[j+1] = Name(Ahead(r)) /\ At(s, Read(r), j+1)
      /\ Read(r) = <<>> <=> j+1 = Len(Words(s)) /\ ~EndsInBlank(s)
  BY <1>1, NameRead DEF Ahead, Read
<1> DEFINE f == 4 + 2*k  m == j+1
<1>3. f \in Nat /\ f <= j /\ f < m /\ m \in Nat /\ m-1 = j
  BY <1>1
<1> HIDE DEF f, m
<1>4. AllNames(s, f, m)
  <2>1. \A i \in f .. m : i \in f .. j \/ i = m
    BY <1>3
  <2>2. Words(s)[m].kind = "name"
    BY <1>2, NamesDiffer DEF m
  <2>3. \A i \in f .. j : Words(s)[i].kind = "name"
    BY <1>1 DEF f, AllNames
  <2> QED
    BY <2>1, <2>2, <2>3 DEF AllNames
<1>5. \A i \in f .. m-1 : Words(s)[i] # Name(End)
  <2>1. \A i \in f .. m-1 : i \in f .. j-1 \/ i = j
    BY <1>3
  <2>2. Words(s)[j] # Name(End)
    BY <1>1, NamesDiffer
  <2>3. \A i \in f .. j-1 : Words(s)[i] # Name(End)
    BY <1>1 DEF f
  <2> QED
    BY <2>1, <2>2, <2>3
<1>6. CASE Read(r) = <<>>
  <2>1. m = Len(Words(s)) /\ ~EndsInBlank(s)
    BY <1>2, <1>6 DEF m
  <2>2. EmptyVars(Words(s), k) /\ Words(s)[f] # Name(Var) /\ Header(s)
    BY <1>1 DEF f, VarsRead
  <2>3. Body(s, m, k)
    BY <1>3, <1>5, <2>1, <2>2 DEF Body, f
  <2>4. RunBlock(s, m)
    BY <1>1, <1>2, <1>3, <1>4, <2>1, <2>3, BlockOf DEF f
  <2>5. At(s, Read(r), m)
    BY <1>2 DEF m
  <2> QED
    BY <1>3, <1>6, <2>1, <2>2, <2>4, <2>5 DEF AtTop
<1>7. CASE Read(r) # <<>>
  <2>1. m # Len(Words(s)) \/ EndsInBlank(s)
    BY <1>2, <1>7 DEF m
  <2>2. Words(s)[m] = Name(Ahead(r)) /\ At(s, Read(r), m) /\ f <= m
    BY <1>2, <1>3 DEF m
  <2>3. VarsRead(s, k) /\ Words(s)[f] # Name(Var)
    BY <1>1 DEF f
  <2>4. InStatements(s, Read(r), Ahead(r))
    BY <1>1, <1>3, <1>4, <1>5, <2>1, <2>2, <2>3 DEF InStatements, f
  <2> QED
    BY <1>7, <2>4
<1> QED
  BY <1>6, <1>7

(* A statement that is not followed by a name makes it none.               *)
LEMMA StatementFails ==
  ASSUME NEW s \in Sources, NEW r, NEW x, InStatements(s, r, x), x # End,
         Next1(Skipped(r)) # "name"
  PROVE  ~InLanguage(s)
<1> SUFFICES ASSUME InLanguage(s) PROVE FALSE
  OBVIOUS
<1>1. PICK k, j \in Nat :
        /\ VarsRead(s, k) /\ At(s, r, j) /\ 4 + 2*k <= j
        /\ Words(s)[4 + 2*k] # Name(Var)
        /\ \A i \in 4 + 2*k .. j-1 : Words(s)[i] # Name(End)
        /\ Words(s)[j] = Name(x)
        /\ 4 + 2*k < j => j # Len(Words(s)) \/ EndsInBlank(s)
  BY DEF InStatements
<1>2. j = Len(Words(s)) \/ Words(s)[j+1].kind # "name"
  BY <1>1, NoNameRead
<1>3. j <= Len(Words(s)) /\ Len(Words(s)) \in Nat
  BY <1>1, AtAhead
<1>4. \A i \in 4 + 2*k .. j : Words(s)[i] # Name(End)
  <2>1. \A i \in 4 + 2*k .. j : i \in 4 + 2*k .. j-1 \/ i = j
    BY <1>1
  <2>2. Words(s)[j] # Name(End)
    BY <1>1, NamesDiffer
  <2> QED
    BY <1>1, <2>1, <2>2
<1>5. j < Len(Words(s)) /\ Words(s)[j+1].kind = "name"
  BY <1>1, <1>3, <1>4, AfterWord
<1> QED
  BY <1>2, <1>3, <1>5
-----------------------------------------------------------------------------
(* Before program is read the file is whole, at first it is not open, and  *)
(* nothing has failed until the exit.                                      *)
Fresh ==
  /\ source \in Sources
  /\ fn \in {"main", "program"} => rest = source /\ ~runDeclared
  /\ fn = "main" => ~handle
  /\ fn \notin {"exit", "ended"} => status = 0

(* With a symbol table, where the parser is in its code says where it is   *)
(* in the language, or that the file is not in it; at the exit it has      *)
(* judged rightly.                                                         *)
Judged(s, st, tok, declared, local) ==
  /\ st = 0 => InLanguage(s)
  /\ InLanguage(s) => st = 0 \/ (tok = Run /\ ~declared /\ ~local)
Lookup == fn \in {"declare", "run"} \/ (fn = "search" /\ table = topLevelKeyword)
Lost == fn \in {"typeSpec", "dimension", "declarators"} \/ (fn = "search" /\ table = baseTypeName)
Parsing ==
  handle /\ symTable =>
    /\ fn = "parse" => AtTop(source, rest, runDeclared)
    /\ Lookup => table = topLevelKeyword /\ AtWord(source, rest, ident, runDeclared)
    /\ fn = "run" => token = Run /\ ident = Run
    /\ fn = "block" => InBlock(source, rest, ident)
    /\ fn = "localVar" => InBlock(source, rest, Var)
    /\ fn = "afterVar" => PastVars(source, rest)
    /\ fn = "statements" => InStatements(source, rest, ident)
    /\ Lost => ~InLanguage(source)
    /\ fn = "exit" => Judged(source, status, token, runDeclared, localTable)

(* Without one the parser gets no further than the first word.             *)
FirstWord(s, r, x) ==
  /\ Left(s, r, 1) /\ NoBlanks(s)[1] = Name(x) /\ NoBlanks(s) # <<>>
  /\ r = <<>> <=> Len(NoBlanks(s)) = 1 /\ ~EndsInBlank(s)
NothingMuch(s) == NoBlanks(s) = <<>> \/ (Len(NoBlanks(s)) = 1 /\ LooseWord(s))
Tableless ==
  handle /\ ~symTable =>
    /\ fn \notin InRun
    /\ fn = "parse" => rest = source
    /\ fn \in {"search", "declare", "run"} => table = topLevelKeyword
    /\ fn \in {"search", "declare"} => FirstWord(source, rest, ident)
    /\ fn = "exit" => status = 1 \/ NothingMuch(source)

(* Before the header is read nothing else is, at every step.               *)
LEMMA FreshStep ==
  ASSUME Inv, Fresh, [Next]_vars
  PROVE  Fresh'
<1>1. CASE UNCHANGED vars
  BY <1>1 DEF vars, input, process, Fresh
<1>2. CASE Open \/ OpenFails
  BY <1>2 DEF Open, OpenFails, Fail, Goto, input, Fresh
<1>3. CASE Cleanup
  BY <1>3 DEF Cleanup, Goto, input, Fresh
<1>4. CASE ParseEnds \/ TopLevelKeyword \/ ParseProgram \/ AfterVar \/ Statement \/ EndOfRun
  <2>1. source' = source /\ (fn' = "exit" \/ (fn' \notin {"main", "program"} /\ status' = status))
    BY <1>4 DEF ParseEnds, TopLevelKeyword, ParseProgram, AfterVar, Statement, EndOfRun,
       StartSearch, ReadName, Fail, Goto, input, process
  <2>2. fn \notin {"exit", "ended"}
    BY <1>4 DEF ParseEnds, TopLevelKeyword, ParseProgram, AfterVar, Statement, EndOfRun
  <2> QED
    BY <2>1, <2>2 DEF Fresh
<1>5. CASE Probe \/ NotFound \/ Declare \/ RunRefused \/ ParseRun \/ Block
  <2>1. source' = source /\ (fn' = "exit" \/ (fn' \notin {"main", "program"} /\ status' = status))
    BY <1>5 DEF Probe, NotFound, Declare, RunRefused, ParseRun, Block,
       Returns, ReadName, Fail, Goto, input, process
  <2>2. fn \notin {"exit", "ended"}
    BY <1>5 DEF Probe, NotFound, Declare, RunRefused, ParseRun, Block
  <2> QED
    BY <2>1, <2>2 DEF Fresh
<1>6. CASE LocalVar \/ TypeSpec \/ Dimension \/ Declarator
  <2>1. source' = source /\ (fn' = "exit" \/ (fn' \notin {"main", "program"} /\ status' = status))
    BY <1>6 DEF LocalVar, TypeSpec, Dimension, Declarator,
       StartSearch, ReadName, Fail, Goto, input, process
  <2>2. fn \notin {"exit", "ended"}
    BY <1>6 DEF LocalVar, TypeSpec, Dimension, Declarator
  <2> QED
    BY <2>1, <2>2 DEF Fresh
<1> QED
  BY <1>1, <1>2, <1>3, <1>4, <1>5, <1>6 DEF Next

(* What ReadName reads is the name ahead.                                  *)
LEMMA ReadNameIs ==
  ASSUME NEW r, NEW f, ReadName(r, f)
  PROVE  /\ Next1(Skipped(r)) = "name" /\ ident' = Ahead(r) /\ rest' = Read(r) /\ fn' = f
         /\ source' = source /\ token' = token
  BY DEF ReadName, Ahead, Read, Goto

(* Each action leads to the place in the language that goes with the place *)
(* in the code it leads to.                                                *)
LEMMA ParsingStep ==
  ASSUME Inv, Fresh, Parsing, [Next]_vars
  PROVE  Parsing'
<1> SUFFICES ASSUME handle', symTable' PROVE Parsing'
  BY DEF Parsing
<1>0. source \in Sources
  BY DEF Fresh
<1>1. ASSUME fn' = "exit", Judged(source', status', token', runDeclared', localTable')
      PROVE  Parsing'
  BY <1>1 DEF Parsing, Lookup, Lost
<1>2. ASSUME fn' = "exit", source' = source, status' = 1, ~InLanguage(source)
      PROVE  Parsing'
  BY <1>1, <1>2 DEF Judged
<1>3. ASSUME Fail, ~InLanguage(source)
      PROVE  Parsing'
  BY <1>2, <1>3 DEF Fail, Goto, input
<1>4. ASSUME fn' = "parse", AtTop(source', rest', runDeclared')
      PROVE  Parsing'
  BY <1>4 DEF Parsing, Lookup, Lost
<1>5. ASSUME fn' \in {"search", "declare", "run"}, table' = topLevelKeyword,
             AtWord(source', rest', ident', runDeclared'),
             fn' = "run" => token' = Run /\ ident' = Run
      PROVE  Parsing'
  BY <1>5, Different DEF Parsing, Lookup, Lost
<1>6. ASSUME fn' = "block", InBlock(source', rest', ident')
      PROVE  Parsing'
  BY <1>6 DEF Parsing, Lookup, Lost
<1>7. ASSUME fn' = "localVar", InBlock(source', rest', Var)
      PROVE  Parsing'
  BY <1>7 DEF Parsing, Lookup, Lost
<1>8. ASSUME fn' = "afterVar", PastVars(source', rest')
      PROVE  Parsing'
  BY <1>8 DEF Parsing, Lookup, Lost
<1>9. ASSUME fn' = "statements", InStatements(source', rest', ident')
      PROVE  Parsing'
  BY <1>9 DEF Parsing, Lookup, Lost
<1>10. ASSUME ~InLanguage(source'), Lost'
       PROVE  Parsing'
  BY <1>10, Different DEF Parsing, Lookup, Lost
<1>11. ASSUME fn' \in {"program", "ended"}
       PROVE  Parsing'
  BY <1>11 DEF Parsing, Lookup, Lost
<1>12. CASE UNCHANGED vars
  <2>1. UNCHANGED <<source, rest, fn, ident, table, token, symTable, localTable,
                    runDeclared, handle, status>>
    BY <1>12 DEF vars, input, search, tables, process
  <2> QED
    BY <2>1 DEF Parsing, Lookup, Lost
<1>13. CASE Open \/ Cleanup
  BY <1>11, <1>13 DEF Open, Cleanup, Goto
<1>14. CASE OpenFails
  <2>1. fn = "main" /\ handle
    BY <1>14 DEF OpenFails, Fail, process
  <2> QED
    BY <2>1 DEF Fresh
<1>15. CASE ParseProgram
  <2>1. rest = source /\ ~runDeclared /\ symTable
    BY <1>15 DEF ParseProgram, Fresh, ReadName, Fail, tables
  <2>2. CASE Fail /\ (Matches(Skipped(rest)) => NoNameAhead(Matched(Skipped(rest))))
    <3>1. ~InLanguage(source)
      BY <1>0, <2>1, <2>2, ProgramFails DEF NoNameAhead
    <3> QED
      BY <1>3, <2>2, <3>1
  <2>3. CASE /\ Matches(Skipped(source))
             /\ ReadName(Matched(Skipped(source)), "parse") /\ UNCHANGED process
    <3>1. /\ Next1(Skipped(Matched(Skipped(source)))) = "name" /\ fn' = "parse"
          /\ source' = source /\ rest' = Tail(Skipped(Matched(Skipped(source))))
          /\ runDeclared' = FALSE
      BY <2>1, <2>3, ReadNameIs DEF Read, process, Inv, TypeOK
    <3>2. Skipped(source) # <<>>
      BY <2>3 DEF Matches
    <3>3. CASE Skipped(source)[1] = Name(ProgramX)
      BY <1>0, <1>4, <3>1, <3>2, <3>3, ProgramXReads
    <3>4. CASE Skipped(source)[1] # Name(ProgramX)
      <4>1. Skipped(source)[1] = Name(Program) /\ Matched(Skipped(source)) = Tail(Skipped(source))
        BY <2>3, <3>4 DEF Matches, Matched
      <4> QED
        BY <1>0, <1>4, <3>1, <3>2, <4>1, ProgramReads
    <3> QED
      BY <3>3, <3>4
  <2> QED
    BY <1>15, <2>1, <2>2, <2>3 DEF ParseProgram
<1>16. CASE ParseEnds
  <2>1. /\ fn = "parse" /\ Skipped(rest) = <<>> /\ fn' = "exit" /\ handle /\ symTable
        /\ source' = source /\ status' = status
    BY <1>16 DEF ParseEnds, Goto, tables, process
  <2>2. AtTop(source, rest, runDeclared) /\ status = 0
    BY <2>1 DEF Parsing, Fresh
  <2>3. InLanguage(source)
    BY <1>0, <2>1, <2>2, TopEnds
  <2> QED
    BY <1>1, <2>1, <2>2, <2>3 DEF Judged
<1>17. CASE TopLevelKeyword
  <2>1. fn = "parse" /\ handle /\ symTable
    BY <1>17 DEF TopLevelKeyword, Fail, tables, process
  <2>2. AtTop(source, rest, runDeclared)
    BY <2>1 DEF Parsing
  <2>3. CASE Fail /\ Next1(Skipped(rest)) \notin {"name", "EOF"}
    BY <1>0, <1>3, <2>2, <2>3, TopFails
  <2>4. CASE /\ Next1(Skipped(rest)) = "name" /\ rest' = Tail(Skipped(rest))
             /\ StartSearch(topLevelKeyword, Skipped(rest)[1].name)
             /\ UNCHANGED <<source, tables, process>>
    <3>1. AtWord(source, Read(rest), Ahead(rest), runDeclared)
      BY <1>0, <2>2, <2>4, TopName
    <3>2. /\ fn' = "search" /\ table' = topLevelKeyword /\ ident' = Ahead(rest)
          /\ rest' = Read(rest) /\ source' = source /\ runDeclared' = runDeclared
      BY <2>4 DEF StartSearch, Goto, Read, Ahead, process
    <3> QED
      BY <1>5, <3>1, <3>2
  <2> QED
    BY <1>17, <2>3, <2>4 DEF TopLevelKeyword
<1>18. CASE Probe \/ NotFound
  <2>1. /\ fn = "search" /\ handle /\ symTable
        /\ UNCHANGED <<source, rest, ident, table, runDeclared>>
        /\ fn' \in {"search", Returns}
    BY <1>18 DEF Probe, NotFound, Goto, input, search, tables, process
  <2>2. table \in {topLevelKeyword, baseTypeName}
    BY <2>1 DEF Inv, Bracket
  <2>3. CASE table = topLevelKeyword
    <3>1. AtWord(source, rest, ident, runDeclared)
      BY <2>1, <2>3 DEF Parsing, Lookup
    <3>2. fn' \in {"search", "declare"}
      BY <2>1, <2>3 DEF Returns
    <3> QED
      BY <1>5, <2>1, <2>3, <3>1, <3>2
  <2>4. CASE table = baseTypeName
    <3>1. ~InLanguage(source)
      BY <2>1, <2>4 DEF Parsing, Lost
    <3>2. fn' \in {"search", "dimension"}
      BY <2>1, <2>4, Different DEF Returns
    <3>3. Lost'
      BY <2>1, <2>4, <3>2 DEF Lost
    <3> QED
      BY <1>10, <2>1, <3>1, <3>3
  <2> QED
    BY <2>2, <2>3, <2>4
<1>19. CASE Declare
  <2>1. fn = "declare" /\ handle /\ symTable
    BY <1>19 DEF Declare, Fail, tables, process
  <2>2. table = topLevelKeyword /\ AtWord(source, rest, ident, runDeclared) /\ status = 0
    BY <2>1 DEF Parsing, Lookup, Fresh
  <2>3. token = IF In(topLevelKeyword, ident) THEN ident ELSE NoName
    BY <2>1, <2>2 DEF Inv, KeywordFound
  <2>4. ~In(topLevelKeyword, NoName)
    <3>1. Len(topLevelKeyword) = 13 /\ \A i \in 1 .. 13 : topLevelKeyword[i] \in Nat \ {0}
      BY Sorted, ElementOfSeq
    <3> QED
      BY <3>1 DEF In, NoName
  <2>5. token = NoName <=> ~In(topLevelKeyword, ident)
    BY <2>3, <2>4
  <2>6. CASE /\ token = NoName /\ rest = <<>> /\ fn' = "exit"
             /\ UNCHANGED <<input, search, tables, process>>
    <3>1. InLanguage(source)
      BY <1>0, <2>2, <2>5, <2>6, WordEnds
    <3>2. status' = 0 /\ source' = source
      BY <2>2, <2>6 DEF input, process
    <3> QED
      BY <1>1, <2>6, <3>1, <3>2 DEF Judged
  <2>7. CASE token # Run /\ (token = NoName => rest # <<>>) /\ Fail
    <3>1. ident # Run
      BY <2>3, <2>7, NamesDiffer
    <3>2. ~InLanguage(source)
      BY <1>0, <2>2, <2>5, <2>7, <3>1, WordFails
    <3> QED
      BY <1>3, <2>7, <3>2
  <2>8. CASE token = Run /\ fn' = "run" /\ UNCHANGED <<input, search, tables, process>>
    <3>1. ident = Run
      BY <2>3, <2>8, NamesDiffer
    <3>2. UNCHANGED <<source, rest, ident, table, token, runDeclared>>
      BY <2>8 DEF input, search, process
    <3> QED
      BY <1>5, <2>2, <2>8, <3>1, <3>2
  <2> QED
    BY <1>19, <2>6, <2>7, <2>8 DEF Declare, Goto
<1>20. CASE RunRefused \/ ParseRun
  <2>1. fn = "run" /\ handle /\ symTable
    BY <1>20 DEF RunRefused, ParseRun, Fail, Create, tables, process
  <2>2. /\ AtWord(source, rest, Run, runDeclared) /\ token = Run /\ ~localTable
        /\ runDeclared \in BOOLEAN
    BY <2>1 DEF Parsing, Lookup, Inv, LocalTableScope, InParse, TypeOK
  <2>3. ASSUME runDeclared PROVE ~InLanguage(source)
    <3>1. In(topLevelKeyword, Run)
      BY NamesDiffer
    <3> QED
      BY <1>0, <2>2, <2>3, <3>1, WordFails
  <2>4. ASSUME ~runDeclared
        PROVE  VarsRead(source, 0) /\ At(source, rest, 3 + 2*0)
    <3>1. runDeclared = FALSE
      BY <2>2, <2>4
    <3>2. AtWord(source, rest, Run, FALSE)
      BY <2>2, <3>1
    <3>3. VarsRead(source, 0) /\ At(source, rest, 3)
      BY <1>0, <3>2, RunRead
    <3>4. 3 + 2*0 = 3
      OBVIOUS
    <3> QED
      BY <3>3, <3>4, Zenon
  <2>5. CASE RunRefused
    <3>1. /\ fn' = "exit" /\ status' = 1 /\ UNCHANGED <<source, token, runDeclared, localTable>>
      BY <2>5 DEF RunRefused, Fail, Goto, input, search, tables
    <3>2. Judged(source', status', token', runDeclared', localTable')
      BY <2>2, <2>3, <3>1 DEF Judged
    <3> QED
      BY <1>1, <3>1, <3>2
  <2>6. CASE ParseRun
    <3>1. CASE fn' = "exit" /\ status' = 1 /\ (runDeclared \/ NoNameAhead(rest))
               /\ UNCHANGED <<input, search, handle>>
      <4>1. ~InLanguage(source)
        BY <1>0, <2>3, <2>4, <3>1, VarsFail DEF NoNameAhead
      <4> QED
        BY <1>2, <3>1, <4>1 DEF input
    <3>2. CASE ~runDeclared /\ ReadName(rest, "block")
      <4>1. /\ Next1(Skipped(rest)) = "name" /\ ident' = Ahead(rest) /\ rest' = Read(rest)
            /\ fn' = "block" /\ source' = source
        BY <3>2, ReadNameIs
      <4>2. InBlock(source, Read(rest), Ahead(rest))
        BY <1>0, <2>4, <3>2, <4>1, VarsName
      <4> QED
        BY <1>6, <4>1, <4>2
    <3> QED
      BY <2>6, <3>1, <3>2 DEF ParseRun, Goto
  <2> QED
    BY <1>20, <2>5, <2>6
<1>21. CASE Block
  <2>1. fn = "block" /\ handle /\ symTable /\ UNCHANGED <<source, rest, ident>>
        /\ fn' = IF ident = Var THEN "localVar" ELSE "statements"
    BY <1>21 DEF Block, Goto, input, search, tables, process
  <2>2. InBlock(source, rest, ident)
    BY <2>1 DEF Parsing
  <2>3. CASE ident = Var
    BY <1>7, <2>1, <2>2, <2>3
  <2>4. CASE ident # Var
    <3>1. InStatements(source, rest, ident)
      BY <1>0, <2>2, <2>4, FirstStatement
    <3> QED
      BY <1>9, <2>1, <2>4, <3>1
  <2> QED
    BY <2>3, <2>4
<1>22. CASE LocalVar
  <2>1. fn = "localVar" /\ handle /\ symTable
    BY <1>22 DEF LocalVar, tables, process
  <2>2. InBlock(source, rest, Var)
    BY <2>1 DEF Parsing
  <2>3. CASE ReadName(rest, IF ident' = End THEN "afterVar" ELSE "typeSpec")
    <3>1. /\ Next1(Skipped(rest)) = "name" /\ ident' = Ahead(rest) /\ rest' = Read(rest)
          /\ fn' = (IF ident' = End THEN "afterVar" ELSE "typeSpec") /\ source' = source
      BY <2>3, ReadNameIs
    <3>2. CASE ident' = End
      <4>1. PastVars(source, Read(rest))
        BY <1>0, <2>2, <3>1, <3>2, VarEnds
      <4> QED
        BY <1>8, <3>1, <3>2, <4>1
    <3>3. CASE ident' # End
      <4>1. ~InLanguage(source)
        BY <1>0, <2>2, <3>1, <3>3, VarFails
      <4>2. Lost'
        BY <3>1, <3>3 DEF Lost
      <4> QED
        BY <1>10, <3>1, <4>1, <4>2
    <3> QED
      BY <3>2, <3>3
  <2>4. CASE NoNameAhead(rest) /\ fn' = "typeSpec" /\ source' = source
    <3>1. ~InLanguage(source)
      BY <1>0, <2>2, <2>4, VarFails DEF NoNameAhead
    <3>2. Lost'
      BY <2>4 DEF Lost
    <3> QED
      BY <1>10, <2>4, <3>1, <3>2
  <2> QED
    BY <1>22, <2>3, <2>4 DEF LocalVar, Goto
<1>23. CASE TypeSpec \/ Dimension \/ Declarator
  <2>1. /\ fn \in {"typeSpec", "dimension", "declarators"} /\ handle /\ symTable
        /\ source' = source
    BY <1>23 DEF TypeSpec, Dimension, Declarator, Fail, input, tables, process
  <2>2. ~InLanguage(source)
    BY <2>1 DEF Parsing, Lost
  <2>3. CASE TypeSpec
    <3>1. fn' = "search" /\ table' = baseTypeName
      BY <2>3 DEF TypeSpec, StartSearch, Goto
    <3>2. Lost'
      BY <3>1 DEF Lost
    <3> QED
      BY <1>10, <2>1, <2>2, <3>2
  <2>4. CASE fn' = "declarators"
    <3>1. Lost'
      BY <2>4 DEF Lost
    <3> QED
      BY <1>10, <2>1, <2>2, <3>1
  <2>5. CASE fn' = "afterVar" /\ rest' = <<>>
    BY <1>8, <2>1, <2>2, <2>5 DEF PastVars
  <2>6. CASE Fail
    BY <1>3, <2>2, <2>6
  <2> QED
    BY <1>23, <2>3, <2>4, <2>5, <2>6 DEF Dimension, Declarator, Goto
<1>24. CASE AfterVar
  <2>1. fn = "afterVar" /\ handle /\ symTable
    BY <1>24 DEF AfterVar, Fail, tables, process
  <2>2. PastVars(source, rest)
    BY <2>1 DEF Parsing
  <2>3. CASE ReadName(rest, "block")
    <3>1. /\ Next1(Skipped(rest)) = "name" /\ ident' = Ahead(rest) /\ rest' = Read(rest)
          /\ fn' = "block" /\ source' = source
      BY <2>3, ReadNameIs
    <3>2. rest # <<>>
      BY <3>1 DEF Skipped, Next1
    <3>3. PICK k \in Nat : VarsRead(source, k) /\ At(source, rest, 3 + 2*k)
      BY <2>2, <3>2 DEF PastVars
    <3>4. InBlock(source, Read(rest), Ahead(rest))
      BY <1>0, <3>1, <3>3, VarsName
    <3> QED
      BY <1>6, <3>1, <3>4
  <2>4. CASE NoNameAhead(rest) /\ Fail
    <3>1. ~InLanguage(source)
      BY <1>0, <2>2, <2>4, VarsFail DEF PastVars, NoNameAhead
    <3> QED
      BY <1>3, <2>4, <3>1
  <2> QED
    BY <1>24, <2>3, <2>4 DEF AfterVar
<1>25. CASE EndOfRun
  <2>1. /\ fn = "statements" /\ ident = End /\ handle /\ symTable /\ fn' = "parse"
        /\ UNCHANGED <<source, rest, runDeclared>>
    BY <1>25 DEF EndOfRun, FreeLocal, Goto, input, process
  <2>2. InStatements(source, rest, End) /\ runDeclared = TRUE
    BY <2>1 DEF Parsing, Inv, LocalTableScope, InRun, TypeOK
  <2>3. AtTop(source, rest, TRUE)
    BY <1>0, <2>2, StatementsEnd
  <2> QED
    BY <1>4, <2>1, <2>2, <2>3
<1>26. CASE Statement
  <2>1. fn = "statements" /\ ident # End /\ handle /\ symTable
    BY <1>26 DEF Statement, Fail, FreeLocal, tables, process
  <2>2. InStatements(source, rest, ident) /\ runDeclared = TRUE
    BY <2>1 DEF Parsing, Inv, LocalTableScope, InRun, TypeOK
  <2>3. CASE ReadName(rest, IF rest' = <<>> THEN "parse" ELSE "statements") /\ UNCHANGED process
    <3>1. /\ Next1(Skipped(rest)) = "name" /\ ident' = Ahead(rest) /\ rest' = Read(rest)
          /\ fn' = (IF rest' = <<>> THEN "parse" ELSE "statements") /\ source' = source
          /\ runDeclared' = TRUE
      BY <2>2, <2>3, ReadNameIs DEF process
    <3>2. IF Read(rest) = <<>> THEN AtTop(source, Read(rest), TRUE)
          ELSE InStatements(source, Read(rest), Ahead(rest))
      BY <1>0, <2>1, <2>2, <3>1, StatementMore
    <3>3. CASE rest' = <<>>
      BY <1>4, <3>1, <3>2, <3>3
    <3>4. CASE rest' # <<>>
      BY <1>9, <3>1, <3>2, <3>4
    <3> QED
      BY <3>3, <3>4
  <2>4. CASE NoNameAhead(rest) /\ Fail
    <3>1. ~InLanguage(source)
      BY <1>0, <2>1, <2>2, <2>4, StatementFails DEF NoNameAhead
    <3> QED
      BY <1>3, <2>4, <3>1
  <2> QED
    BY <1>26, <2>3, <2>4 DEF Statement
<1> QED
  BY <1>12, <1>13, <1>14, <1>15, <1>16, <1>17, <1>18, <1>19, <1>20, <1>21, <1>22, <1>23,
     <1>24, <1>25, <1>26 DEF Next

(* The first word of a file read where program should stand.               *)
LEMMA FirstRead ==
  ASSUME NEW s \in Sources, Next1(Skipped(s)) = "name"
  PROVE  FirstWord(s, Read(s), Ahead(s))
<1> DEFINE c == 0  d == c+1
<1>1. Left(s, s, c) /\ d = 1
  BY NothingRead
<1>2. Skipped(s) # <<>> /\ Skipped(s)[1].kind = "name"
  BY DEF Next1
<1>3. /\ Skipped(s)[1] = NoBlanks(s)[1] /\ Left(s, Read(s), 1) /\ Len(NoBlanks(s)) # 0
  BY <1>2, ProgramAhead DEF Read
<1> HIDE DEF c
<1>4. c # Len(NoBlanks(s)) =>
        (Tail(Skipped(s)) = <<>> <=> c+1 = Len(NoBlanks(s)) /\ ~EndsInBlank(s))
  BY <1>1, WordAhead
<1>5. c # Len(NoBlanks(s)) => (Read(s) = <<>> <=> d = Len(NoBlanks(s)) /\ ~EndsInBlank(s))
  BY <1>4 DEF Read
<1> HIDE DEF d
<1>6. Read(s) = <<>> <=> Len(NoBlanks(s)) = 1 /\ ~EndsInBlank(s)
  BY <1>1, <1>3, <1>5 DEF c
<1>7. NoBlanks(s) # <<>>
  BY <1>3, EmptySeq
<1>8. NoBlanks(s)[1] = Name(Ahead(s))
  <2>1. NoBlanks(s) \in Seq(Lexemes) /\ Len(NoBlanks(s)) \in Nat
    BY SolidType
  <2>2. NoBlanks(s)[1] \in Lexemes
    BY <1>3, <2>1, ElementOfSeq
  <2> QED
    BY <1>2, <1>3, <2>2, LexemeIs DEF Ahead
<1> QED
  BY <1>3, <1>6, <1>7, <1>8 DEF FirstWord

(* A single word that a file of no blanks ends in is loose.                *)
LEMMA OneLoose ==
  ASSUME NEW s \in Sources, NEW x, NoBlanks(s)[1] = Name(x), Len(NoBlanks(s)) = 1,
         ~EndsInBlank(s), ~In(topLevelKeyword, x)
  PROVE  LooseWord(s)
<1>1. s # <<>>
  <2>1. s = <<>> => Len(s) = 0
    BY EmptySeq
  <2>2. CountTo(Solid(s), 0) = 0 /\ CountTo(Solid(s), Len(s)) = Len(NoBlanks(s))
    BY SolidType
  <2> QED
    BY <2>1, <2>2
<1>2. s[Len(s)] # Blank
  BY <1>1 DEF EndsInBlank
<1>3. s[Len(s)] = NoBlanks(s)[1]
  BY <1>1, <1>2, LastLexeme
<1> QED
  BY <1>1, <1>3, NamesDiffer DEF LooseWord

(* Every step keeps what is known of a parser that has no symbol table.    *)
LEMMA TablelessStep ==
  ASSUME Inv, Fresh, Tableless, [Next]_vars
  PROVE  Tableless'
<1> SUFFICES ASSUME handle', ~symTable' PROVE Tableless'
  BY DEF Tableless
<1>0. source \in Sources
  BY DEF Fresh
<1>1. ASSUME fn' = "exit", status' = 1
      PROVE  Tableless'
  BY <1>1 DEF Tableless, InRun
<1>2. ASSUME Fail
      PROVE  Tableless'
  BY <1>1, <1>2 DEF Fail, Goto
<1>3. ASSUME fn' \in {"program", "ended"}
      PROVE  Tableless'
  BY <1>3 DEF Tableless, InRun
<1>4. CASE UNCHANGED vars
  <2>1. UNCHANGED <<source, rest, fn, ident, table, symTable, handle, status>>
    BY <1>4 DEF vars, input, search, tables, process
  <2> QED
    BY <2>1 DEF Tableless
<1>5. CASE Open \/ OpenFails \/ Cleanup
  BY <1>2, <1>3, <1>5 DEF Open, OpenFails, Cleanup, Goto
<1>6. CASE ParseProgram
  <2>1. symTable' = symTable /\ fn = "program"
    BY <1>6 DEF ParseProgram, Fail, tables
  <2>2. fn' = "parse" /\ UNCHANGED <<source, rest>> /\ rest = source
    BY <1>6, <2>1 DEF ParseProgram, Goto, input, Fresh
  <2> QED
    BY <2>2 DEF Tableless, InRun
<1>7. CASE ParseEnds
  <2>0. /\ fn = "parse" /\ Skipped(rest) = <<>> /\ fn' = "exit" /\ source' = source
        /\ UNCHANGED <<handle, symTable>>
    BY <1>7 DEF ParseEnds, Goto, tables, process
  <2>1. /\ fn = "parse" /\ Skipped(rest) = <<>> /\ fn' = "exit" /\ handle /\ ~symTable
        /\ source' = source
    BY <2>0
  <2>2. Skipped(source) = <<>>
    BY <2>1 DEF Tableless
  <2>3. Len(NoBlanks(source)) = 0 /\ NoBlanks(source) \in Seq(Lexemes)
    BY <1>0, <2>2, ProgramAhead, SolidType
  <2>4. NoBlanks(source) = <<>>
    BY <2>3, EmptySeq
  <2> QED
    BY <2>1, <2>4 DEF Tableless, NothingMuch, InRun
<1>8. CASE TopLevelKeyword
  <2>0. fn = "parse" /\ UNCHANGED <<handle, symTable>>
    BY <1>8 DEF TopLevelKeyword, Fail, tables, process
  <2>1. fn = "parse" /\ handle /\ ~symTable
    BY <2>0
  <2>2. rest = source
    BY <2>1 DEF Tableless
  <2>3. CASE /\ Next1(Skipped(source)) = "name"
             /\ StartSearch(topLevelKeyword, Skipped(source)[1].name)
             /\ rest' = Tail(Skipped(source)) /\ UNCHANGED <<source, tables, process>>
    <3>1. /\ fn' = "search" /\ table' = topLevelKeyword /\ source' = source
          /\ ident' = Ahead(source) /\ rest' = Read(source)
      BY <2>3 DEF StartSearch, Goto, Ahead, Read
    <3>2. FirstWord(source, Read(source), Ahead(source))
      BY <1>0, <2>3, FirstRead
    <3> QED
      BY <3>1, <3>2 DEF Tableless, InRun
  <2> QED
    BY <1>2, <1>8, <2>2, <2>3 DEF TopLevelKeyword
<1>9. CASE Probe \/ NotFound
  <2>0. /\ fn = "search" /\ UNCHANGED <<source, rest, ident, table, handle, symTable>>
        /\ fn' \in {"search", Returns}
    BY <1>9 DEF Probe, NotFound, Goto, input, search, tables, process
  <2>1. handle /\ ~symTable
    BY <2>0
  <2>2. table = topLevelKeyword /\ FirstWord(source, rest, ident)
    BY <2>0, <2>1 DEF Tableless
  <2>3. fn' \in {"search", "declare"}
    BY <2>0, <2>2 DEF Returns
  <2> QED
    BY <2>0, <2>2, <2>3 DEF Tableless, InRun
<1>10. CASE Declare
  <2>0. fn = "declare" /\ UNCHANGED <<handle, symTable>>
    BY <1>10 DEF Declare, Fail, tables, process
  <2>1. fn = "declare" /\ handle /\ ~symTable
    BY <2>0
  <2>2. table = topLevelKeyword /\ FirstWord(source, rest, ident)
    BY <2>1 DEF Tableless
  <2>3. token = IF In(topLevelKeyword, ident) THEN ident ELSE NoName
    BY <2>1, <2>2 DEF Inv, KeywordFound
  <2>4. CASE /\ token = NoName /\ rest = <<>> /\ fn' = "exit"
             /\ UNCHANGED <<input, search, tables, process>>
    <3>1. ~In(topLevelKeyword, ident)
      <4>1. ~In(topLevelKeyword, NoName)
        <5>1. Len(topLevelKeyword) = 13 /\ \A i \in 1 .. 13 : topLevelKeyword[i] \in Nat \ {0}
          BY Sorted, ElementOfSeq
        <5> QED
          BY <5>1 DEF In, NoName
      <4> QED
        BY <2>3, <2>4, <4>1
    <3>2. NothingMuch(source)
      BY <1>0, <2>2, <2>4, <3>1, OneLoose DEF FirstWord, NothingMuch
    <3>3. source' = source
      BY <2>4 DEF input
    <3> QED
      BY <2>4, <3>2, <3>3 DEF Tableless, InRun
  <2>5. CASE fn' = "run" /\ UNCHANGED <<input, search, tables, process>>
    BY <2>2, <2>5 DEF Tableless, InRun, search
  <2> QED
    BY <1>2, <1>10, <2>4, <2>5 DEF Declare, Goto
<1>11. CASE RunRefused
  BY <1>2, <1>11 DEF RunRefused
<1>12. CASE ParseRun
  BY <1>12 DEF ParseRun, Create
<1>13. CASE \/ Block \/ LocalVar \/ TypeSpec \/ Dimension
            \/ Declarator \/ AfterVar \/ EndOfRun \/ Statement
  <2>1. fn \in InRun /\ handle' = handle /\ symTable' = symTable
    BY <1>13 DEF Block, LocalVar, TypeSpec, Dimension, Declarator, AfterVar, EndOfRun,
       Statement, Fail, FreeLocal, tables, process, InRun
  <2> QED
    BY <2>1 DEF Tableless
<1> QED
  BY <1>4, <1>5, <1>6, <1>7, <1>8, <1>9, <1>10, <1>11, <1>12, <1>13 DEF Next

LEMMA Places == Spec => [](Fresh /\ Parsing /\ Tableless)
<1>1. Init => Fresh /\ Parsing /\ Tableless
  BY DEF Init, Fresh, Parsing, Tableless
<1>2. Inv /\ (Fresh /\ Parsing /\ Tableless) /\ [Next]_vars => (Fresh /\ Parsing /\ Tableless)'
  BY FreshStep, ParsingStep, TablelessStep
<1> QED
  BY <1>1, <1>2, Invariance, PTL DEF Spec

-----------------------------------------------------------------------------
(* Empty var blocks are var blocks, so a run block that is closed is one   *)
(* of the documented kind.                                                 *)
LEMMA ClosedBlock ==
  ASSUME NEW w, Len(w) \in Nat, ProgramIdent(w), NEW k \in Nat, EmptyVars(w, k),
         w[3] = Name(Run), 4 + 2*k <= Len(w), w[4 + 2*k] # Name(Var),
         \A i \in 4 + 2*k .. Len(w)-1 : w[i].kind = "name" /\ w[i] # Name(End),
         w[Len(w)] = Name(End)
  PROVE  Documented(w)
<1> DEFINE first == 4 + 2*k
<1>1. first \in 4 .. Len(w) /\ first \in Nat
  OBVIOUS
<1>2. RunFrom(w, first)
  BY <1>1 DEF RunFrom
<1>3. VarBlocks(w, first)
  <2> SUFFICES ASSUME first > 4
               PROVE  /\ w[4] = Name(Var) /\ w[first-1] = Name(End)
                      /\ \A i \in 4 .. first-2 : w[i] = Name(End) <=> w[i+1] = Name(Var)
    BY DEF VarBlocks
  <2>1. \A j \in Nat : j < k => w[4 + 2*j] = Name(Var) /\ w[5 + 2*j] = Name(End)
    BY DEF EmptyVars
  <2>2. k >= 1 /\ 4 + 2*0 = 4 /\ 5 + 2*(k-1) = first-1
    OBVIOUS
  <2>3. w[4] = Name(Var) /\ w[first-1] = Name(End)
    <3>1. w[4 + 2*0] = Name(Var)
      <4>1. 0 \in Nat /\ 0 < k
        BY <2>2
      <4> QED
        BY <2>1, <4>1, Zenon
    <3>2. w[5 + 2*(k-1)] = Name(End)
      <4>1. k-1 \in Nat /\ k-1 < k
        BY <2>2
      <4> QED
        BY <2>1, <4>1
    <3> QED
      BY <2>2, <3>1, <3>2
  <2>4. ASSUME NEW i \in 4 .. first-2
        PROVE  w[i] = Name(End) <=> w[i+1] = Name(Var)
    <3> DEFINE j == (i - 4) \div 2
    <3>0. i \in Nat /\ 4 <= i /\ i <= 2 + 2*k
      BY <1>1, <2>4
    <3>1. j \in Nat /\ j < k /\ i \in Nat /\ (i = 4 + 2*j \/ i = 5 + 2*j)
      BY <3>0
    <3> HIDE DEF j
    <3>2. w[4 + 2*j] = Name(Var) /\ w[5 + 2*j] = Name(End)
      BY <2>1, <3>1
    <3>3. CASE i = 4 + 2*j
      <4>1. i+1 = 5 + 2*j
        BY <3>1, <3>3
      <4> QED
        BY <3>2, <3>3, <4>1, NamesDiffer
    <3>4. CASE i = 5 + 2*j
      <4>1. j+1 \in Nat /\ j+1 < k /\ i+1 = 4 + 2*(j+1)
        BY <3>0, <3>1, <3>4
      <4>2. w[4 + 2*(j+1)] = Name(Var)
        BY <2>1, <4>1
      <4> QED
        BY <3>2, <3>4, <4>1, <4>2
    <3> QED
      BY <3>1, <3>3, <3>4
  <2> QED
    BY <2>3, <2>4
<1> QED
  BY <1>1, <1>2, <1>3 DEF Documented

(* A run block that ends in end is documented, up to that end; one that    *)
(* lacks it is, once it has been given one.                                *)
LEMMA BlockDocumented ==
  ASSUME NEW s \in Sources, Header(s), NEW n \in Nat, 3 <= n, n <= Len(Words(s)), RunBlock(s, n)
  PROVE  IF Words(s)[n] = Name(End)
         THEN Documented(SubSeq(Words(s), 1, n))
         ELSE ~EndsInBlank(s) /\ Documented(Append(SubSeq(Words(s), 1, n), Name(End)))
<1> DEFINE w == SubSeq(Words(s), 1, n)
           v == Append(w, Name(End))
<1>1. Words(s) \in Seq(Lexemes) /\ Len(Words(s)) \in Nat
  BY WordsAre
<1>2. w \in Seq(Lexemes) /\ Len(w) = n /\ \A i \in 1 .. n : w[i] = Words(s)[i]
  <2>1. 1 \in Int /\ n \in Int /\ \A i \in 1 .. n : Words(s)[i] \in Lexemes
    BY <1>1, ElementOfSeq
  <2> QED
    BY <1>1, <2>1, SubSeqProperties
<1> HIDE DEF w
<1>3. Name(End) \in Lexemes
  BY DEF Name, Lexemes, Kinds, End
<1>4. v \in Seq(Lexemes) /\ Len(v) = n+1 /\ v[n+1] = Name(End)
      /\ \A i \in 1 .. n : v[i] = Words(s)[i]
  BY <1>2, <1>3, AppendProperties
<1> HIDE DEF v
<1>5. PICK k \in 0 .. n : Body(s, n, k) /\ Words(s)[3] = Name(Run) /\ AllNames(s, 4, n)
  BY RunBlockIs
<1> DEFINE f == 4 + 2*k
<1>6. /\ k \in Nat /\ f \in 4 .. n /\ EmptyVars(Words(s), k) /\ Words(s)[f] # Name(Var)
      /\ \A i \in f .. n-1 : Words(s)[i] # Name(End)
      /\ \A i \in f .. n : Words(s)[i].kind = "name"
      /\ Words(s)[n] # Name(End) => ~EndsInBlank(s)
  BY <1>5 DEF Body, AllNames
<1>7. ASSUME NEW u, Len(u) \in Nat, n <= Len(u), \A i \in 1 .. n : u[i] = Words(s)[i]
      PROVE  /\ ProgramIdent(u) /\ EmptyVars(u, k) /\ u[3] = Name(Run)
             /\ u[f] = Words(s)[f] /\ \A i \in f .. n : u[i] = Words(s)[i]
  <2>1. /\ 1 \in 1 .. n /\ 2 \in 1 .. n /\ 3 \in 1 .. n /\ f \in 1 .. n
        /\ \A i \in f .. n : i \in 1 .. n
        /\ \A j \in 0 .. k-1 : 4 + 2*j \in 1 .. n /\ 5 + 2*j \in 1 .. n
    BY <1>6
  <2>2. ProgramIdent(u)
    BY <1>7, <2>1 DEF ProgramIdent, Header
  <2>3. EmptyVars(u, k)
    BY <1>6, <1>7, <2>1 DEF EmptyVars
  <2> QED
    BY <1>5, <1>7, <2>1, <2>2, <2>3
<1>8. CASE Words(s)[n] = Name(End)
  <2>1. /\ ProgramIdent(w) /\ EmptyVars(w, k) /\ w[3] = Name(Run) /\ w[f] # Name(Var)
        /\ \A i \in f .. n-1 : w[i].kind = "name" /\ w[i] # Name(End)
        /\ w[n] = Name(End)
    BY <1>2, <1>6, <1>7, <1>8
  <2>2. Documented(w)
    <3>1. Len(w) \in Nat /\ f <= Len(w) /\ Len(w) = n
      BY <1>2, <1>6
    <3> QED
      BY <1>6, <2>1, <3>1, ClosedBlock
  <2> QED
    BY <1>8, <2>2 DEF w
<1>9. CASE Words(s)[n] # Name(End)
  <2>1. /\ ProgramIdent(v) /\ EmptyVars(v, k) /\ v[3] = Name(Run) /\ v[f] # Name(Var)
        /\ \A i \in f .. n : v[i].kind = "name" /\ v[i] # Name(End)
    BY <1>4, <1>6, <1>7, <1>9
  <2>2. Documented(v)
    <3>1. Len(v) \in Nat /\ f <= Len(v) /\ Len(v)-1 = n /\ v[Len(v)] = Name(End)
      BY <1>4, <1>6
    <3> QED
      BY <1>6, <2>1, <3>1, ClosedBlock
  <2> QED
    BY <1>6, <1>9, <2>2 DEF v, w
<1> QED
  BY <1>8, <1>9

LEMMA AcceptedIsDocumented ==
  ASSUME NEW s \in Sources, InLanguage(s)
  PROVE  \/ Documented(Words(s))
         \/ ~EndsInBlank(s) /\ Documented(Append(Words(s), Name(End)))
         \/ LooseWord(s) /\ Documented(SubSeq(Words(s), 1, Len(Words(s))-1))
<1> DEFINE w == Words(s)
           n == Len(w)
<1>1. w \in Seq(Lexemes) /\ n \in Nat /\ n >= 2 /\ Header(s) /\ ProgramIdent(w)
  BY WordsAre DEF InLanguage, Header, ProgramIdent
<1>2. SubSeq(w, 1, n) = w
  BY <1>1, SubSeqFull
<1>3. CASE n = 2
  BY <1>1, <1>3 DEF Documented
<1>4. CASE RunBlock(s, n)
  <2>1. 3 <= n /\ n <= Len(Words(s))
    BY <1>1, <1>4, RunBlockIs DEF Body
  <2>2. IF w[n] = Name(End)
        THEN Documented(SubSeq(w, 1, n))
        ELSE ~EndsInBlank(s) /\ Documented(Append(SubSeq(w, 1, n), Name(End)))
    BY <1>1, <1>4, <2>1, BlockDocumented
  <2> HIDE DEF n
  <2> QED
    BY <1>2, <2>2
<1>5. CASE LooseWord(s) /\ n = 3
  <2>1. LET u == SubSeq(w, 1, 2) IN Len(u) = 2 /\ u[1] = w[1] /\ u[2] = w[2]
    <3>1. 1 \in Int /\ 2 \in Int /\ \A i \in 1 .. 2 : w[i] \in Lexemes
      BY <1>1, <1>5, ElementOfSeq
    <3>2. /\ Len(SubSeq(w, 1, 2)) = 2
          /\ \A i \in 1 .. 2 : SubSeq(w, 1, 2)[i] = w[i]
      BY <1>1, <3>1, SubSeqProperties
    <3> QED
      BY <3>2
  <2>2. n-1 = 2
    BY <1>5
  <2> HIDE DEF n, w
  <2> QED
    BY <1>1, <1>5, <2>1, <2>2 DEF Documented, ProgramIdent, n, w
<1>6. CASE LooseWord(s) /\ w[n-1] = Name(End) /\ RunBlock(s, n-1)
  <2>1. n-1 \in Nat /\ 3 <= n-1 /\ n-1 <= n
    BY <1>1, <1>6, RunBlockIs DEF Body
  <2> QED
    BY <1>1, <1>6, <2>1, BlockDocumented
<1> QED
  BY <1>3, <1>4, <1>5, <1>6 DEF InLanguage

LEMMA DocumentedIsAccepted ==
  ASSUME NEW s \in Sources, WithoutVariables(Words(s))
  PROVE  InLanguage(s)
<1> DEFINE w == Words(s)
           n == Len(w)
<1>1. n \in Nat /\ Header(s)
  BY WordsAre DEF WithoutVariables, ProgramIdent, Header
<1>2. CASE n = 2
  BY <1>1, <1>2 DEF InLanguage, Header
<1>3. CASE \E k \in 0 .. n : RunFrom(w, 4 + 2*k) /\ EmptyVars(w, k)
  <2>1. PICK k \in 0 .. n : RunFrom(w, 4 + 2*k) /\ EmptyVars(w, k)
    BY <1>3
  <2>2. k \in Nat /\ 4 + 2*k <= n /\ VarsRead(s, k)
    BY <1>1, <2>1 DEF RunFrom, VarsRead
  <2>3. Body(s, n, k)
    BY <2>1, <2>2 DEF RunFrom, Body
  <2>4. AllNames(s, 4 + 2*k, n)
    <3>1. \A i \in 4 + 2*k .. n-1 : w[i].kind = "name"
      BY <2>1 DEF RunFrom
    <3>2. w[n].kind = "name"
      BY <2>1, NamesDiffer DEF RunFrom
    <3> QED
      BY <1>1, <2>2, <3>1, <3>2 DEF AllNames
  <2>5. RunBlock(s, n)
    BY <1>1, <2>2, <2>3, <2>4, BlockOf
  <2> QED
    BY <1>1, <2>5 DEF InLanguage, Header
<1> QED
  BY <1>2, <1>3 DEF WithoutVariables

(* The parser of origoref.c (Parse and all it calls) accepts only what the *)
(* comments of its functions describe, but for what it forgives at the end *)
(* of a file, and all of that which declares no variables; for files of    *)
(* any length.                                                             *)
THEOREM LanguageAccepted == Spec => []AcceptedAsDocumented
<1>1. Inv /\ Fresh /\ Parsing => AcceptedAsDocumented
  <2> SUFFICES ASSUME Fresh, Parsing, fn = "exit", handle, symTable
               PROVE  LET w == Words(source)
                      IN /\ status = 0 =>
                              \/ Documented(w)
                              \/ ~EndsInBlank(source) /\ Documented(Append(w, Name(End)))
                              \/ LooseWord(source) /\ Documented(SubSeq(w, 1, Len(w)-1))
                         /\ WithoutVariables(w) => status = 0 \/ NoLocalTable
    BY DEF AcceptedAsDocumented
  <2>1. source \in Sources /\ Judged(source, status, token, runDeclared, localTable)
    BY DEF Fresh, Parsing
  <2> QED
    BY <2>1, AcceptedIsDocumented, DocumentedIsAccepted DEF Judged, NoLocalTable
<1> QED
  BY <1>1, Places, Invariance, PTL

(* Without the symbol table that main does not test for, no file passes    *)
(* that has more in it than one unknown word.                              *)
THEOREM MissingTableNoticed == Spec => []MissingTableReported
<1>1. Tableless => MissingTableReported
  BY DEF Tableless, NothingMuch, MissingTableReported
<1> QED
  BY <1>1, Places, PTL
=============================================================================
