----------------------------- MODULE RefParser -----------------------------
(***************************************************************************)
(* The recursive descent parser of origoref.c (1022-1456) from OpenRet to  *)
(* Cleanup.  Its input is a sequence of lexemes: what RefLexer shows its   *)
(* lexer to deliver.  A name is read to its end, and whatever spaces and   *)
(* comments stand together are one blank; a blank is still there for the   *)
(* tests of curCh until SkipNonterminals is called.                        *)
(*                                                                         *)
(* Local variables of the parse functions that nothing reads (typeSpec     *)
(* but for the search that fills it) and printing are left out.            *)
(***************************************************************************)
EXTENDS Integers, Sequences, Enumeration

CONSTANT Sources   (* The source files, as sequences of lexemes.           *)

(* Names are numbered by their order under strcmp: the n-th word of the    *)
(* table reservedWord is 10n, other names lie between; no name is 0.       *)
NoName == 0
End == 75
Program == 275
ProgramX == 276   (* Any name that begins with program and goes on with a  *)
X == 415          (* letter or underscore, and the name that is left of it *)
                  (* when program is taken off.                            *)
Run == 290
Var == 390

topLevelKeyword ==
  <<50, 110, 140, 150, 180, 240, 250, 270, Run, 310, 320, 380, Var>>
baseTypeName ==
  <<20, 40, 130, 190, 200, 210, 220, 230, 300, 330, 340, 350, 360, 370>>

Marks == {"@", "[", "]", ","}
Kinds == {"name", "blank", "number", "other"} \cup Marks
Lexemes == [kind : Kinds, name : Nat]

Name(n) == [kind |-> "name", name |-> n]
Blank == [kind |-> "blank", name |-> NoName]

(* Only names have a number, and no two blanks stand together.             *)
ASSUME SourcesAssumption ==
  \A s \in Sources :
    /\ s \in Seq(Lexemes)
    /\ \A i \in 1 .. Len(s) : (s[i].kind = "name") = (s[i].name # NoName)
    /\ \A i \in 1 .. Len(s)-1 : s[i] = Blank => s[i+1] # Blank

VARIABLES
  source,       (* The source file.                                        *)
  rest,         (* What is left of it; curCh is its first character.       *)
  fn,           (* Where the parser is.                                    *)
  ident,        (* The name last read, in ident or keyword.                *)
  table,        (* The table that is searched for it.                      *)
  left, right,  (* leftIndex, rightIndex of the search.                    *)
  token,        (* What the search returned, 0 if nothing.                 *)
  symTable,     (* The two symbol tables: the pointer is not NULL.         *)
  localTable,
  live,         (* How many symbol tables are allocated.                   *)
  runDeclared,  (* Set by the first run block.                             *)
  handle,       (* The source file is open.                                *)
  status        (* The exit status of the process.                         *)

input   == <<source, rest>>
search  == <<ident, table, left, right, token>>
tables  == <<symTable, localTable, live>>
process == <<runDeclared, handle, status>>
vars == <<input, fn, search, tables, process>>

Next1(r) == IF r = <<>> THEN "EOF" ELSE r[1].kind
Skipped(r) == IF Next1(r) = "blank" THEN Tail(r) ELSE r

Goto(f) == fn' = f
(* Error and SyntaxError print and call exit(1).                           *)
Fail == Goto("exit") /\ status' = 1 /\ UNCHANGED <<input, search, tables, runDeclared, handle>>

(* SkipNonterminals and ReadIdent: the name goes to ident, and the parser  *)
(* goes on at f; without a name the caller reports an error.               *)
ReadName(r, f) ==
  /\ Next1(Skipped(r)) = "name"
  /\ ident' = Skipped(r)[1].name
  /\ rest' = Tail(Skipped(r))
  /\ Goto(f)
  /\ UNCHANGED <<source, table, left, right, token>>
NoNameAhead(r) == Next1(Skipped(r)) # "name"
-----------------------------------------------------------------------------
Init ==
  /\ source \in Sources
  /\ rest = source
  /\ fn = "main"
  /\ ident = NoName /\ table = <<>> /\ left = 0 /\ right = 0 /\ token = NoName
  /\ symTable = FALSE /\ localTable = FALSE /\ live = 0
  /\ runDeclared = FALSE /\ handle = FALSE /\ status = 0

OpenFails == fn = "main" /\ Fail

(* OpenRet and CreateSymTable.  Nothing tests whether there was memory for *)
(* the table.                                                              *)
Open ==
  /\ fn = "main"
  /\ handle' = TRUE
  /\ symTable' \in BOOLEAN
  /\ live' = IF symTable' THEN 1 ELSE 0
  /\ Goto("program")
  /\ UNCHANGED <<input, search, localTable, runDeclared, status>>

(* Match compares characters, and asks for no end of the word.             *)
Matches(r) == r # <<>> /\ r[1] \in {Name(Program), Name(ProgramX)}
Matched(r) == IF r[1] = Name(ProgramX) THEN <<Name(X)>> \o Tail(r) ELSE Tail(r)

(* Mutant of ParseProgram: the table is not asked for.                     *)
ParseProgramAnyway ==
  /\ fn = "program"
  /\ \/ /\ Matches(Skipped(rest))
        /\ ReadName(Matched(Skipped(rest)), "parse")
        /\ UNCHANGED <<tables, process>>
     \/ /\ Matches(Skipped(rest)) => NoNameAhead(Matched(Skipped(rest)))
        /\ Fail

(* program IDENT.  Without a symbol table it returns at once, and its      *)
(* caller does not look at what it returns.                                *)
ParseProgram ==
  /\ fn = "program"
  /\ \/ /\ ~symTable
        /\ Goto("parse")
        /\ UNCHANGED <<input, search, tables, process>>
     \/ /\ symTable
        /\ Matches(Skipped(rest))
        /\ ReadName(Matched(Skipped(rest)), "parse")
        /\ UNCHANGED <<tables, process>>
     \/ /\ symTable
        /\ Matches(Skipped(rest)) => NoNameAhead(Matched(Skipped(rest)))
        /\ Fail
-----------------------------------------------------------------------------
(* The search for n in a table; the empty name is not searched for.        *)
StartSearch(t, n) ==
  /\ ident' = n
  /\ table' = t
  /\ left' = 0
  /\ right' = IF n = NoName THEN 0 ELSE Len(t)
  /\ token' = NoName
  /\ Goto("search")

(* The loop of Parse: end of file, or a name that is looked up among the   *)
(* top level keywords, or an error.                                        *)
ParseEnds ==
  /\ fn = "parse"
  /\ Skipped(rest) = <<>>
  /\ Goto("exit")
  /\ rest' = <<>>
  /\ UNCHANGED <<source, search, tables, process>>

TopLevelKeyword ==
  /\ fn = "parse"
  /\ \/ /\ Next1(Skipped(rest)) = "name"
        /\ StartSearch(topLevelKeyword, Skipped(rest)[1].name)
        /\ rest' = Tail(Skipped(rest))
        /\ UNCHANGED <<source, tables, process>>
     \/ /\ Next1(Skipped(rest)) \notin {"name", "EOF"}
        /\ Fail

Index == (left + right) \div 2
Returns == IF table = topLevelKeyword THEN "declare" ELSE "dimension"

(* Mutants of Probe: the interval cut one too short, on either side.       *)
ProbeShortLeft ==
  /\ fn = "search" /\ left < right
  /\ \/ table[Index+1] > ident /\ right' = Index /\ UNCHANGED <<fn, left, token>>
     \/ table[Index+1] < ident /\ left' = Index + 2 /\ UNCHANGED <<fn, right, token>>
     \/ table[Index+1] = ident /\ token' = ident /\ Goto(Returns) /\ UNCHANGED <<left, right>>
  /\ UNCHANGED <<input, ident, table, tables, process>>
ProbeShortRight ==
  /\ fn = "search" /\ left < right
  /\ \/ table[Index+1] > ident /\ right' = Index - 1 /\ UNCHANGED <<fn, left, token>>
     \/ table[Index+1] < ident /\ left' = Index + 1 /\ UNCHANGED <<fn, right, token>>
     \/ table[Index+1] = ident /\ token' = ident /\ Goto(Returns) /\ UNCHANGED <<left, right>>
  /\ UNCHANGED <<input, ident, table, tables, process>>

(* One iteration of FindTopLevelKeyword or FindBaseType.                   *)
Probe ==
  /\ fn = "search" /\ left < right
  /\ \/ table[Index+1] > ident /\ right' = Index /\ UNCHANGED <<fn, left, token>>
     \/ table[Index+1] < ident /\ left' = Index + 1 /\ UNCHANGED <<fn, right, token>>
     \/ table[Index+1] = ident /\ token' = ident /\ Goto(Returns) /\ UNCHANGED <<left, right>>
  /\ UNCHANGED <<input, ident, table, tables, process>>

NotFound ==
  /\ fn = "search" /\ left >= right
  /\ Goto(Returns)
  /\ UNCHANGED <<input, search, tables, process>>

(* The switch of Parse.  An unknown word is an error, except as the last   *)
(* of the file; so is every declaration but run: the functions that should *)
(* parse them return one.                                                  *)
Declare ==
  /\ fn = "declare"
  /\ \/ /\ token = NoName /\ rest = <<>>
        /\ Goto("exit")
        /\ UNCHANGED <<input, search, tables, process>>
     \/ /\ token # Run
        /\ token = NoName => rest # <<>>
        /\ Fail
     \/ token = Run /\ Goto("run") /\ UNCHANGED <<input, search, tables, process>>
-----------------------------------------------------------------------------
(* ParseRun: no symbol table, a local table left over, or no memory for    *)
(* one is an error.                                                        *)
RunRefused ==
  /\ fn = "run"
  /\ Fail

(* The table is made before a second run block is reported, and the word   *)
(* after run is read.                                                      *)
Create == localTable' = TRUE /\ live' = live + 1 /\ UNCHANGED symTable

(* Mutant of ParseRun: run is not marked as declared.                      *)
ParseRunAgain ==
  /\ fn = "run"
  /\ symTable /\ ~localTable
  /\ Create
  /\ \/ /\ ~runDeclared
        /\ ReadName(rest, "block")
        /\ UNCHANGED process
     \/ /\ runDeclared \/ NoNameAhead(rest)
        /\ Goto("exit") /\ status' = 1
        /\ UNCHANGED <<input, search, runDeclared, handle>>

ParseRun ==
  /\ fn = "run"
  /\ symTable /\ ~localTable
  /\ Create
  /\ runDeclared' = TRUE
  /\ \/ /\ ~runDeclared
        /\ ReadName(rest, "block")
        /\ UNCHANGED <<handle, status>>
     \/ /\ runDeclared \/ NoNameAhead(rest)
        /\ Goto("exit") /\ status' = 1
        /\ UNCHANGED <<input, search, handle>>

(* A word var begins local variables, any other word the statements.       *)
Block ==
  /\ fn = "block"
  /\ Goto(IF ident = Var THEN "localVar" ELSE "statements")
  /\ UNCHANGED <<input, search, tables, process>>

(* ParseLocalVar reads a word, and returns if it is end; another word, or  *)
(* none, is forgotten, and a type is read.                                 *)
LocalVar ==
  /\ fn = "localVar"
  /\ \/ ReadName(rest, IF ident' = End THEN "afterVar" ELSE "typeSpec")
     \/ /\ NoNameAhead(rest)
        /\ rest' = Skipped(rest)
        /\ Goto("typeSpec")
        /\ UNCHANGED <<source, search>>
  /\ UNCHANGED <<tables, process>>

AfterAt(r) == Skipped(IF Next1(r) = "@" THEN Tail(r) ELSE r)

(* ParseTypeSpec: an at sign and the name of a type, both optional; the    *)
(* name is looked up among the base types.                                 *)
TypeSpec ==
  /\ fn = "typeSpec"
  /\ LET r == AfterAt(Skipped(rest))
     IN \/ /\ Next1(r) = "name"
           /\ rest' = Tail(r)
           /\ StartSearch(baseTypeName, r[1].name)
        \/ /\ Next1(r) # "name"
           /\ rest' = r
           /\ StartSearch(baseTypeName, NoName)
  /\ UNCHANGED <<source, tables, process>>

(* A dimension follows the name at once, without a blank, and is a number: *)
(* ReadNumber ends the program when there is none.                         *)
Dimension ==
  /\ fn = "dimension"
  /\ LET number == Skipped(Tail(rest))
         close == Skipped(Tail(number))
     IN \/ /\ Next1(rest) # "["
           /\ Goto("declarators")
           /\ UNCHANGED <<input, search, tables, process>>
        \/ /\ Next1(rest) = "["
           /\ Next1(number) = "number" /\ Next1(close) = "]"
           /\ rest' = Tail(close)
           /\ Goto("declarators")
           /\ UNCHANGED <<source, search, tables, process>>
        \/ /\ Next1(rest) = "["
           /\ Next1(number) = "number" => Next1(close) # "]"
           /\ Fail

(* Mutant of Declarator: the comma is not skipped.                         *)
DeclaratorStuck ==
  /\ fn = "declarators"
  /\ LET r == Skipped(rest)
     IN \/ /\ Next1(r) \in {"name", ","}
           /\ rest' = IF Next1(r) = "," THEN r ELSE Tail(r)
           /\ ident' = IF Next1(r) = "name" THEN r[1].name ELSE NoName
           /\ Goto(IF rest' = <<>> THEN "afterVar" ELSE "declarators")
           /\ UNCHANGED <<source, table, left, right, token, tables, process>>
        \/ Next1(r) \notin {"name", ","} /\ Fail

(* An iteration of the inner loop of ParseLocalVar: a name or a comma.     *)
(* Only the end of the file ends it without an error, and the outer loop   *)
(* with it.                                                                *)
Declarator ==
  /\ fn = "declarators"
  /\ LET r == Skipped(rest)
     IN \/ /\ Next1(r) \in {"name", ","}
           /\ rest' = Tail(r)
           /\ ident' = IF Next1(r) = "name" THEN r[1].name ELSE NoName
           /\ Goto(IF rest' = <<>> THEN "afterVar" ELSE "declarators")
           /\ UNCHANGED <<source, table, left, right, token, tables, process>>
        \/ Next1(r) \notin {"name", ","} /\ Fail

(* ParseRun reads the word after the variables.                            *)
AfterVar ==
  /\ fn = "afterVar"
  /\ \/ ReadName(rest, "block") /\ UNCHANGED <<tables, process>>
     \/ NoNameAhead(rest) /\ Fail

(* Mutants of FreeLocal: the pointer is not set to NULL; the table is not  *)
(* freed.                                                                  *)
FreeLocalDangling == live' = live - 1 /\ UNCHANGED <<symTable, localTable>>
FreeLocalNot == UNCHANGED <<symTable, localTable, live>>

FreeLocal == localTable' = FALSE /\ live' = live - 1 /\ UNCHANGED symTable

(* A statement is a word; the word end, or the end of the file right after *)
(* a word, ends the run block.                                             *)
EndOfRun ==
  /\ fn = "statements"
  /\ ident = End
  /\ FreeLocal
  /\ Goto("parse")
  /\ UNCHANGED <<input, search, process>>

Statement ==
  /\ fn = "statements"
  /\ ident # End
  /\ \/ /\ ReadName(rest, IF rest' = <<>> THEN "parse" ELSE "statements")
        /\ IF rest' = <<>> THEN FreeLocal ELSE UNCHANGED tables
        /\ UNCHANGED process
     \/ NoNameAhead(rest) /\ Fail

(* Mutant of Cleanup: only the global table is released.                   *)
CleanupGlobal ==
  /\ fn = "exit"
  /\ Goto("ended")
  /\ live' = live - (IF symTable THEN 1 ELSE 0)
  /\ symTable' = FALSE
  /\ runDeclared' = FALSE /\ handle' = FALSE
  /\ UNCHANGED <<input, search, localTable, status>>

(* The handler that exit and the return of main run.                       *)
Cleanup ==
  /\ fn = "exit"
  /\ Goto("ended")
  /\ live' = live - (IF symTable THEN 1 ELSE 0) - (IF localTable THEN 1 ELSE 0)
  /\ symTable' = FALSE /\ localTable' = FALSE
  /\ runDeclared' = FALSE /\ handle' = FALSE
  /\ UNCHANGED <<input, search, status>>

Next ==
  \/ Open \/ OpenFails \/ ParseProgram
  \/ ParseEnds \/ TopLevelKeyword \/ Probe \/ NotFound \/ Declare
  \/ RunRefused \/ ParseRun \/ Block
  \/ LocalVar \/ TypeSpec \/ Dimension \/ Declarator \/ AfterVar
  \/ EndOfRun \/ Statement \/ Cleanup

(* The one thread of the process runs.                                     *)
Spec == Init /\ [][Next]_vars /\ WF_vars(Next)
-----------------------------------------------------------------------------
InRun == {"block", "localVar", "typeSpec", "dimension", "declarators", "afterVar", "statements"}
InParse == {"parse", "declare", "run"}
Steps == {"main", "program", "search", "exit", "ended"} \cup InRun \cup InParse

TypeOK ==
  /\ source \in Seq(Lexemes) /\ rest \in Seq(Lexemes)
  /\ fn \in Steps
  /\ ident \in Nat
  /\ table \in {<<>>, topLevelKeyword, baseTypeName}
  /\ left \in Nat /\ right \in Nat
  /\ right <= Len(table)
  /\ token \in Nat
  /\ symTable \in BOOLEAN /\ localTable \in BOOLEAN
  /\ live \in 0 .. 2
  /\ runDeclared \in BOOLEAN /\ handle \in BOOLEAN
  /\ status \in {0, 1}

(* A search returns the word it was asked for when the table has it, and   *)
(* nothing when it does not: the table is in the order of strcmp and the   *)
(* loop skips no entry.                                                    *)
In(t, n) == \E i \in 1 .. Len(t) : t[i] = n
KeywordFound ==
  fn \in {"declare", "dimension"} =>
    token = IF In(table, ident) THEN ident ELSE NoName

(* The tables that are allocated are those a pointer leads to, whatever    *)
(* the source makes the parser do.                                         *)
TablesOwned ==
  live = (IF symTable THEN 1 ELSE 0) + (IF localTable THEN 1 ELSE 0)

(* The local table is there exactly while a run block is parsed.           *)
LocalTableScope ==
  /\ fn \in InRun => localTable /\ runDeclared
  /\ fn \in InParse \cup {"main", "program"} => ~localTable
  /\ fn = "search" => localTable = (table = baseTypeName)

(* However the parse ends, Cleanup leaves no table and no file open.       *)
NothingLeft == fn = "ended" => live = 0 /\ ~handle

(* The programs as the comments of the source tell them.  program IDENT    *)
(* (1022), of which they do not say whether a blank must stand between;    *)
(* and run var...end statement... end (1270), a statement being a word as  *)
(* long as nothing parses one.                                             *)
Solid(s) == {i \in DOMAIN s : s[i] # Blank}
NoBlanks(s) == ElementsAt(s, Solid(s))
Words(s) ==
  IF NoBlanks(s) # <<>> /\ NoBlanks(s)[1] = Name(ProgramX)
  THEN <<Name(Program), Name(X)>> \o Tail(NoBlanks(s))
  ELSE NoBlanks(s)
EndsInBlank(s) == s # <<>> /\ s[Len(s)] = Blank
(* The file stops right after a word that is no top level keyword.         *)
LooseWord(s) ==
  /\ s # <<>>
  /\ s[Len(s)].kind = "name"
  /\ ~In(topLevelKeyword, s[Len(s)].name)

ProgramIdent(w) == Len(w) >= 2 /\ w[1] = Name(Program) /\ w[2].kind = "name"
(* Blocks from var to end fill the words from the fourth up to first, with *)
(* declarations or without any.                                            *)
VarBlocks(w, first) ==
  first > 4 =>
    /\ w[4] = Name(Var) /\ w[first-1] = Name(End)
    /\ \A i \in 4 .. first-2 : w[i] = Name(End) <=> w[i+1] = Name(Var)
EmptyVars(w, k) == \A j \in 0 .. k-1 : w[4 + 2*j] = Name(Var) /\ w[5 + 2*j] = Name(End)
(* The words from run on, the statements beginning at first.               *)
RunFrom(w, first) ==
  /\ w[3] = Name(Run)
  /\ first \in 4 .. Len(w)
  /\ w[first] # Name(Var)
  /\ \A i \in first .. Len(w)-1 : w[i].kind = "name" /\ w[i] # Name(End)
  /\ w[Len(w)] = Name(End)
Documented(w) ==
  /\ ProgramIdent(w)
  /\ \/ Len(w) = 2
     \/ \E first \in 4 .. Len(w) : RunFrom(w, first) /\ VarBlocks(w, first)
(* Of these the ones that declare no local variable.                       *)
WithoutVariables(w) ==
  /\ ProgramIdent(w)
  /\ \/ Len(w) = 2
     \/ \E k \in 0 .. Len(w) : RunFrom(w, 4 + 2*k) /\ EmptyVars(w, k)

(* Memory for the local table may run out after run.                       *)
NoLocalTable == token = Run /\ ~runDeclared /\ ~localTable

(* A file that is accepted is a documented program.  Only one that stops   *)
(* right after its last word may lack the end of its run block, or have a  *)
(* word too many.  And a documented program without local variables is     *)
(* accepted.                                                               *)
AcceptedAsDocumented ==
  fn = "exit" /\ handle /\ symTable =>
    LET w == Words(source)
    IN /\ status = 0 =>
            \/ Documented(w)
            \/ ~EndsInBlank(source) /\ Documented(Append(w, Name(End)))
            \/ LooseWord(source) /\ Documented(SubSeq(w, 1, Len(w)-1))
       /\ WithoutVariables(w) => status = 0 \/ NoLocalTable

(* "run var...end statement... end" (origoref.c 1270), "Parse local var    *)
(* declarations" (1298): exactly the programs of these comments are        *)
(* accepted, with an end to the run block and with local variables.        *)
RunAsCommented ==
  fn = "exit" /\ handle /\ symTable /\ ~NoLocalTable =>
    (status = 0 <=> Documented(Words(source)))

(* "Parse array dimension. Require unless type spec is a pointer."         *)
(* (origoref.c 1100): @ T [] is a type.                                    *)
PointerBracketsAhead ==
  LET at == Len(source) - Len(rest)
  IN /\ at >= 2 /\ source[at-1].kind = "@" /\ source[at].kind = "name"
     /\ Len(rest) >= 2 /\ rest[1].kind = "[" /\ rest[2].kind = "]"
PointerDimensionOptional ==
  [][fn = "dimension" /\ PointerBracketsAhead => fn' = "declarators"]_vars

(* A missing symbol table, which main does not test for, never lets a      *)
(* source pass that has more in it than one unknown word.                  *)
MissingTableReported ==
  fn = "exit" /\ handle /\ ~symTable =>
    status = 1 \/ NoBlanks(source) = <<>> \/ (Len(NoBlanks(source)) = 1 /\ LooseWord(source))

(* Every step reads on, or comes closer to one that does: no loop of the   *)
(* parser can go round without the file getting shorter.                   *)
Rank(f) ==
  CASE f = "main" -> 12 [] f = "program" -> 11
    [] f = "block" -> 10 [] f = "localVar" -> 9 [] f = "typeSpec" -> 8
    [] f = "search" -> 7 [] f = "declare" -> 6 [] f = "dimension" -> 6
    [] f = "declarators" -> 5 [] f = "run" -> 5 [] f = "afterVar" -> 5
    [] f = "statements" -> 4 [] f = "parse" -> 3 [] f = "exit" -> 2 [] OTHER -> 1
Nearer ==
  \/ Len(rest') < Len(rest)
  \/ /\ Len(rest') = Len(rest)
     /\ \/ Rank(fn') < Rank(fn)
        \/ fn' = fn /\ right' - left' < right - left
Progress == [][Nearer]_vars

(* Every parse ends.                                                       *)
Terminates == <>(fn = "ended")
=============================================================================
