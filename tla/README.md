# OrigoToC: a verification development

TLA+ models of the OrigoToC translator, the TLC configurations that check them
on small instances, and theorems about them that TLAPS proves for instances of
every size. Line numbers are those of `origotoc.peg` unless a file is named.

## 1. The system

OrigoToC translates the language Origo (`.ret` files) to C. It is one
sequential process. There are two front ends:

- `origotoc.peg` (0.2.2 Alpha), a PackCC grammar with all run-time code in its `%header`,
  `%source` and epilogue sections; this is what `build.bat` builds;
- `origoref.c` (0.1.7 Alpha), a hand-written reference lexer and recursive descent parser
  that shares the key arrays, path functions and option handling with it.

| component | source | state | operations | interacts by |
|---|---|---|---|---|
| sorted key arrays (`keyarray.h`) | 52-1114 | counts, item array, key strings | create, free, insert, remove, retrieve, modify, findindex, releaseunused, copy; for string keys and for unsigned keys | calls; the caller's data callbacks |
| symbol and enum field tables | 1470-1530; `origoref.c` 399-429 | global list pointers | instances of the key array macros | Cleanup frees them; `origoref.c` creates them |
| path functions | 1278-1467 | none | SplitPath, JoinPath | parts handed out through pointers |
| options, main, Cleanup | 2688-2871 | ten local pointers, the options record, the file handle | ParseOptions, main, the atexit handler | exit from anywhere runs Cleanup |
| character input, errors | 1204-1256 | line and column, now and next | ReadChar, ParseError, Error, SyntaxError | called by the generated parser; exit |
| grammar | 1533-2684 | PackCC's buffer and memo tables | about 190 rules, most actions print a tag or do nothing | ordered choice |
| lexer of `origoref.c` | 431-1020 | two characters of lookahead, position, mark | ReadChar, MarkToken, ReturnToken, Match, ReadIdent, ReadNumber, SkipNonterminals, keyword search | file position |
| parser of `origoref.c` | 1022-1415 | current token, local table | Parse, ParseProgram, ParseRun, ParseLocalVar, ParseTypeSpec; twelve stubs that fail | recursion, exit |
| PackCC, tcc, verpatch | `tools/` | vendored | | |
| `new.peg`, samples, batch files | | none of their own | | |

What is hard here is not concurrency, for there is none, but

- memory that runs out or moves at any allocation (about fifteen of them in
  `ParseOptions` alone), and the error paths that follow;
- `exit` from deep inside, with one handler that must cope with every state;
- index arithmetic in the ten hand-copied binary searches, and the array
  that shifts under them;
- boundary cases of paths: dots in directories, hidden files, no extension;
- end of input and look-ahead in the two lexers.

What makes each component correct:

- key arrays: strictly ascending keys in memory that is really there; a search
  that ends and finds the key if it is there; a failed call that changes
  nothing a caller can see; one owner per heap block and no lost block;
- paths: the buffer is as long as what is written; splitting and joining give
  the path back; the file opened is the one named;
- options: whatever fails, no block is freed twice, and at the end of the
  process only the context of a parse that failed is left;
- lexers: every character is seen once, the position reported is where it is,
  and the end of the file ends every loop;
- parser of `origoref.c`: it accepts one language and ends on every file, and
  the local symbol table lives as long as the run block;
- grammar: what is written is read as written, and no alternative hides another.

`PROJECT.json` lists every component, modelled or not, and under `hazards` the
places where these things can go wrong, each with the properties that watch it.

## 2. Modules

| module | models | how |
|---|---|---|
| `KeyMap` | what a key array promises | abstract specification: a finite map; a call takes effect in one step or fails and changes nothing |
| `KeyArray` | one list of either family (283-1045) | a call is a first step (early returns, growth), one step per iteration of the search, a last step (shift, store, return) |
| `KeyHeap` | the blocks behind two symbol tables (283-712, 1497-1520) | a call is one step; heap of named blocks; any allocation fails, any realloc moves |
| `Paths` | SplitPath, JoinPath (1279-1467) | operators on sequences of characters |
| `Options` | main, ParseOptions, Cleanup (2697-2871) | one process, one step per call; composes `Paths` with allocation |
| `RefLexer` | the lexer of `origoref.c` (537-997) | a call runs one ReadChar per step over every short file |
| `Enumeration` | | the elements of a sequence at given positions, for the texts both models of `origoref.c` compare with |
| `RefParser` | the parser of `origoref.c`, its keyword searches, Match, main and Cleanup (435-470, 634-676, 999-1456) | one step per lexeme or iteration, over sequences of lexemes |
| `Grammar` | the rules of `origotoc.peg` (1533-2684) | each rule as a parsing expression, what it says at every place of the file; the parse is one step |
| `GrammarRef` | the language those rules are meant for | told without ordered choice: an automaton for expressions, what statements print, the specs of functions |
| `MCKeyArray`, `MCKeyHeap`, `MCOptions`, `MCRefLexer`, `MCRefParser`, `MCGrammar` | | the instances TLC checks |
| `KeyArrayProofs`, `KeyMapProofs`, `KeyHeapProofs`, `OptionsProofs`, `EnumerationProofs`, `RefLexerProofs`, `RefParserProofs`, `GrammarProofs` | | theorems |

### KeyArray and KeyMap

`open`, `reservedCount`, `itemCount`, `item` are the list; `call`, `left`,
`right`, `probe` are the parameters and locals of the function that runs, and
`reply` is what the last one returned. The string and the unsigned family differ
in two guards (the empty key is refused; an insert allocates a copy of the key),
so they share their actions and `kind` says which is meant. A key is a number:
its rank under `strcmp`. Slots past `itemCount` may hold anything: one value,
`Blank`, stands for what is there, and no step reads it.

`remove` shifts the tail with `memcpy` although the regions overlap (455), which
C leaves undefined. `Removed` is the result of an ascending copy, that of the
run-time the build links; `RemovedDescending` shows that the list depends on it.

`MapSpec` is `KeyMap`'s specification with the map read off the slots
(`Contents`). Every step of a call but the last is a stutter or `Call` there.

### KeyHeap

A block has a use and what it holds (a key's string, an array's length). `list`
maps each list variable to its header, array, count and key pointers. `free` and
`realloc` of a pointer that is not allocated set `undefined`, after which there
is no next step; the runs therefore do not check for deadlock. The error path of
copy reads key pointers from memory that malloc returned and nobody wrote
(700): what it frees is a choice between nothing and an undefined free.

### Paths and Options

The pointer walks of SplitPath become positions: `BaseAt` after the last
separator, `BaseEnd` at the dot that ends the base name, `ExtStart` where the
pointer `pathExt` is left. In `Options` each pointer variable receives at most
one block, so blocks go by variable names: `live` are the blocks not freed,
`set` the variables that are not NULL, and the two part when SplitPath fails
after handing out parts. The parser's context is one more block: `pcc_create`
returns or, out of memory, calls `exit(1)`; `pcc_parse` is one step that returns or
ends in `exit(1)`, by way of ParseError or out of memory; and only main, once the
parse has returned, destroys the context (2868). Cleanup knows nothing of it, so
after a failing parse it is the one block left. `status` is what the process exits
with.
The parameter checks that a call in this program cannot fail (NULL out
parameters) are left out.

### RefLexer

`src` is the RetFile: file position, `curCh`, `nextCh`, line and column; `fn` is
the loop that runs and `call` remembers where the last call began, for the
properties only. `After` is what `fgetc` and the seek at 580 do to the file
position. Files are what stdio delivers in text mode. The name buffer
(`IdentMaxIndex`, 31 in the code) and the width of unsigned are constants;
lines, columns and numbers wrap. `MarkToken` stores a position that only
`ReturnToken` reads, and nothing calls `ReturnToken`; both are left out. Two
things are assumed of the run-time and the compiler: a seek in a file that has
just been read succeeds, so that the error exit at 581 is left out, and the two
calls at 989, whose order C leaves open, are made from left to right, as tcc, the
compiler `build.bat` calls, does. The
text the file stands for (`Text`: a line feed right after a carriage return
belongs to it) and the rule `_` of the grammar (`Skipped`) are the references
the lexer is compared with.

### RefParser

A file is a sequence of lexemes: names, blanks (whatever spaces and comments
stand together), numbers, the marks `@ [ ] ,` and other characters. That the
lexer delivers these is what `RefLexer` shows: `GrammarAgrees` for blanks,
`IdentWhole` for names, `NumberRead` for numbers. A blank is a lexeme because the
parser tests `curCh` before it skips, so a blank before `[`, or at the end of the
file, changes what it does. Names are numbers in the order of `strcmp`, ten apart
for the words of `reservedWord`, so that the searches compare ranks. A name that
begins with `program` is a name of its own (`ProgramX`), for Match compares
characters and does not ask where the word ends (1012).

`fn` is the place in the code where the parser is; a step reads up to the next
test. `symTable` and `localTable` say whether the two pointers are set and `live`
counts the tables allocated, so that a lost and a doubly freed table both show.
Either table may fail to be allocated. The twelve Parse functions that are
stubs and return error 4 are the failing branch of `Declare`.

What the parser accepts is compared with the language that the comments at 1022
and 1270 tell, `program IDENT` and `run var...end statement... end`:
`Documented` are the words of such a program, with or without declarations in its
var blocks, and `WithoutVariables` those that declare nothing.
`AcceptedAsDocumented` says that what is accepted is `Documented`, but for two
exceptions when the file stops right after a word, and that what is
`WithoutVariables` is accepted. Where the code falls short of its comments,
`RunAsCommented` and `PointerDimensionOptional` state the comments, and a run
shows each violated. The language exactly as the code accepts
it (`InLanguage`) is a lemma's business, in `RefParserProofs`.

### Grammar and GrammarRef

A program is a sequence of pieces: punctuation characters, digits, blanks, and
the pieces that the literals of the grammar cut words into. The pieces `break`
and `a` next to each other are the word `breaka`; the literal `"break"` matches
its beginning, as it does in PackCC, for no literal asks where its word ends.

A parsing expression is a function over the places of the file: where a match
that begins there ends, or 0 if there is none, and what its actions print.
`a | b` is the ordered choice, decided by the first alternative that matches and
never tried again, `a & b` the sequence, `a && b` the sequence with the rule `_`
between; `Many` takes all it can and stops when an iteration matches nothing, and
`Tag` takes the text of its rule. There is one operator for each rule, and left
recursion is written as the repetition that PackCC's growing of the seed amounts
to for these rules, which are all of the form `X <- X _ op _ Y / Y`. Memoization
changes no result and is left out. Rules that differ only in their names are
written once, with a parameter.

A rule is told in terms of `g`, the record of all rules as far as they are known:
`g.EXPR` in the rule `OPERAND` is a call of the function of `EXPR`. `RulesTo[n]` is
what the functions return when their calls may be nested `n` deep; a call that is
nested deeper has no answer (-1), and so has a rule that depends on it.
`Nesting` is five calls for each place of the file. `Answered` says that this is
always enough, so that the parser has an answer for every file: no circle of
calls is closed at one place, and no repetition goes on with nothing.

`GrammarRef` says the same language over again without ordered choice:
`ExpressionsRead` compares the expression rules with an automaton that reads one
piece at a time; `StatementsSeparate` says what each run block should print and
which neighbours change that; `HeadersRead` lists the specs that the headers of
functions, methods, operators and prototypes allow.

## 3. Runs

| run | shows | bounds |
|---|---|---|
| `key_array` (80 572 states) | `TypeOK`, `Capacity`, `Sorted`, `SearchBracket`, `SearchProgress`, `IndexStable`, `Termination`, `MapSpec` | five keys, two payloads; growth by 2 (8 in the code) up to 5 slots, reservations of 0, 3, 6 |
| `key_heap` (6 533) | `TypeOK`, `ExclusiveOwnership`, `SlotsFit`, `OnlyItemsLeak`, `FreesAreDefined` | two tables, three names, ten blocks |
| `options` (275 771) | `TypeOK`, `OptionsOwnNames`, `NothingLeft`, `FreedOnce`, `BufferExact`, `SourceFound` | every source path of up to 4, binary path of up to 2 of the characters a . / \ |
| `ref_lexer` (273 851) | `TypeOK`, `Position`, `GrammarAgrees`, `IdentWhole`, `NumberRead`, `FittingAccepted`, `Terminates` | every text of up to 5 of the characters space, LF, CR, / * a; every numeral of up to 3 characters after any prefix; names of 2 kept characters, 5-bit numbers |
| `ref_parser` (773 995) | `TypeOK`, `KeywordFound`, `TablesOwned`, `LocalTableScope`, `NothingLeft`, `AcceptedAsDocumented`, `MissingTableReported`, `Progress`, `Terminates` | 24 016 files: every word after every kind of header, run blocks of up to six words, var blocks of up to four lexemes |
| `grammar` (21 060) | `ExpressionsRead`, `StatementsSeparate`, `HeadersRead`, `Answered` | 10 530 programs: 3 584 expressions of up to five pieces, each as a run-time and as a constant value; 2 889 run blocks; 473 function headers |
| `key_heap_copy` | violation: a failing copy frees uninitialised pointers | as `key_heap`, the copy callback as in the program |
| `options_double_free` | violation: a part freed twice | as `options` |
| `options_dotted_dir` | violation: `./a` opens `./a./a` | as `options` |
| `ref_lexer_number` | violation: 90 is 26 in five bits | as `ref_lexer` |
| `ref_parser_run` | violation: a run block without `end` is accepted | four files that the comments speak of |
| `ref_parser_pointer` | violation: a variable of type `@int[]` is refused | as above |

Why the bounds suffice. Five keys and five slots give searches of up to three
iterations over every position of every size, odd and even, two growth steps
from nothing and a reallocation that fails at the limit, and a reservation that
cannot be had. For the heap, two tables are what aliasing needs, three names
give first, middle and last positions, and ten blocks hold both tables and let
leaked arrays use up the rest. Four characters hold a directory, a separator and
a name with or without an extension, each with or without a dot; every property
of paths depends only on the order of dots and separators. Five characters hold
a comment with one character in it, two comments that share a character, a
comment opened inside another, and a carriage return before anything; three
digits overflow five bits in every base, twice in base ten.

Six words of a run block hold two var blocks, a second `run` and words before,
between and after them; four lexemes of a var block hold a type with a pointer or
a dimension and what may follow it. Every keyword of the language comes up, so
the searches find every entry of the thirteen words, and miss on both sides of
every one they probe; of the base types `int` stands for all in the files, and
`RefParserProofs` covers the rest. In the grammar every kind of statement stands
alone, next to others and inside each compound one, with names that begin with
keywords; five pieces are a binary operator of two characters between two
operands with a unary operator, and two increments after a blank. Of the 3 584 expressions 95 are run-time and 112 are
constant expressions, so that both directions of `ExpressionsRead` have work; of
2 925 bodies before duplicates are merged 1 251 are misread, and 90 of the 473
headers are allowed. The declarations without function headers (types, constants,
objects, interfaces) stand in `Rules` and are read where a program contains them,
but no property compares them with a reference of their own.

`key_heap` gives the allocator one address, the lowest free one, and compares
states by a `VIEW`. The code never compares or orders addresses, so two states
that differ by a renaming of blocks behave alike. The view keeps what such a
renaming keeps: the shape of each table, how many blocks are allocated, and the
truth of each invariant, so that no violation can hide behind an equal view.

Deadlock is checked for `key_array`, whose list can always be called again. A
process that has ended, a lexer that has called exit and a heap after undefined
behaviour have no next step.

Fairness. `KeyArray` assumes `WF_vars(Probe \/ Finish)`: a C function that was
called keeps running; nothing is assumed of the callers. `RefLexer` assumes
`WF_vars(Loop)`, likewise. `RefParser` assumes `WF_vars(Next)`: the one thread of the
process runs, and no step waits. `Options`, `KeyHeap` and `Grammar` assume nothing
and have only safety properties.

Each property of a passing run has a mutant in `PROJECT.json`: an operator next
to the one it replaces, marked "Mutant of", a bug the code could have had.

## 4. What the runs found

1. The error path of copy frees key pointers it never set (696-705), and since
   `CopySymbol` returns 0, "failure", every copy of a nonempty table takes it:
   `key_heap_copy`. No caller copies a table in this version.
2. SplitPath leaves the caller with pointers it has freed (1378-1382), and the
   error path of ParseOptions frees them again: `options_double_free`.
   `FreedOnce` shows that this is the only way to a double free.
3. A dot in a directory becomes the extension of an extensionless name (1336):
   `options_dotted_dir`. `SourceFound` shows that the name is right otherwise.
4. The overflow test misses most decimal overflows (`origoref.c` 826), so that the
   number read is not the one written: `ref_lexer_number`. `FittingAccepted` shows
   that a number that fits is never refused, `NumberRead` that the value is right
   modulo 2^w in the bases 2, 8 and 10. In base 16 no number with a letter in it
   has its value (781, 783), which breaks the same property.
5. A run block is accepted without an `end` when the file stops right after one of
   its words (`origoref.c` 1317), although the comment at 1270 asks for one:
   `ref_parser_run`. The other direction of its property fails as well: a var block
   with a declaration in it is never accepted, for the loop over declarators ends
   only at the end of the file (1203-1217).
6. `@T[]` ends the program (`origoref.c` 1103, 866), although the comment at 1100
   makes the dimension of a pointer optional: `ref_parser_pointer`.

The free function never frees the item array (329). `OnlyItemsLeak` says so: a
block that no list reaches is an item array, and nothing else is ever lost.

`AcceptedAsDocumented` shows that the parser is otherwise that of its comments,
but for a superfluous last word (below).

The parser's context is not freed when the parse fails (2863-2868, 2819):
`NothingLeft` names it. No doc says that it is, so there is no run for it.

A file that ends in a lone carriage return is read for ever (`origoref.c` 577-583).
No doc says otherwise, so there is no run for it: `Terminates`, `Position`,
`IdentWhole`, `NumberRead` and `FittingAccepted` name the exception (a numeral
right before that carriage return is reread until it overflows). `Position` also shows that columns of the first line are
counted from 3.

What else the comparison of the parsers with their languages showed. These
are part of what the properties state and have no run of their own, for no doc or
comment of the repository says otherwise.

`origoref.c`, in `AcceptedAsDocumented` and its helpers and in the `InLanguage` of
`RefParserProofs`:

- an unknown word is accepted as the last one of a file (1335), because the error
  is told from the end of the file by `curCh` alone;
- a blank before the `[` of a type is refused (1097);
- `programx` is read as `program x` (1012);
- main does not test the symbol table it makes (1452); `MissingTableReported`
  says how little a source can contain for that to go unnoticed.

`origotoc.peg`, in `GrammarRef`:

- `<=` and `>=` cannot be used in constant expressions: `<` and `>` come first (2612);
- `++` at the beginning of a line belongs to the name before it (2437), and
  `else ++x` is misread;
- words that begin with a keyword lose it where the keyword is tried before names:
  `breakpoint`, `endpoint`, `gotox`, `whenx`, `thenx`, `nonesuch`, `integer`;
- `func`, `funcdecl` and `import func` need a type, although it is marked
  optional (1710, 1744, 1809): an optional part is never tried without;
- `@p` is an operand only after `++` or `--` (2555-2562); a call in an expression
  takes exactly one argument (2560); `if a then end` is accepted.

## 5. Proofs

### Key arrays

`KeyArrayProofs` proves, for any keys, payloads, growth step and capacity that
meet the assumptions of `KeyArray`:

- `Invariance`: `Spec => []Inv`, `Inv` being the conjunction of `TypeOK`,
  `Capacity`, `Sorted` and `SearchBracket`. None of them is inductive alone: a
  slot is read where `SearchBracket` says the probe is, it is allocated because
  of `Capacity`, and an insert keeps `Sorted` because `SearchBracket` says what
  lies left and right of the place the search ended on;
- `TypeCorrect`, `CapacityHolds`, `AlwaysSorted`, `SearchIsSound`: its parts;
- `SearchShrinks`: the action property `SearchProgress`, from the same invariant.

The assumptions are that the growth step is positive and below 2^w and that no
list has 2^(w-1) slots (`MemoryAssumption`), without which left + right wraps.

`KeyMapProofs` proves from the same invariant:

- `ImplementsMap`: `Spec => MapSpec`, the refinement of `KeyMap`. The steps of the
  search leave the map as it is; the last step changes the slots, and lemmas on
  what slots hold (`Holding...`) say what the map is afterwards: one entry more,
  one fewer, one changed or the same. That a search that fails fails because the
  key is not there is `SearchBracket` at its end. The rank of a key in the map is
  its index (`RankIsIndex`), because the keys ascend. One more invariant is
  needed, `KeysUsable`: no string list holds the empty key, or the call that
  refuses it would not be that of the map;
- `IndicesStable`: the action property `IndexStable`.

### Heap blocks

`KeyHeapProofs` proves, for any number of lists, names and blocks, and any
allocator that hands out only free blocks: `TypesKept`, `OwnersExclusive`,
`SlotsAreThere`, `OnlyArraysLost` and `FreesDefined`, so that the single address
and the view of the run are no restriction of these five. The inductive
invariant is `Sound`: every list is well formed (its pointers, counts and block
uses agree, its keys differ, a closed one has nothing), no two lists reach the
same block, and a block that no list reaches is an item array. Each needs the
others: a call that frees a block keeps the other lists only because they do not
reach it, a removal frees a key once only because the pointers in one list
differ. The lemma `OneList` is the frame argument common to all calls, and there
is a lemma for what each call does to its one list.

### Paths and options

`OptionsProofs` proves first, for paths of any length over any characters:

- `JoinFits`: the buffer JoinPath allocates is as long as what it writes;
- `SplitJoin`: splitting and joining give the path back, unless the name has no
  dot and a directory has one, which is the case the violation shows.

The least-element argument that stands in for induction is the lemma `Least`.

It then proves, for arguments of any length: `TypesHold`, `NamesOwned`,
`AllButContextReleased`, `NoDoubleFree`, from the invariant that joins `TypeOK`,
`OptionsOwnNames`, `NothingLeft` and `FreedOnce` with `Ownership`: which variables
hold blocks at each place of ParseOptions, that the two ways to tell (not
freed, not NULL) differ only after a failing split of `argv[2]`, and that the
parser's context is allocated from its creation to its destruction and beyond
only if the process ends with an error. `BuffersHold`
follows from `JoinFits`. `RightSource` adds what is known of the parts of the source
path at each place (`Naming`) and ends in `SplitJoin`.

### Lexer of origoref.c

`RefLexerProofs` proves, for files of any text and length, name buffers of any
length and an unsigned of any number of values from 16 up: `Types` (`TypeOK`),
`PositionKept` (`Position`), `NamesWhole` (`IdentWhole`), `NumbersRead`
(`NumberRead`), `FittingOnly` (`FittingAccepted`) and `GrammarFollowed`
(`GrammarAgrees`). The invariant has five parts, which were also checked by TLC:

- `TypeInv`, the types;
- `Cursor`: while a file that does not end in a carriage return is open, the
  reader is at a position `Index` of the text, the two characters it holds are
  those at that position and the next, line and column are those of that
  position, and a call never goes back;
- `Named`: in `ReadIdent`, all that was consumed since the call began are
  characters of names, and `ident` is as much of it as fits;
- `Counted`: in `ReadNumber`, `number` is the value of the digits consumed modulo
  2^w, the character held included, and a call that ended the program had read a
  numeral that does not fit;
- `Skipping`: in `SkipNonterminals`, the rule `_` of the grammar ends at the same
  place from here as from where the call began; inside a comment, at the place
  where the comment ends.

The step of `Cursor` is the one that ties `fgetc`, the two characters of
lookahead and the merging of a carriage return with the line feed after it
(`After`) to the text; the other parts then speak of the text alone. The
references are recursive in the text. They are recursive functions over the
positions, so that an unfolding by one character is a fact that can be
proved, and each induction is replaced by the least (or greatest) counterexample
(`LeastOf`, `GreatestOf`). That the position of the reader in the text goes up by
one with each character, although the file has characters that the text has
not, is a fact about counting: `EnumerationProofs` has it, and what else is needed
of the elements of a sequence that stand at given positions.

Assumed is what the run assumes: `SizeAssumption` (room for a character of a
name, 16 values or more, so that a digit is not itself reduced) and
`FilesAssumption` (files are sequences of characters).

### Parser of origoref.c

`RefParserProofs` proves, for any files: `TypeCorrect`, `SearchCorrect`
(`KeywordFound`), `TablesCounted` (`TablesOwned`), `LocalTableScoped`, `AllReleased`
(`NothingLeft`) and `ProgressMade` (`Progress`). The invariant adds `Bracket`: during
a search the words to the left of the interval are smaller and those to its
right greater than the one looked for, and a base type is searched for only
after `run`, which is what ties the search to the local table. From `Bracket` and
the order of the two tables a search that fails has failed rightly.

`LanguageAccepted` (`AcceptedAsDocumented`) and `MissingTableNoticed`
(`MissingTableReported`) rest on a second invariant, `Places`: `Parsing` says for
each place in the code where in the language the lexemes read have led (between
two blocks, after the word that begins one, after a word of a run block, after
var blocks), or that the file is not in the language, and `Tableless` the same of
a parser without a symbol table. `InLanguage` speaks of the words of a file by
their numbers, the parser of what is left of it, so most of the lemmas are about
counting: the next word is the one with the next number (`WordAhead`,
`AtAhead`), and each step of the parser reads as many words as the clause of
the language it goes with. `InLanguage` is the language exactly as the code has it;
`AcceptedIsDocumented` and `DocumentedIsAccepted` compare it with the documented
one: the empty var blocks of the one are var blocks of the other (`ClosedBlock`,
`BlockDocumented`).

### Grammar

`GrammarProofs` proves, for any files:

- `AlwaysAnswered`: `Spec => []Answered`. From a place on, an expression `Answers`
  when at each place it says whether it matches, with an end that is not before
  it nor outside of the file, and `Reads` when no match is empty besides. `Laws`
  says how both pass through choice, sequence, repetition and predicates; a
  sequence reads when its first part reads and the rest answers one place
  later. The rules are ranked by the calls they may make before they have read
  anything: those that begin with a literal or a name, those that begin with a
  call of these, and so on up to `loop_statement`, the fifth (`Known1` to
  `Known5`). If all rules are known from place i+1 on, the first rank is known
  from i on with one call more, the second with two, all with five
  (`ChainAnswers`); from the end of the file backwards that makes `Nesting`
  calls (`AllKnown`). All rules but `statement`, `loop_statement` and `unary_name`
  (and `program`, of which nothing is needed) also read, which is what their
  callers rest on;
- `FilesReadAsMeant`: the rules as equations, `h.EXPR[i] = EXPR(h)[i]` and so on
  (`Solves`), have exactly one solution at the places of the file. A file is
  accepted exactly when the solution says that `program` matches all of it, and
  what is printed is what the solution prints; so the bound `Nesting` and the way
  `RulesTo` goes about it are no part of the meaning. The lemmas are that deeper
  nesting never changes an answer (`Extends`, through every combinator and rule),
  so that the deepest nesting solves the equations (`DeepestSolves`), and that
  every solution extends each nesting (`SolutionExtends`), so that where all is
  answered it is the only one;
- what ordered choice makes of every file, told of the solution:
  `NameTakesStep` (a name that is an operand takes the `++` behind it across any
  blanks and line ends), `OperatorsAreWhole` (no table of operators or types cuts
  a literal of its own short, as no literal is in it before a longer one that
  begins with it (`Whole`); the one of constant comparisons always reads `<=` as
  `<`), `EndStopsLists` (a list of statements stops at the first `end`),
  `BreakAndNextWin` and `GotoWins` (in front of `break`, `next` and `goto` no other
  statement is ever read, whatever word they are the beginning of). These are
  the reasons for what `ExpressionsRead` and `StatementsSeparate` show of single
  files.

Assumed is that a file is a sequence (`ProgramsAssumption`). Recursive
definitions (`Many`, `RulesTo`) are recursive functions, whose equations are
proved (`ManyIs`, `RulesToIs`) with the least counterexample in the place of
induction.

### Only model-checked

Liveness (`Termination`, `Terminates`), which like `ENABLED` is out of the prover's
reach. `ExpressionsRead`, `StatementsSeparate` and `HeadersRead`: the language of
`GrammarRef` they compare the grammar with is told by folds over the pieces and
over the structure of statements, so that each is an induction over data, and
the grammar's answer for a program of unknown shape a new one for every shape;
what they rest on at a single place of a file is proved (`NameTakesStep` and the
theorems next to it).

## 6. Not modelled

- The line and column of ReadChar in `origotoc.peg` (1204-1256): only the text of
  the error message depends on them, and which character was last read is
  PackCC's choice of how far to fill its buffer. An error ends the process before
  any action has run, and that is modelled.
- What the translator stores in its tables: no statement of `origotoc.peg` calls
  an insert, so the components that would are only as far modelled as the code
  goes.
- `MarkToken`, `ReturnToken`, `ReadString`, `ParseStatement` and `ParseFuncStatement`
  of `origoref.c`: nothing calls them, or what they store is never read.
- The generated parser and PackCC (not in the repository or vendored),
  `new.peg` (a template without rules), samples, batch files, `tools/`. Printing is
  left out everywhere but in `Grammar`, where the tags are the output.

SplitPath, JoinPath, FreePtr and ParseOptions stand twice in the repository with
the same text; the models are mapped to one of the two. Of the two program
files about two thirds of the lines are mapped; the rest is the second copy,
printing, prototypes, blank lines and the unsigned twins of mapped functions.
The headers under `tools/` are vendored and make up nearly all other C code.

Nothing that the code decides is planned further. What would come next, were the
program to grow: the symbol table operations that the actions of the grammar do
not call yet, on top of `KeyArray`; and references of their own for the
declarations of the grammar.
