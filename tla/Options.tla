------------------------------ MODULE Options ------------------------------
(***************************************************************************)
(* The process from main to exit (origotoc.peg 2697-2871): ParseOptions    *)
(* builds the four file names out of the command line through SplitPath    *)
(* and JoinPath, main opens the source file and parses it, and Cleanup,    *)
(* registered with atexit, releases what is left.  Every allocation may    *)
(* fail; the parse itself is a step that returns or calls exit(1).         *)
(* origoref.c has the same ParseOptions (259-377).                         *)
(*                                                                         *)
(* Each pointer variable receives at most one block, so a block goes by    *)
(* the name of the variable that malloc filled.  All that the generated    *)
(* parser allocates, from pcc_create on, counts as one block more.         *)
(***************************************************************************)
EXTENDS Paths

CONSTANTS
  FirstArguments,   (* Values of argv[1].                                  *)
  SecondArguments   (* Values of argv[2].                                  *)

ASSUME ArgumentsAssumption ==
  /\ FirstArguments \subseteq Path /\ SecondArguments \subseteq Path
  /\ {"ret", "exe", "rtc", "rth"} \subseteq Chars

SourceParts == <<"sourceDir", "sourceBaseName", "sourceExt">>
BinaryParts == <<"binaryDir", "binaryBaseName", "binaryExt">>
FileNames == <<"sourceFileName", "cFileName", "hFileName", "binaryFileName">>
Elements(s) == {s[i] : i \in 1 .. Len(s)}
Temporaries == Elements(SourceParts) \cup Elements(BinaryParts)
Pointers == Temporaries \cup Elements(FileNames)

Context == "context"   (* What pcc_create allocates and ctx points to.    *)

DotRet == <<Dot, "ret">>
DotExe == <<Dot, "exe">>
DotRtc == <<Dot, "rtc">>
DotRth == <<Dot, "rth">>

VARIABLES
  pc,         (* Where the process is.                                     *)
  argv,       (* The arguments after the program name.                     *)
  live,       (* The blocks allocated and not freed.                       *)
  set,        (* The local pointers of ParseOptions that are not NULL.     *)
  string,     (* The string each of them was given.                        *)
  options,    (* The pointers of the options record that are not NULL.     *)
  handle,     (* The source file is open.                                  *)
  result,     (* What ParseOptions returns, 0 while it may still succeed.  *)
  undefined,  (* A block was freed that was not allocated.                 *)
  status      (* The exit status of the process.                           *)

vars == <<pc, argv, live, set, string, options, handle, result, undefined, status>>

Steps == {"main", "binary", "join", "release", "fail",
          "open", "create", "parse", "destroy", "exit", "ended"}

(* Allocate these pointers; strings gives what each of them holds.         *)
Allocate(ptrs, strings) ==
  /\ live' = live \cup ptrs
  /\ set' = set \cup ptrs
  /\ string' = [p \in Pointers |-> IF p \in ptrs THEN strings[p] ELSE string[p]]

(* FreePtr on each of these variables: NULL is ignored, the rest freed and *)
(* set to NULL.                                                            *)
FreePtrs(ptrs) ==
  /\ undefined' = ~(set \cap ptrs \subseteq live)
  /\ live' = live \ (set \cap ptrs)
  /\ set' = set \ ptrs

(* The parts of a path, by the variables that receive them; SplitPath      *)
(* allocates those that are not empty, in this order.                      *)
Parts(vs, p) ==
  [v \in Pointers |-> CASE v = vs[1] -> Dir(p)
                       [] v = vs[2] -> BaseName(p)
                       [] v = vs[3] -> Ext(p)
                       [] OTHER -> <<>>]
Wanted(vs, p) == {v \in Elements(vs) : Parts(vs, p)[v] # <<>>}
Before(vs, n) == {vs[m] : m \in 1 .. n-1}

SplitPath(p, vs) ==
  /\ ~SplitRefuses(p)
  /\ Allocate(Wanted(vs, p), Parts(vs, p))

(* An allocation of SplitPath fails.  The parts allocated before it have   *)
(* been handed to the caller already; the error path frees them through    *)
(* its own variables and the caller's pointers keep their value.           *)
SplitFails(p, vs) ==
  /\ UNCHANGED <<live, string>>
  /\ \/ SplitRefuses(p) /\ UNCHANGED set
     \/ /\ ~SplitRefuses(p)
        /\ \E n \in 1 .. 3 :
             /\ vs[n] \in Wanted(vs, p)
             /\ set' = set \cup (Wanted(vs, p) \cap Before(vs, n))
-----------------------------------------------------------------------------
Init ==
  /\ pc = "main"
  /\ argv \in {<<>>} \cup {<<a>> : a \in FirstArguments}
              \cup {<<a, b>> : a \in FirstArguments, b \in SecondArguments}
  /\ live = {} /\ set = {} /\ options = {}
  /\ string = [p \in Pointers |-> <<>>]
  /\ handle = FALSE /\ result = 0 /\ undefined = FALSE /\ status = 0

(* Without arguments the usage is printed and the process exits.           *)
PrintUsage ==
  /\ pc = "main"
  /\ argv = <<>>
  /\ pc' = "exit" /\ status' = 1
  /\ UNCHANGED <<argv, live, set, string, options, handle, result, undefined>>

(* A failing split of argv[1] returns at once, whatever it left behind in  *)
(* the local pointers, and main exits on the error code.                   *)
SplitSource ==
  /\ pc = "main"
  /\ argv # <<>>
  /\ \/ /\ SplitPath(argv[1], SourceParts)
        /\ pc' = "binary"
        /\ UNCHANGED <<result, status>>
     \/ /\ SplitFails(argv[1], SourceParts)
        /\ result' = 2
        /\ pc' = "exit" /\ status' = 1
  /\ UNCHANGED <<argv, options, handle, undefined>>

(* What the parts default to, in the order the code sees to them; sourceExt*)
(* only when the source has no extension, the others always.  The error    *)
(* codes count from 3.                                                     *)
Defaulted == <<"binaryDir", "binaryBaseName", "sourceExt", "binaryExt">>
Defaults ==
  [v \in Pointers |-> CASE v = "binaryDir" -> string["sourceDir"]
                       [] v = "binaryBaseName" -> string["sourceBaseName"]
                       [] v = "sourceExt" -> DotRet
                       [] v = "binaryExt" -> DotExe
                       [] OTHER -> <<>>]
Needed ==
  {"binaryExt"}
  \cup {v \in {"binaryDir"} : "sourceDir" \in set}
  \cup {v \in {"binaryBaseName"} : "sourceBaseName" \in set}
  \cup {v \in {"sourceExt"} : "sourceExt" \notin set}

(* With one argument the binary is named after the source, and a source    *)
(* without an extension gets .ret.                                         *)
DefaultBinary ==
  /\ pc = "binary"
  /\ Len(argv) = 1
  /\ \/ /\ Allocate(Needed, Defaults)
        /\ pc' = "join"
        /\ UNCHANGED result
     \/ \E n \in 1 .. 4 :
          /\ Defaulted[n] \in Needed
          /\ Allocate(Needed \cap Before(Defaulted, n), Defaults)
          /\ result' = 2 + n
          /\ pc' = "fail"
  /\ UNCHANGED <<argv, options, handle, undefined, status>>

SplitBinary ==
  /\ pc = "binary"
  /\ Len(argv) = 2
  /\ \/ /\ SplitPath(argv[2], BinaryParts)
        /\ pc' = "join"
        /\ UNCHANGED result
     \/ /\ SplitFails(argv[2], BinaryParts)
        /\ result' = 7
        /\ pc' = "fail"
  /\ UNCHANGED <<argv, options, handle, undefined, status>>

(* The components each file name is joined from; NULL is the empty one.    *)
Part(v) == IF v \in set THEN string[v] ELSE <<>>
Components(name) ==
  CASE name = "sourceFileName" -> <<Part("sourceDir"), Part("sourceBaseName"), Part("sourceExt")>>
    [] name = "cFileName" -> <<Part("binaryDir"), Part("binaryBaseName"), DotRtc>>
    [] name = "hFileName" -> <<Part("binaryDir"), Part("binaryBaseName"), DotRth>>
    [] name = "binaryFileName" -> <<Part("binaryDir"), Part("binaryBaseName"), Part("binaryExt")>>
Joined(name) ==
  LET c == Components(name) IN Join(c[1], c[2], c[3])
JoinFails(name) ==
  LET c == Components(name) IN JoinRefuses(c[1], c[2], c[3])

(* Mutant of JoinName: the error codes start one too high.                 *)
JoinNameMiscoded ==
  /\ pc = "join"
  /\ \E n \in 1 .. 4 :
       /\ FileNames[n] \notin set
       /\ result' = 8 + n
  /\ pc' = "fail"
  /\ UNCHANGED <<argv, live, set, string, options, handle, undefined, status>>

(* The next of the four file names is joined, or fails to be.              *)
JoinName ==
  /\ pc = "join"
  /\ \E n \in 1 .. 4 :
       /\ FileNames[n] \notin set
       /\ \A m \in 1 .. n-1 : FileNames[m] \in set
       /\ \/ /\ ~JoinFails(FileNames[n])
             /\ Allocate({FileNames[n]}, [v \in {FileNames[n]} |-> Joined(v)])
             /\ pc' = IF n = 4 THEN "release" ELSE "join"
             /\ UNCHANGED result
          \/ /\ result' = 7 + n
             /\ pc' = "fail"
             /\ UNCHANGED <<live, set, string>>
  /\ UNCHANGED <<argv, options, handle, undefined, status>>

(* Mutant of ReleaseParts: the names are freed with the parts.             *)
ReleaseEverything ==
  /\ pc = "release"
  /\ options' = Elements(FileNames)
  /\ FreePtrs(Pointers)
  /\ pc' = "open"
  /\ UNCHANGED <<argv, string, handle, result, status>>

(* Success: the names pass to the options, the parts are freed.            *)
ReleaseParts ==
  /\ pc = "release"
  /\ options' = Elements(FileNames)
  /\ FreePtrs(Temporaries)
  /\ pc' = "open"
  /\ UNCHANGED <<argv, string, handle, result, status>>

(* Mutant of ExitError: the names joined so far are kept.                  *)
ExitErrorPartsOnly ==
  /\ pc = "fail"
  /\ FreePtrs(Temporaries)
  /\ pc' = "exit" /\ status' = 1
  /\ UNCHANGED <<argv, string, options, handle, result>>

(* ExitError: parts and names are freed, and main exits on the error code. *)
ExitError ==
  /\ pc = "fail"
  /\ FreePtrs(Pointers)
  /\ pc' = "exit" /\ status' = 1
  /\ UNCHANGED <<argv, string, options, handle, result>>

OpenSource ==
  /\ pc = "open"
  /\ \/ handle' = TRUE /\ pc' = "create" /\ UNCHANGED status
     \/ handle' = FALSE /\ pc' = "exit" /\ status' = 1
  /\ UNCHANGED <<argv, live, set, string, options, result, undefined>>

(* pcc_create.  PackCC calls exit(1) when it is out of memory, whatever it *)
(* has allocated by then.                                                  *)
CreateContext ==
  /\ pc = "create"
  /\ \/ live' = live \cup {Context} /\ pc' = "parse" /\ UNCHANGED status
     \/ live' \in {live, live \cup {Context}} /\ pc' = "exit" /\ status' = 1
  /\ UNCHANGED <<argv, set, string, options, handle, result, undefined>>

(* The parser returns, after as many calls as it takes, or calls exit from *)
(* ParseError, or from PackCC out of memory, with its context allocated.   *)
Parse ==
  /\ pc = "parse"
  /\ \/ pc' = "destroy" /\ UNCHANGED status
     \/ pc' = "exit" /\ status' = 1
  /\ UNCHANGED <<argv, live, set, string, options, handle, result, undefined>>

DestroyContext ==
  /\ pc = "destroy"
  /\ live' = live \ {Context}
  /\ pc' = "exit"
  /\ UNCHANGED <<argv, set, string, options, handle, result, undefined, status>>

(* The symbol tables are NULL: nothing in this version creates one.  The   *)
(* context is a local variable of main, out of reach here.                 *)
Cleanup ==
  /\ pc = "exit"
  /\ undefined' = (undefined \/ ~(options \subseteq live))
  /\ live' = live \ options
  /\ options' = {}
  /\ handle' = FALSE
  /\ pc' = "ended"
  /\ UNCHANGED <<argv, set, string, result, status>>

Next ==
  \/ PrintUsage \/ SplitSource \/ SplitBinary \/ DefaultBinary \/ JoinName
  \/ ReleaseParts \/ ExitError
  \/ OpenSource \/ CreateContext \/ Parse \/ DestroyContext \/ Cleanup

Spec == Init /\ [][Next]_vars
-----------------------------------------------------------------------------
TypeOK ==
  /\ pc \in Steps
  /\ argv \in Seq(Path)
  /\ live \subseteq Pointers \cup {Context}
  /\ set \subseteq Pointers
  /\ string \in [Pointers -> Path]
  /\ options \subseteq Elements(FileNames)
  /\ handle \in BOOLEAN
  /\ result \in 0 .. 11
  /\ undefined \in BOOLEAN
  /\ status \in {0, 1}

(* While ParseOptions still succeeds its pointers are exactly the blocks   *)
(* it holds; when it has, the four names of the options, and the context   *)
(* while there is a parser, are all that is left, until Cleanup.           *)
OptionsOwnNames ==
  /\ pc \in {"binary", "join", "release"} => set = live
  /\ pc \in {"open", "create", "parse", "destroy"} =>
       /\ options = Elements(FileNames)
       /\ live = options \cup (IF pc \in {"parse", "destroy"} THEN {Context} ELSE {})

(* However the process ends, and whichever allocation failed, Cleanup      *)
(* leaves no file open and no block allocated, but one: the context of the *)
(* parser, when pcc_create or pcc_parse called exit.  A process that       *)
(* reports success leaves nothing.                                         *)
NothingLeft ==
  pc = "ended" =>
    /\ ~handle
    /\ live \subseteq {Context}
    /\ status = 0 => live = {}

(* No path through the error handling frees a block twice, but one: a      *)
(* failing split of argv[2] (error code 7).                                *)
FreedOnce == undefined => result = 7

(* A buffer of totalLen characters holds each name joined from its parts.  *)
BufferExact ==
  \A name \in Elements(FileNames) :
    LET c == Components(name)
    IN TotalLen(c[1], c[2], c[3]) = Len(Join(c[1], c[2], c[3]))

(* The last component of the path has a dot that is not its first          *)
(* character; all its dots are in the last component.                      *)
NamesExtension(p) ==
  \E i \in 2 .. Len(p) :
    /\ p[i] = Dot /\ p[i-1] \notin Separators
    /\ \A j \in i .. Len(p) : p[j] \notin Separators
DotsInLastComponent(p) ==
  \A i \in 1 .. Len(p) : p[i] = Dot => \A j \in i .. Len(p) : p[j] \notin Separators

(* The source file opened is argv[1] itself when it names an extension;    *)
(* without one it is argv[1].ret, or argv[1] when a binary is named too.   *)
(* It holds unless a directory of an extensionless path has a dot.         *)
SourceFound ==
  pc = "open" /\ (NamesExtension(argv[1]) \/ DotsInLastComponent(argv[1])) =>
    string["sourceFileName"] =
      IF NamesExtension(argv[1]) \/ Len(argv) = 2 THEN argv[1] ELSE argv[1] \o DotRet

(* "Release temporary path components" (origotoc.peg 2802): the error path *)
(* releases what is still allocated.                                       *)
PartsReleasedOnce == ~undefined

(* "usage: origotoc source[.ret] [binary.exe]" (origotoc.peg 2694): the    *)
(* file translated is the source named, with or without .ret.              *)
SourceAsNamed ==
  pc = "open" => string["sourceFileName"] \in {argv[1], argv[1] \o DotRet}
=============================================================================
