----------------------------- MODULE MCRefParser -----------------------------
(***************************************************************************)
(* Source files for TLC: what may stand at the top of a file, run blocks   *)
(* of up to six words, and var blocks of up to four lexemes, each with    *)
(* and without a blank at the end of the file.                             *)
(***************************************************************************)
EXTENDS RefParser

Lexeme(k) == IF k = "number" \/ k = "other" \/ k \in Marks
             THEN [kind |-> k, name |-> NoName] ELSE Blank
Type == 190   (* int *)
A == 5    (* A name before every keyword.                                  *)
Word(n) == <<Blank, Name(n)>>
Mark(k) == <<Lexeme(k)>>

Flat(ss) ==
  LET f[i \in 0 .. Len(ss)] == IF i = 0 THEN <<>> ELSE f[i-1] \o ss[i] IN f[Len(ss)]
Strings(items, n) == {Flat(ss) : ss \in UNION {[1 .. m -> items] : m \in 0 .. n}}
WellFormed(s) ==
  \A i \in 1 .. Len(s)-1 : {s[i].kind, s[i+1].kind} \notin {{"blank"}, {"name"}}

Ends == {<<>>, <<Blank>>}
Header == <<Name(Program), Blank, Name(X)>>
Headers ==
  {Header, <<>>, <<Name(Program)>>, <<Name(ProgramX)>>, <<Blank, Name(ProgramX)>>,
   <<Name(X), Blank, Name(X)>>, <<Name(Program), Lexeme("other")>>}
Keywords == {topLevelKeyword[i] : i \in 1 .. Len(topLevelKeyword)}

Tops == {h \o t \o e : h \in Headers, e \in Ends \cup {Mark("other")},
         t \in Strings({Word(n) : n \in Keywords \cup {A, End, X, Type}}, 1)}
Runs == {Header \o Word(Run) \o t \o e : e \in Ends \cup {Mark("other")},
         t \in Strings({Word(n) : n \in {Var, End, Run, X}}, 6)}
Types == {Header \o Word(Run) \o Word(Var) \o t \o e : e \in Ends,
          t \in Strings({Word(n) : n \in {End, Type}}
                        \cup {Mark(k) : k \in {"@", "[", "]", ",", "number"}} \cup {<<Blank>>}, 4)}
MCSources == {s \in Tops \cup Runs \cup Types : WellFormed(s)}

(* What the comments of the source speak of: a run block with its end or   *)
(* without, local variables, and pointers to arrays.                       *)
RunOf(t) == Header \o Word(Run) \o t
MCCommented ==
  {RunOf(Word(X) \o Word(X) \o e) : e \in {<<>>, Word(End) \o <<Blank>>}}
  \cup {RunOf(Word(Var) \o t \o Word(X) \o Word(End) \o Word(End) \o <<Blank>>) :
         t \in {Word(Type), <<Blank>> \o Mark("@") \o <<Name(Type)>> \o Mark("[") \o Mark("]")}}
=============================================================================
