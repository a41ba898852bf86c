----------------------------- MODULE GrammarRef -----------------------------
(***************************************************************************)
(* What the programs of the language are meant to say, told without the    *)
(* ordered choices of the grammar: an automaton for expressions, what      *)
(* statements print and where two of them run together, and the specs that *)
(* a function can have.  Grammar is compared with it.                      *)
(***************************************************************************)
EXTENDS Grammar, SequencesExt

Start == <<"program", Blank, "p", Blank>>
Assignment == <<"x", "=">>
ConstDeclaration == <<"const", Blank, "in", "t", Blank, "c", "=">>
InRun(body) == Start \o <<"run", Blank>> \o body \o <<Blank, "end">>

Prints(tag, pieces) == <<[tag |-> tag, text |-> pieces]>>
Bare(pieces) == SelectSeq(pieces, LAMBDA p : p # Blank)
RunPrints(events) ==
  Prints("PROGRAM", <<"program", "p">>) \o Prints("RUN", <<"run">>)
  \o events \o Prints("ENDRUN", <<"end">>)
Reading(events) == status = "accepted" /\ out = events
-----------------------------------------------------------------------------
(* Expressions.  The state of the automaton after some pieces is where it  *)
(* is, whether the expression around it is constant, and the brackets that *)
(* are open.  Where it is:                                                 *)
(*   operand   at the beginning of an operand or of a unary operator       *)
(*   plus      the same, directly after a unary +                          *)
(*   step      the same, directly after two of them, then                  *)
(*   stepped   after the blank that follows                                *)
(*   pointer   after @                                                     *)
(*   name      after a name that can be called                             *)
(*   pointed   after a name that cannot                                    *)
(*   name +    directly after a name and +                                 *)
(*   done      after any other operand                                     *)
(*   < & = !   directly after the first piece of a binary operator         *)
(*   stuck     no expression begins this way                               *)
Now(at, s) == [s EXCEPT !.at = at]
Stuck(s) == Now("stuck", s)
Open(s, const) == [at |-> "operand", const |-> const, open |-> Append(s.open, s.const)]
Close(s) ==
  IF s.open = <<>> THEN Stuck(s)
  ELSE [at |-> "done", const |-> Last(s.open), open |-> Front(s.open)]

OperandStep(s, p) ==
  CASE p = Blank -> Now(IF s.at \in {"step", "stepped"} THEN "stepped" ELSE "operand", s)
    [] p = "+" -> Now(IF s.at \in {"plus", "step"} THEN "step" ELSE "plus", s)
    [] p = "!" -> Now("operand", s)
    [] p = "@" -> IF s.const \/ s.at \in {"step", "stepped"} THEN Now("pointer", s) ELSE Stuck(s)
    [] p = "(" -> Open(s, s.const)
    [] p = "a" -> Now("name", s)
    [] p \in Digits -> Now("done", s)
    [] OTHER -> Stuck(s)

(* The one argument of a call is never a constant expression.              *)
AfterOperand(s, p) ==
  CASE p = Blank -> s
    [] p = ")" -> Close(s)
    [] p = "(" -> IF s.at = "name" THEN Open(s, FALSE) ELSE Stuck(s)
    [] p = "+" -> Now(IF s.at = "done" THEN "operand" ELSE "name +", s)
    [] p \in {"<", "&", "=", "!"} -> Now(p, s)
    [] OTHER -> Stuck(s)

(* A second piece makes it another operator: ++ after a name is always the *)
(* one on its right, and <= is none in a constant expression.              *)
AfterOperator(s, p) ==
  CASE s.at = "name +" /\ p = "+" -> Now("done", s)
    [] <<s.at, p>> \in {<<"<", "<">>, <<"&", "&">>, <<"=", "=">>, <<"!", "=">>} -> Now("operand", s)
    [] s.at = "<" /\ p = "=" /\ ~s.const -> Now("operand", s)
    [] s.at \in {"=", "!"} -> Stuck(s)
    [] OTHER -> OperandStep(Now("operand", s), p)

After(p, s) ==
  CASE s.at \in {"operand", "plus", "step", "stepped"} -> OperandStep(s, p)
    [] s.at \in {"name", "pointed", "done"} -> AfterOperand(s, p)
    [] s.at = "pointer" -> (IF p = Blank THEN s ELSE IF p = "a" THEN Now("pointed", s) ELSE Stuck(s))
    [] s.at = "stuck" -> s
    [] OTHER -> AfterOperator(s, p)

IsExpression(e, const) ==
  LET s == FoldLeft(LAMBDA u, p : After(p, u), [at |-> "operand", const |-> const, open |-> <<>>], e)
  IN s.at \in {"name", "pointed", "done"} /\ s.open = <<>>

RunExpression(e) == [form |-> "expression", e |-> e, text |-> InRun(Assignment \o e)]
ConstExpression(e) == [form |-> "constant", e |-> e, text |-> Start \o ConstDeclaration \o e]

(* The value of a run block's assignment and of a constant is read as one  *)
(* expression exactly when it is one: the ordered choices of operators and *)
(* operands cut no expression short (except <= in a constant) and leave    *)
(* nothing behind that another statement takes.                            *)
ExpressionsRead ==
  status # "reading" =>
    /\ part.form = "expression" =>
         (Reading(RunPrints(Prints("VAREXPR", Assignment \o Bare(part.e))))
            <=> IsExpression(part.e, FALSE))
    /\ part.form = "constant" =>
         (Reading(Prints("PROGRAM", <<"program", "p">>)
                  \o Prints("CONST", Bare(ConstDeclaration \o part.e)))
            <=> IsExpression(part.e, TRUE))
-----------------------------------------------------------------------------
(* Statements: what is written, what it prints, the first pieces of the    *)
(* statements it is a sequence of, how it ends, and whether it is misread: *)
(* anywhere, outside a loop, or inside of one.  It ends in "name" when its *)
(* last expression ends in a name, which takes a ++ that follows.          *)
Statement(written, printed, ends) ==
  [written |-> written, printed |-> printed, heads |-> {Head(written)}, ends |-> ends,
   misread |-> Head(written) \in {"end", "goto"}, outside |-> FALSE,
   inside |-> Head(written) \in {"break", "next"}]
Simple(tag, written, ends) == Statement(written, Prints(tag, Bare(written)), ends)
AssignTo(n) == Simple("VAREXPR", n \o <<Blank, "=", Blank, "a">>, "name")
Increment(n) == Simple("VAREXPR", n \o <<"+", "+">>, "other")
Preincrement(n) == Simple("VAREXPR", <<"+", "+">> \o n, "name")
CallOf(n) == Simple("MFCALL", n \o <<"(", "a", ")">>, "other")
LabelOf(n) == Simple("LABEL", n \o <<":">>, "other")
ByPointer(n) == Simple("PTREXPR", <<"@">> \o n \o <<"=", "a">>, "name")
Exit == Simple("EXIT", <<"exit", "(", "a", ")">>, "other")
Goto(n) == [Simple("GOTO", <<"goto", Blank>> \o n, "other") EXCEPT !.misread = FALSE]
Leave(word) ==
  [Simple(word[1], <<word[2]>>, "other") EXCEPT !.outside = TRUE, !.inside = FALSE]

Nothing ==
  [written |-> <<>>, printed |-> <<>>, heads |-> {}, ends |-> "other",
   misread |-> FALSE, outside |-> FALSE, inside |-> FALSE]
Join(s, t) ==
  IF t = Nothing THEN s
  ELSE [written |-> s.written \o <<Blank>> \o t.written, printed |-> s.printed \o t.printed,
        heads |-> s.heads \cup t.heads, ends |-> t.ends,
        misread |-> s.misread \/ t.misread \/ (s.ends = "name" /\ Head(t.written) = "+"),
        outside |-> s.outside \/ t.outside, inside |-> s.inside \/ t.inside]
(* The words around statements: an else takes a ++ as a name does.         *)
Keywords(tag, written, ends) ==
  [Nothing EXCEPT !.written = written, !.printed = Prints(tag, Bare(written)), !.ends = ends]
Enclosed(begin, s, end) ==
  [Join(Join(begin, s), end) EXCEPT !.heads = {Head(begin.written)}]
IfA == Keywords("IF", <<"if", Blank, "a">>, "name")
Else == Keywords("ELSE", <<"else">>, "name")
EndIf == Keywords("ENDIF", <<"end", "if">>, "other")
IfThenDo(s) ==
  Enclosed([IfA EXCEPT !.written = @ \o <<Blank, "then">>,
                       !.printed = Prints("IFTHEN", <<"if", "a">>), !.ends = "other"], s, Nothing)
IfElse(s, t) ==
  LET both == Enclosed(IfA, s, Enclosed(Else, t, EndIf))
  IN [both EXCEPT !.misread = @ \/ (s # Nothing /\ Head(s.written) = "then")]
Loop(begin, s, end, stop) ==
  [Enclosed(begin, s, end) EXCEPT
     !.misread = @ \/ s.inside \/ stop \in s.heads, !.inside = FALSE, !.outside = FALSE]
ForOf(s) ==
  Loop([Keywords("FOR", <<"for", Blank, "i">>, "name") EXCEPT
          !.written = @ \o <<Blank, "=", Blank, "a", Blank, "to", Blank, "a">>,
          !.printed = @ \o Prints("RANGE", <<"=", "a", "to", "a">>)],
       s, Keywords("ENDFOR", <<"end", "for">>, "other"), "end")
RepeatOf(s) ==
  Loop(Keywords("REPEAT", <<"repeat">>, "other"), s,
       Keywords("WHEN", <<"when", Blank, "a">>, "name"), "when")
WhileOf(s) ==
  Loop(Keywords("WHILE", <<"while", Blank, "a">>, "name"), s,
       Keywords("ENDWHILE", <<"end", "while">>, "other"), "end")

RunBody(s) ==
  [form |-> "body", text |-> InRun(s.written), printed |-> s.printed,
   misread |-> s.misread \/ s.outside]

(* A run block is accepted with each of its statements printed as written, *)
(* in their order and nothing else, exactly when no statement that begins  *)
(* with ++ follows a name or an else, no statement begins with a name that *)
(* begins with a keyword tried before names where it stands, and break and *)
(* next stand in loops only.                                               *)
StatementsSeparate ==
  status # "reading" /\ part.form = "body" =>
    (Reading(RunPrints(part.printed)) <=> ~part.misread)
-----------------------------------------------------------------------------
(* Headers of functions: the words between the first and the name.         *)
CallSpec == <<"cdecl">>
None == <<"none">>
FunctionWords == [
  func |-> <<<<"func">>, <<"end">>>>,
  method |-> <<<<"method">>, <<"end">>>>,
  operator |-> <<<<"operator">>, <<"end">>>>,
  prototype |-> <<<<"func", "decl">>, <<>>>>,
  member |-> <<<<"in", "t", "erface", Blank, "i", Blank, "method">>, <<"end">>>>,
  import |-> <<<<"import", Blank, "func">>, <<"from", "'", "q", "'">>>>]
Spread(words) == FoldLeft(LAMBDA a, b : a \o <<Blank>> \o b, <<>>, words)
FunctionHeader(k, specs, name) ==
  [form |-> "header", kind |-> k, specs |-> specs, name |-> name,
   text |-> <<"program", Blank, "p">>
            \o Spread(<<FunctionWords[k][1]>> \o specs
                      \o <<name \o <<"(", ")">>, FunctionWords[k][2]>>)]

(* A type of its own: int is a type, and what follows it another word.     *)
IsType(w) == ~(Len(w) > 2 /\ w[1] = "in" /\ w[2] = "t")
(* Only cdecl alone needs no type next to it, and only before a body; none *)
(* is a name like others in a prototype, and cdecl anywhere a type.        *)
SpecsAllowed(k, specs) ==
  LET Result(w) == IsType(w) /\ (k \in {"func", "method", "operator"} => w[1] # "none")
      NoResult(w) == k \in {"func", "method"} /\ w = None
  IN \/ Len(specs) = 1 /\ (Result(specs[1]) \/ NoResult(specs[1]))
           /\ (specs[1] = CallSpec => k \in {"func", "method", "operator"})
     \/ Len(specs) = 2 /\ k \in {"prototype", "member", "import"}
           /\ specs[1] = CallSpec /\ Result(specs[2])
     \/ Len(specs) = 2 /\ k \in {"func", "method", "operator", "import"}
           /\ specs[2] = CallSpec /\ (Result(specs[1]) \/ NoResult(specs[1]))
(* A name takes cdecl for itself only when no other can.                   *)
NameCut(k, specs, name) ==
  /\ name[1] = "cdecl" /\ Len(specs) = 1 /\ specs[1] # CallSpec
  /\ k \in {"func", "method", "operator", "import"}

(* The header of a function, method, operator or prototype is read with    *)
(* the specs and the name that are written exactly when the specs are      *)
(* allowed there and the name does not begin with a call spec.             *)
HeadersRead ==
  status # "reading" /\ part.form = "header" =>
    LET tags == {"SPECS", "NAME"}
    IN (/\ status = "accepted"
        /\ SelectSeq(out, LAMBDA e : e.tag \in tags)
             = Prints("SPECS", FlattenSeq(part.specs)) \o Prints("NAME", part.name))
       <=> (SpecsAllowed(part.kind, part.specs) /\ ~NameCut(part.kind, part.specs, part.name))
=============================================================================
