----------------------------- MODULE MCGrammar -----------------------------
(***************************************************************************)
(* Programs for TLC: expressions of up to five pieces over five            *)
(* alphabets; run blocks of two simple statements, and of compound         *)
(* statements around and next to simple ones; headers of up to two specs.  *)
(***************************************************************************)
EXTENDS GrammarRef

Texts(S, n) == UNION {[1 .. m -> S] : m \in 1 .. n}
IsText(e) ==
  /\ e[1] # Blank /\ e[Len(e)] # Blank
  /\ \A i \in 1 .. Len(e)-1 :
       /\ ~(InWord(e[i]) /\ InWord(e[i+1]))
       /\ ~(e[i] = Blank /\ e[i+1] = Blank)
Expressions ==
  {e \in Texts({"a", "1", "+", "@"}, 5) \cup Texts({"a", "1", "+", "@", Blank}, 4)
         \cup Texts({"a", "(", ")", "@"}, 5) \cup Texts({"a", "(", ")", "+"}, 5)
         \cup Texts({"a", "<", "=", "&", "!", Blank}, 4) : IsText(e)}

Names == {<<"a">>, <<"end", "a">>, <<"goto", "a">>, <<"break", "a">>, <<"when", "a">>, <<"then", "a">>}
Labels == {LabelOf(n) : n \in Names}
Simples ==
  UNION {{AssignTo(n), Increment(n), Preincrement(n), CallOf(n), Goto(n), ByPointer(n)} : n \in Names}
  \cup {Exit, Leave(<<"BREAK", "break">>), Leave(<<"NEXT", "next">>)}
Short ==
  {AssignTo(<<"a">>), AssignTo(<<"break", "a">>), AssignTo(<<"when", "a">>), Preincrement(<<"a">>),
   Increment(<<"a">>), Leave(<<"BREAK", "break">>)}
Compounds(S) ==
  {IfThenDo(s) : s \in S} \cup {IfElse(s, Nothing) : s \in S} \cup {IfElse(Nothing, s) : s \in S}
  \cup {ForOf(s) : s \in S} \cup {RepeatOf(s) : s \in S} \cup {WhileOf(s) : s \in S}
Pairs(S, T) == {Join(s, t) : s \in S, t \in T}
Nested == Compounds(Short)
Bodies ==
  Pairs(Simples \cup Labels, Simples) \cup Compounds(Simples \cup Labels)
  \cup {IfElse(s, t) : s \in Short, t \in Short}
  \cup Pairs(Nested, Short) \cup Pairs(Short, Nested) \cup Compounds(Nested)
  \cup Compounds(Pairs(Short, Short)) \cup Compounds(Compounds({Leave(<<"BREAK", "break">>)}))

Words == {<<"in", "t">>, <<"in", "t", "x">>, <<"T">>, <<"none", "x">>, None, CallSpec}
Headers ==
  {FunctionHeader(k, specs, name) :
     k \in {"func", "prototype", "member", "import"},
     specs \in UNION {[1 .. m -> Words] : m \in 0 .. 2}, name \in {<<"f">>, <<"cdecl", "f">>}}
  \cup {FunctionHeader("method", specs, name) :
     specs \in UNION {[1 .. m -> Words] : m \in 0 .. 2},
     name \in {<<"o", ".", "f">>, <<"cdecl", "o", ".", "f">>}}
  \cup {FunctionHeader("operator", specs, <<"+">>) :
     specs \in UNION {[1 .. m -> Words] : m \in 0 .. 2}}

MCPrograms ==
  {RunExpression(e) : e \in Expressions} \cup {ConstExpression(e) : e \in Expressions}
  \cup {RunBody(s) : s \in Bodies} \cup Headers
=============================================================================
