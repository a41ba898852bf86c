------------------------------ MODULE Grammar ------------------------------
(***************************************************************************)
(* The grammar of origotoc.peg (1533-2684) as a recognizer: a program is   *)
(* read by its ordered choices, and what its actions print comes out.      *)
(*                                                                         *)
(* A file is a sequence of pieces: punctuation characters, digits, blanks  *)
(* (any run of spaces, line ends and comments), and the pieces that the    *)
(* literals of the grammar cut words into.  endif is end and if, and       *)
(* breakpoint is break and another piece: a literal does not ask where the *)
(* word ends.                                                              *)
(*                                                                         *)
(* Of what an action prints, the tag and the text its rule has matched are *)
(* kept.  Left-recursive rules are written as the repetition that PackCC   *)
(* grows them to; the rule _ of the grammar is Blanks here.                *)
(***************************************************************************)
EXTENDS Integers, Sequences

CONSTANT Programs   (* The source files, as records with their text; the  *)
                    (* other fields say what a file was written to be.    *)
ASSUME ProgramsAssumption == \A p \in Programs : p.text \in Seq(STRING)

Blank == " "
Digits == {"1", "8", "16", "32", "64"}
Punctuation ==
  {"(", ")", "[", "]", ",", ".", ":", "=", "+", "-", "*", "/", "%", "~", "!",
   "<", ">", "&", "|", "^", "@", "'"}
IsWordPiece(p) == p # Blank /\ p \notin Punctuation \cup Digits
InWord(p) == IsWordPiece(p) \/ p \in Digits

VARIABLES
  text,      (* The source file.                                           *)
  part,      (* What it was written to be, for the properties only.        *)
  status,    (* The parser has yet to run, has accepted, has called        *)
             (* ParseError, or is lost in calls of its own.                *)
  out        (* What was printed.                                          *)
vars == <<text, part, status, out>>
-----------------------------------------------------------------------------
(* A parsing expression is a function that says for each place in the text *)
(* where a match that begins there ends, 0 if there is none and -1 if that *)
(* is not known, and what its actions print.                               *)
Places == 1 .. Len(text)+1
At(i) == [end |-> i, out |-> <<>>]
Failed == At(0)
Unknown == At(-1)

(* The ordered choice, the sequence, and the sequence with the rule _      *)
(* between.                                                                *)
a | b == [i \in Places |-> LET m == a[i] IN IF m.end = 0 THEN b[i] ELSE m]
m ++ n == [end |-> n.end, out |-> m.out \o n.out]
a & b == [i \in Places |-> LET m == a[i] IN IF m.end > 0 THEN m ++ b[m.end] ELSE m]
(* Mutant of Many: a match of nothing does not end them.                   *)
ManyForever(a) ==
  LET from[i \in Places] ==
        LET m == a[i]
        IN IF m.end \in i+1 .. Len(text)+1 THEN m ++ from[m.end]
           ELSE IF m.end = 0 THEN At(i) ELSE Unknown
  IN from
(* As many as there are; a match of nothing ends them, too.                *)
Many(a) ==
  LET from[i \in Places] ==
        LET m == a[i]
        IN IF m.end \in i+1 .. Len(text)+1 THEN m ++ from[m.end]
           ELSE IF m.end < 0 THEN m ELSE At(i)
  IN from
Not(a) ==
  [i \in Places |->
     LET m == a[i] IN IF m.end = 0 THEN At(i) ELSE IF m.end > 0 THEN Failed ELSE m]
Matched(i, j) == SelectSeq(SubSeq(text, i, j-1), LAMBDA p : p # Blank)
Tag(tag, a) ==
  [i \in Places |->
     LET m == a[i]
     IN IF m.end > 0
        THEN [end |-> m.end, out |-> Append(m.out, [tag |-> tag, text |-> Matched(i, m.end)])]
        ELSE m]

ReadsAt(pieces, i) ==
  i + Len(pieces) <= Len(text)+1 /\ \A k \in DOMAIN pieces : text[i+k-1] = pieces[k]
Lit(pieces) == [i \in Places |-> IF ReadsAt(pieces, i) THEN At(i + Len(pieces)) ELSE Failed]
Word(p) == Lit(<<p>>)
(* The first of several literals.                                          *)
Operators(ops) ==
  [i \in Places |->
     LET matching == {n \in DOMAIN ops : ReadsAt(ops[n], i)}
     IN IF matching = {} THEN Failed
        ELSE At(i + Len(ops[CHOOSE n \in matching : \A k \in matching : n <= k]))]
(* Up to the first place that is not among those.                          *)
Stretch(i, places) == CHOOSE j \in i .. Len(text)+1 : j \notin places /\ i .. j-1 \subseteq places
Blanks == [i \in Places |-> At(Stretch(i, {k \in DOMAIN text : text[k] = Blank}))]
IDENT ==
  [i \in Places |->
     IF i <= Len(text) /\ IsWordPiece(text[i])
     THEN At(Stretch(i, {k \in DOMAIN text : InWord(text[k])})) ELSE Failed]
INTNUM ==
  [i \in Places |->
     IF i <= Len(text) /\ text[i] \in Digits
     THEN At(Stretch(i, {k \in DOMAIN text : text[k] \in Digits})) ELSE Failed]
Piece == [i \in Places |-> IF i <= Len(text) THEN At(i + 1) ELSE Failed]

Empty == [i \in Places |-> At(i)]
EOF == Not(Piece)
And(a) == Not(Not(a))
Opt(a) == a | Empty
a && b == a & Blanks & b
Padded(a) == Blanks & a & Blanks
Each(a) == Many(Blanks & a)
List(a) == a & Each(Word(",") && a)
Binary(a, ops) == a & Each(Operators(ops) && a)

EndWord == Word("end")
-----------------------------------------------------------------------------
(* The rules.  Each is told in terms of g, the rules as far as they are    *)
(* known: as they are when calls are nested one level less.                *)
program(g) ==
  Blanks & g.program_header & Blanks & Each(g.declaration)
  & Opt(g.run_block) & Blanks & Each(g.declaration) & Blanks & EOF
program_header(g) == Tag("PROGRAM", Word("program") && IDENT)
declaration(g) ==
  Padded(g.enum_declaration | g.union_declaration | g.struct_declaration
    | g.type_declaration | g.const_declaration | g.global_var_block
    | g.func_prototype_declaration | g.import_func_declaration | g.func_block
    | g.object_declaration | g.object_ctor_block | g.object_dtor_block
    | g.interface_block | g.method_block | g.unary_block | g.operator_block)

(* Fields up to the word end.                                              *)
Fields(header, tag, field) == header && Each(And(EndWord) | Tag(tag, field)) && EndWord
Declarator(g) == g.TYPESPEC && IDENT
Initialized(g, value) == Declarator(g) && Word("=") && value

enum_declaration(g) ==
  Fields(Tag("ENUM", Word("enum") && IDENT), "ENUMFIELD",
    IDENT && Word("=") && g.CONSTEXPR && Word(",")
    | IDENT && Word("=") && g.CONSTEXPR
    | IDENT && Word(",")
    | IDENT)
union_declaration(g) ==
  Fields(Tag("UNION", Word("union") && IDENT), "UNIONFIELD", Declarator(g))
struct_declaration(g) ==
  Fields(Tag("STRUCT", Word("struct") && IDENT), "STRUCTFIELD", Declarator(g))
type_declaration(g) ==
  Tag("TYPE", Word("type") && (Initialized(g, g.CONSTEXPR) | Declarator(g)))
const_declaration(g) == Tag("CONST", Word("const") && Initialized(g, g.CONSTEXPR))
VarBlock(g, tag) == Fields(Word("var"), tag, Initialized(g, g.EXPR) | Declarator(g))
global_var_block(g) == VarBlock(g, "GLOBALVAR")
local_var_block(g) == VarBlock(g, "LOCALVAR")
parameter_declarations(g) == Padded(List(Declarator(g) & Blanks))
-----------------------------------------------------------------------------
CALLSPEC == Word("cdecl") | Word("stdcall")
AnyType(g) == g.SIMPLETYPE | Word("any")
Dimension(g) == Word("[") && g.CONSTEXPR && Word("]")
TYPESPEC(g) ==
  Word("@") && AnyType(g) && Word("[") && Word("]")
  | Word("@") && AnyType(g) && Dimension(g)
  | Word("@") && AnyType(g)
  | g.SIMPLETYPE && Dimension(g)
  | g.SIMPLETYPE
SimpleTypes ==
  <<<<"in", "t", "8">>, <<"in", "t", "16">>, <<"in", "t", "32">>, <<"in", "t", "64">>,
    <<"in", "t">>, <<"uint", "8">>, <<"uint", "16">>, <<"uint", "32">>, <<"uint", "64">>,
    <<"uint">>, <<"char">>, <<"bool">>, <<"size">>, <<"fsize">>>>
SIMPLETYPE(g) ==
  Operators(SimpleTypes) | Not(Word("any")) & IDENT
  | Not(Word("none")) & IDENT

TypeOrNone(g) == g.TYPESPEC | Word("none")
ReturnType(g) == Not(Word("none")) & g.TYPESPEC
PrototypeSpecs(g) == Tag("SPECS", CALLSPEC && g.TYPESPEC | CALLSPEC | g.TYPESPEC)
ImportSpecs(g) ==
  Tag("SPECS", CALLSPEC && TypeOrNone(g) | TypeOrNone(g) && CALLSPEC | CALLSPEC | TypeOrNone(g))
(* Mutant of NoneSpecs: none is tried alone first.                         *)
NoneSpecsNoneFirst == Tag("SPECS", Word("none") | Word("none") && CALLSPEC | CALLSPEC)
NoneSpecs == Tag("SPECS", Word("none") && CALLSPEC | CALLSPEC | Word("none"))
ReturnSpecs(g) == Tag("SPECS", ReturnType(g) && CALLSPEC | ReturnType(g))
NAME == Tag("NAME", IDENT)
MemberName == Tag("NAME", IDENT && Word(".") && IDENT)

Parameters(g) ==
  Word("(") && g.parameter_declarations && Word(")") | Word("(") && Word(")")
ReturnStatement(g) == Tag("RETURN", Word("return") && g.EXPR) | g.statement
PlainReturn(g) == Tag("RETURN", Word("return")) | g.statement
(* A header, local variables, statements and the word end.                 *)
Block(g, header, body, tag) ==
  (header & Each(g.local_var_block) & Each(body)) && Tag(tag, EndWord)
(* A function or method: without a return type, or with one.               *)
FunctionBlock(g, begin, name, tag) ==
  Block(g, begin && NoneSpecs && name && Parameters(g), PlainReturn(g), tag)
  | Block(g, begin && ReturnSpecs(g) && name && Parameters(g), ReturnStatement(g), tag)
Prototype(g, begin) == begin && Opt(PrototypeSpecs(g)) && NAME && Parameters(g)

func_prototype_declaration(g) == Prototype(g, Tag("FUNCDECL", Lit(<<"func", "decl">>)))
import_func_declaration(g) ==
  Tag("IMPORTFUNC", Word("import") && Word("func"))
  && Opt(ImportSpecs(g)) && NAME && Parameters(g)
  && Tag("FROM", Word("from") && g.STRING) && Opt(Tag("AS", Word("as") && IDENT))
func_block(g) == FunctionBlock(g, Tag("FUNC", Word("func")), NAME, "ENDFUNC")
method_block(g) == FunctionBlock(g, Tag("METHOD", Word("method")), MemberName, "ENDMETHOD")
unary_block(g) ==
  Block(g, Tag("UNARY", Word("unary")) && g.unary_name,
        And(EndWord) | ReturnStatement(g), "ENDUNARY")
UnaryOps == <<<<"+">>, <<"-">>, <<"~">>, <<"!">>>>
UnaryOp == Operators(UnaryOps)
unary_name(g) ==
  And(EndWord)
  | Lit(<<"+", "+">>) && IDENT | Lit(<<"-", "-">>) && IDENT
  | IDENT && Lit(<<"+", "+">>) | IDENT && Lit(<<"-", "-">>)
  | UnaryOp && IDENT
operator_block(g) ==
  Block(g, Tag("OPERATOR", Word("operator")) && ReturnSpecs(g)
           && Tag("NAME", g.operator_name) && Parameters(g),
        And(EndWord) | ReturnStatement(g), "ENDOPERATOR")
OperatorNames ==
  <<<<"+", "=">>, <<"-", "=">>, <<"*", "=">>, <<"/", "=">>, <<"%", "=">>,
    <<"<", "<", "=">>, <<">", ">", "=">>, <<"&", "=">>, <<"^", "=">>, <<"|", "=">>,
    <<"|", "|">>, <<"&", "&">>, <<"=", "=">>, <<"<", "=">>, <<">", "=">>,
    <<"<", "<">>, <<">", ">">>, <<"=">>, <<"<">>, <<">">>, <<"|">>, <<"^">>, <<"&">>,
    <<"+">>, <<"-">>, <<"*">>, <<"/">>, <<"%">>>>
operator_name(g) == Operators(OperatorNames)
quoted(g) == Word("'") & Many(Not(Word("'")) & Piece) & Word("'")

object_declaration(g) ==
  Tag("OBJECT", Word("object") && IDENT)
  && Opt(Tag("INHERITS", Lit(<<"in", "herits">>) && IDENT))
  && Each(And(EndWord) | Tag("MEMBERVAR", Word("mutable"))
          | Tag("MEMBERVAR", Word("immutable")) | Tag("MEMBERVAR", Declarator(g)))
  && Tag("ENDOBJECT", EndWord)
object_ctor_block(g) ==
  Block(g, Tag("CONSTRUCTOR", Word("ctor") && IDENT) && Parameters(g),
        ReturnStatement(g), "ENDCONSTRUCTOR")
object_dtor_block(g) ==
  Block(g, Tag("DESTRUCTOR", Word("dtor") && IDENT) && Parameters(g),
        ReturnStatement(g), "ENDDESTRUCTOR")
interface_block(g) ==
  Tag("INTERFACE", Lit(<<"in", "t", "erface">>) && IDENT)
  && Opt(Tag("IMPLEMENTS", Word("implements") && IDENT))
  && Opt(Tag("INHERITS", Lit(<<"in", "herits">>) && (List(IDENT) & Blanks)))
  && Each(And(EndWord) | Prototype(g, Tag("IFMETHOD", Word("method"))))
  && Tag("ENDINTERFACE", EndWord)
-----------------------------------------------------------------------------
Condition(g, word) == Lit(word) && g.EXPR
(* An if block; its statements are those of a loop inside of one.          *)
IfThen(g, body) == Tag("IFTHEN", Condition(g, <<"if">>)) && Word("then") && body
IfBlock(g, body) ==
  Tag("IF", Condition(g, <<"if">>)) & Each(body)
  & Each(Tag("ELSEIF", Condition(g, <<"else", "if">>)) & Each(body))
  & Each(Tag("ELSE", Word("else")) & Each(body))
  & Blanks & Tag("ENDIF", Lit(<<"end", "if">>))
(* The first words of a loop, with a label or without.                     *)
Labelled(a) == IDENT && Word(":") && a | a
(* Mutant of LoopBody: break and next are no statements of it.             *)
LoopBodyPlain(g, stop) == Each(And(stop) | g.statement)
LoopBody(g, stop) == Each(And(stop) | g.loop_statement)
EndFor == Lit(<<"end", "for">>)
EndWhile == Lit(<<"end", "while">>)
ForLoop(g, range) ==
  Tag("FOR", Labelled(Word("for") && IDENT))
  && (Tag("RANGE", range) & LoopBody(g, EndFor)) && Tag("ENDFOR", EndFor)

run_block(g) == Block(g, Tag("RUN", Word("run")), g.statement, "ENDRUN")
statement(g) ==
  And(EndWord)
  | Padded(g.exit_statement | g.bind_statement | g.goto_statement
      | IfThen(g, g.statement) | IfBlock(g, g.statement)
      | g.for_in_loop | g.for_to_loop | g.for_downto_loop
      | g.repeat_loop | g.while_loop | g.mf_call | g.var_expr | g.ptr_expr
      | g.label_declaration)
loop_statement(g) ==
  And(EndWord)
  | Padded(IfThen(g, g.loop_statement) | IfBlock(g, g.loop_statement)
      | Tag("BREAK", Word("break")) | Tag("NEXT", Word("next")) | g.statement)
exit_statement(g) == Tag("EXIT", Word("exit") && Word("(") && g.EXPR && Word(")"))
label_declaration(g) == Tag("LABEL", IDENT && Word(":"))
goto_statement(g) == Tag("GOTO", Word("goto") && IDENT)
bind_statement(g) ==
  Tag("BIND", Word("bind") && Word("(") && g.QUALIFIEDIDENT && Word(",")
              && List(g.QUALIFIEDIDENT) && Word(")"))
for_in_loop(g) == ForLoop(g, Word("in") && Word("[") && List(g.EXPR) && Word("]"))
for_to_loop(g) == ForLoop(g, Word("=") && g.EXPR && Word("to") && g.EXPR)
for_downto_loop(g) == ForLoop(g, Word("=") && g.EXPR && Word("downto") && g.EXPR)
repeat_loop(g) ==
  (Tag("REPEAT", Labelled(Word("repeat"))) & LoopBody(g, Word("when")))
  && Tag("WHEN", Condition(g, <<"when">>))
while_loop(g) ==
  (Tag("WHILE", Labelled(Condition(g, <<"while">>))) & LoopBody(g, EndWhile))
  && Tag("ENDWHILE", EndWhile)
mf_call(g) ==
  Tag("MFCALL", g.QUALIFIEDIDENT && Word("(") && Many(List(g.EXPR)) && Word(")"))
var_expr(g) == Tag("VAREXPR", g.var_subexpr)
ptr_expr(g) == Tag("PTREXPR", g.ptr_subexpr)

Steps == <<<<"+", "+">>, <<"-", "-">>>>
Step == Operators(Steps)
AssignOps ==
  <<<<"=">>, <<"+", "=">>, <<"-", "=">>, <<"*", "=">>, <<"/", "=">>, <<"%", "=">>,
    <<"<", "<", "=">>, <<">", ">", "=">>, <<"&", "=">>, <<"^", "=">>, <<"|", "=">>>>
ASSIGNOP == Operators(AssignOps)
Assign(g) == ASSIGNOP && g.EXPR
(* What var_subexpr and ptr_subexpr allow of a target.                     *)
Assignments(g, target) ==
  target && Assign(g)
  | Step && target && Step && Assign(g)
  | Step && target && Assign(g)
  | target && Step && Assign(g)
  | Step && target && Step
  | Step && target
  | target && Step
Pointed(g) == Word("@") && g.QUALIFIEDIDENT
-----------------------------------------------------------------------------
(* Expressions: the levels of operators over unary operators over          *)
(* operands.                                                               *)
Product(a) == Binary(a, <<<<"*">>, <<"/">>, <<"%">>>>)
Sum(a) == Binary(Product(a), <<<<"+">>, <<"-">>>>)
Shift(a) == Binary(Sum(a), <<<<"<", "<">>, <<">", ">">>>>)
Compare(ops, a) == Binary(Shift(a), ops)
Equals(ops, a) == Binary(Compare(ops, a), <<<<"=", "=">>, <<"!", "=">>>>)
BitAnd(ops, a) == Binary(Equals(ops, a), <<<<"&">>>>)
BitXor(ops, a) == Binary(BitAnd(ops, a), <<<<"^">>>>)
BitOr(ops, a) == Binary(BitXor(ops, a), <<<<"|">>>>)
LogicalAnd(ops, a) == Binary(BitOr(ops, a), <<<<"&", "&">>>>)
LogicalOr(ops, a) == Binary(LogicalAnd(ops, a), <<<<"|", "|">>>>)

(* Mutant of CompareOps: the order of the constant expressions.            *)
CompareOpsConst == <<<<"<">>, <<"<", "=">>, <<">">>, <<">", "=">>>>
CompareOps == <<<<"<", "=">>, <<">", "=">>, <<"<">>, <<">">>>>
ConstCompareOps == <<<<"<">>, <<"<", "=">>, <<">">>, <<">", "=">>>>

var_subexpr(g) == Assignments(g, g.QUALIFIEDIDENT)
ptr_subexpr(g) == Assignments(g, Pointed(g))
EXPR(g) == LogicalOr(CompareOps, g.UNARYOP)
UNARYOP(g) == UnaryOp && g.UNARYOP | g.OPERAND
Call(g) == g.QUALIFIEDIDENT && Word("(") && g.EXPR && Word(")")
OPERAND(g) ==
  INTNUM
  | Call(g)
  | Step && Pointed(g) && Step | Step && Pointed(g)
  | Step && g.QUALIFIEDIDENT && Step | Step && g.QUALIFIEDIDENT
  | g.QUALIFIEDIDENT && Step | g.QUALIFIEDIDENT
  | Word("(") && g.EXPR && Word(")")
CONSTEXPR(g) == LogicalOr(ConstCompareOps, g.CONSTUNARYOP)
CONSTUNARYOP(g) == UnaryOp && g.CONSTUNARYOP | g.CONSTOPERAND
CONSTOPERAND(g) ==
  INTNUM
  | Call(g)
  | Opt((Step | Word("@")) & Blanks) & g.QUALIFIEDIDENT & Opt(Blanks & Step)
  | Word("(") && g.CONSTEXPR && Word(")")
QUALIFIEDIDENT(g) == IDENT & Each(Word(".") && IDENT)

Rules(g) == [
  program |-> program(g), program_header |-> program_header(g),
  declaration |-> declaration(g), enum_declaration |-> enum_declaration(g),
  union_declaration |-> union_declaration(g),
  struct_declaration |-> struct_declaration(g),
  type_declaration |-> type_declaration(g),
  const_declaration |-> const_declaration(g),
  global_var_block |-> global_var_block(g), local_var_block |-> local_var_block(g),
  parameter_declarations |-> parameter_declarations(g), TYPESPEC |-> TYPESPEC(g),
  SIMPLETYPE |-> SIMPLETYPE(g),
  func_prototype_declaration |-> func_prototype_declaration(g),
  import_func_declaration |-> import_func_declaration(g),
  func_block |-> func_block(g), method_block |-> method_block(g),
  unary_block |-> unary_block(g), unary_name |-> unary_name(g),
  operator_block |-> operator_block(g), operator_name |-> operator_name(g),
  object_declaration |-> object_declaration(g),
  object_ctor_block |-> object_ctor_block(g),
  object_dtor_block |-> object_dtor_block(g),
  interface_block |-> interface_block(g), run_block |-> run_block(g),
  statement |-> statement(g), loop_statement |-> loop_statement(g),
  exit_statement |-> exit_statement(g), label_declaration |-> label_declaration(g),
  goto_statement |-> goto_statement(g), bind_statement |-> bind_statement(g),
  for_in_loop |-> for_in_loop(g), for_to_loop |-> for_to_loop(g),
  for_downto_loop |-> for_downto_loop(g), repeat_loop |-> repeat_loop(g),
  while_loop |-> while_loop(g), mf_call |-> mf_call(g), var_expr |-> var_expr(g),
  ptr_expr |-> ptr_expr(g), var_subexpr |-> var_subexpr(g),
  ptr_subexpr |-> ptr_subexpr(g), EXPR |-> EXPR(g), UNARYOP |-> UNARYOP(g),
  OPERAND |-> OPERAND(g), CONSTEXPR |-> CONSTEXPR(g),
  CONSTUNARYOP |-> CONSTUNARYOP(g), CONSTOPERAND |-> CONSTOPERAND(g),
  QUALIFIEDIDENT |-> QUALIFIEDIDENT(g), STRING |-> quoted(g)]
-----------------------------------------------------------------------------
(* The rules when calls are nested n deep: below that nothing is known.    *)
(* No rule calls itself, through others, without reading; as no chain of   *)
(* calls at one place is longer than Chain, Nesting is as deep as any go.  *)
Chain == 5
Nesting == Chain * (Len(text)+1)
RuleNames ==
  {"program", "program_header", "declaration", "enum_declaration",
   "union_declaration", "struct_declaration", "type_declaration",
   "const_declaration", "global_var_block", "local_var_block",
   "parameter_declarations", "TYPESPEC", "SIMPLETYPE",
   "func_prototype_declaration", "import_func_declaration", "func_block",
   "method_block", "unary_block", "unary_name", "operator_block",
   "operator_name", "object_declaration", "object_ctor_block",
   "object_dtor_block", "interface_block", "run_block", "statement",
   "loop_statement", "exit_statement", "label_declaration", "goto_statement",
   "bind_statement", "for_in_loop", "for_to_loop", "for_downto_loop",
   "repeat_loop", "while_loop", "mf_call", "var_expr", "ptr_expr",
   "var_subexpr", "ptr_subexpr", "EXPR", "UNARYOP", "OPERAND", "CONSTEXPR",
   "CONSTUNARYOP", "CONSTOPERAND", "QUALIFIEDIDENT", "STRING"}
NothingKnown == [rule \in RuleNames |-> [i \in Places |-> Unknown]]
RulesTo[n \in 0 .. Nesting] == IF n = 0 THEN NothingKnown ELSE Rules(RulesTo[n-1])
-----------------------------------------------------------------------------
Init ==
  /\ part \in Programs /\ text = part.text
  /\ status = "reading" /\ out = <<>>

(* One call of pcc_parse reads the file: its actions run when all of it is *)
(* matched, else ParseError ends the process.                              *)
Parse ==
  /\ status = "reading"
  /\ LET m == RulesTo[Nesting].program[1]
     IN \/ m.end > 0 /\ status' = "accepted" /\ out' = m.out
        \/ m.end = 0 /\ status' = "error" /\ out' = <<>>
        \/ m.end < 0 /\ status' = "lost" /\ out' = <<>>
  /\ UNCHANGED <<text, part>>

Next == Parse
Spec == Init /\ [][Next]_vars
-----------------------------------------------------------------------------
(* Every file is accepted or refused: no rule calls itself through others  *)
(* before it has read something, nor goes on repeating nothing, and calls  *)
(* are never nested more than five deep for each piece of the file.        *)
Answered == status # "lost"
=============================================================================
