----------------------------- MODULE MCRefLexer -----------------------------
(***************************************************************************)
(* Files for TLC: every text of up to five characters made of what matters *)
(* to blanks and comments, and of up to three, with and without a prefix,  *)
(* made of what matters to numbers.  Numbers have five bits, so that three *)
(* decimal digits overflow twice; names keep two characters.               *)
(***************************************************************************)
EXTENDS RefLexer

Texts(chars, n) == UNION {[1 .. m -> chars] : m \in 0 .. n}
Comments == Texts({" ", LF, CR, "/", "*", "a"}, 5)
Numerals ==
  {prefix \o t : prefix \in {<<>>, <<"0", "b">>, <<"0", "o">>, <<"0", "x">>},
                 t \in Texts({"0", "1", "4", "9", "_", "F", "f", "@"}, 3)}
MCFiles == Comments \cup Numerals
=============================================================================
