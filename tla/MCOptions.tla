----------------------------- MODULE MCOptions -----------------------------
(***************************************************************************)
(* Every path of up to four characters as the source and of up to two as   *)
(* the binary: a letter stands for a run of ordinary characters.  Four     *)
(* characters hold a directory, a separator, and a name with or without    *)
(* extension, each with or without dots.                                   *)
(***************************************************************************)
EXTENDS Options

MCLetters == {"a", ".", "/", "\\"}
MCChars == MCLetters \cup {"ret", "exe", "rtc", "rth"}
MCPaths(n) == UNION {[1 .. m -> MCLetters] : m \in 0 .. n}
MCFirst == MCPaths(4)
MCSecond == MCPaths(2)
=============================================================================
