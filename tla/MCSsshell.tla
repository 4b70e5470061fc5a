----------------------------- MODULE MCSsshell -----------------------------
(***************************************************************************)
(* Ssshell on the lines of at most MaxChars characters, c or a blank.      *)
(***************************************************************************)
EXTENDS Ssshell, SequencesExt

CONSTANTS MaxChars

MCTyped == BoundedSeq({"c", " "}, MaxChars)

\* Every meaning a line can have, for lines of several lengths and for lines
\* that begin with a blank.
MCMeaning ==
  [s \in MCTyped \ {<<>>} |->
     CASE s = <<" ">>           -> "EOF"
       [] s = <<"c">>           -> "quit"
       [] s = <<"c", "c">>      -> "command"
       [] s = <<"c", " ">>      -> "mismatch"
       [] s = <<" ", "c">>      -> "command"
       [] s = <<" ", " ">>      -> "SYNTAX_ERROR"
       [] s = <<"c", "c", "c">> -> "command"
       [] s = <<"c", " ", "c">> -> "not a command"
       [] s = <<" ", "c", " ">> -> "mismatch"
       [] OTHER                 -> "EXCEEDED_ARGS_COUNT"]
============================================================================
