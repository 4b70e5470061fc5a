----------------------------- MODULE MCFrontEnd -----------------------------
(***************************************************************************)
(* FrontEnd on a set of lines that end the automaton in each of its states *)
(* and the parser in each of its results, some of them with bytes behind   *)
(* the token that ends them.                                               *)
(***************************************************************************)
EXTENDS FrontEnd, TLC

MCEnv == (<<"q">> :> "a command") @@ (<<"+">> :> "an integer")

\* A command with every kind of argument, and with more than the vector holds.
Calls ==
  {<<"q">>, <<"q", SP, "q", SP, "1">>, <<"q", SP, "q", SP, "1", SP>>, <<"q", QUOTE, "q", QUOTE>>,
   <<"q", SP, "1", SP, "1", SP, "1">>, <<"q", QUOTE, QUOTE, QUOTE, QUOTE, QUOTE, QUOTE>>,
   <<"q", SP, DASH, "1">>, <<"q", SP, QUOTE, BSLASH, QUOTE, QUOTE>>, <<"q", "1">>, <<"q", SP, DASH, SP>>}
\* Lines that are empty, or are not a command's.
Others == {<<SP>>, <<"1">>, <<"x">>, <<DASH, SP>>, <<"+", SP, "q">>, <<QUOTE, "q", QUOTE>>, <<"q", "q">>}
\* Lines that end the lexer in each of its states, and leave bytes behind.
Errors ==
  {<<QUOTE>>, <<BSLASH>>, <<DASH>>, <<HASH>>, <<"q", BSLASH>>, <<"q", SP, "1", SP, QUOTE>>,
   <<"q", QUOTE, BSLASH>>, <<"q", SP, DASH, "1", "x">>, <<"q", SP, "0", "x">>, <<"q", "~", "q">>}
\* Lines with the byte that a signed char makes EOF.
Bytes == {<<XFF>>, <<"q", XFF, "q">>, <<"q", SP, XFF, "1">>, <<"q", QUOTE, XFF, QUOTE>>}

MCLines == {<<>>} \cup {Append(s, NUL) : s \in Calls \cup Others \cup Errors \cup Bytes}
=============================================================================
