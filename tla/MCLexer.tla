------------------------------ MODULE MCLexer ------------------------------
(***************************************************************************)
(* Lexer on every line of a few characters of an alphabet, and on longer   *)
(* ones of smaller alphabets.                                              *)
(***************************************************************************)
EXTENDS LexerClaims, LexerIntegers, SequencesExt

CONSTANTS Alphabet, MaxChars, LongAlphabet, NumberAlphabet, LongChars

\* One character of every class the lexer tells apart.
AllClasses == {QUOTE, BSLASH, "0", "1", "a", "s", "x", DASH, HASH, "+", ".",
               "!", "~", SP, LF, XFF}
\* Strings with runs of backslashes, and words that begin with a dash.
StringClasses == {QUOTE, BSLASH, "n", DASH, LF}
\* Digits of both bases, both marks and what begins a number.
NumberClasses == {"0", "8", "f", "x", "X", DASH, HASH}
\* Lines that leave the automaton in every state, for two lines in a row.
LineAlphabet == {QUOTE, BSLASH, "0", "a", DASH, HASH, XFF}
\* The escapes that C has and strings may contain.
EscapeAlphabet == {QUOTE, BSLASH, "n", "?", "'"}

Typed == BoundedSeq(Alphabet, MaxChars) \cup BoundedSeq(LongAlphabet, LongChars)
           \cup BoundedSeq(NumberAlphabet, LongChars)
\* What shell_readline hands over: nothing, or a non-empty string and its NUL.
MCLines == {IF s = <<>> THEN s ELSE Append(s, NUL) : s \in Typed}
============================================================================
