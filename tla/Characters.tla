---------------------------- MODULE Characters ----------------------------
(***************************************************************************)
(* The characters a command line is made of and the classes in which the   *)
(* lexer of shell/lexer.c looks them up.  A printable character is written *)
(* as itself; the others have names.                                       *)
(***************************************************************************)

NUL   == "NUL"        \* the terminator: line.size counts it
LF    == "LF"
CR    == "CR"
TAB   == "TAB"
SP    == " "
QUOTE == "\""
BSLASH == "\\"
DASH  == "-"
HASH  == "#"
XFF   == "0xFF"       \* the byte that equals EOF once a signed char is widened

Lower == {"a", "b", "c", "d", "e", "f", "g", "h", "i", "j", "k", "l", "m",
          "n", "o", "p", "q", "r", "s", "t", "u", "v", "w", "x", "y", "z"}
Upper == {"A", "B", "C", "D", "E", "F", "G", "H", "I", "J", "K", "L", "M",
          "N", "O", "P", "Q", "R", "S", "T", "U", "V", "W", "X", "Y", "Z"}
Letter   == Lower \cup Upper
Digit    == {"0", "1", "2", "3", "4", "5", "6", "7", "8", "9"}
HexDigit == Digit \cup {"a", "b", "c", "d", "e", "f", "A", "B", "C", "D", "E", "F"}
BaseMark == {"x", "X"}

\* The white space that ends a number; LEXER_STATE_ZERO skips NUL as well.
Space == {LF, TAB, CR, SP}
Blank == Space \cup {NUL}

\* What may begin a symbol in LEXER_STATE_ZERO.
SymbolStart == Letter \cup {"+", "/", "*", "<", "=", ">", "&", ".", "^", "?"}

\* What turns a leading dash into a symbol in LEXER_STATE_MINUS.
DashSymbol == Letter \cup {"+", "/", "*", "<", "=", ">"}

\* strchr(_symbol_chars, c) # NULL.  strchr also finds the terminator of
\* _symbol_chars, so NUL is one of its hits.
SymbolChar ==
    {"!", "&", "*", "+", "-", "<", "=", ">", "?", "@", NUL} \cup Digit \cup Letter

\* The escapes LEXER_STATE_ESCAPE_STRING translates into one character.
EscapeCode == [a |-> "BEL", b |-> "BS", f |-> "FF", n |-> LF, r |-> CR,
               t |-> TAB, v |-> "VT"]
SelfEscape == {BSLASH, QUOTE}

Chars == {NUL, XFF, BSLASH, QUOTE, DASH, HASH, ".", "/", "^", "~", "'", "BEL", "BS", "FF", "VT"}
           \cup Blank \cup SymbolChar
===========================================================================
