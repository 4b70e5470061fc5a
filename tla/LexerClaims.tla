---------------------------- MODULE LexerClaims ----------------------------
(***************************************************************************)
(* What a comment of shell/lexer.c says of the lexer and its code does not *)
(* do.  The claim is about the token of a call that has just ended: the    *)
(* word it read begins at start.                                           *)
(***************************************************************************)
EXTENDS Lexer

Returned == ~calling /\ tok.type # "NONE"
ReadsFrom(word) == /\ Len(line) >= start + Len(word)
                   /\ SubSeq(line, start + 1, start + Len(word)) = word

\* lexer.c:283 "Supports all C escape sequences except for hex and octal": C
\* has \' and \? as well, each for the character itself.
CEscape(c) == IF c \in SelfEscape \cup {"'", "?"} THEN c ELSE EscapeCode[c]
EscapesAreThoseOfC ==
  \A c \in DOMAIN EscapeCode \cup SelfEscape \cup {"'", "?"} :
    Returned /\ ReadsFrom(<<QUOTE, BSLASH, c, QUOTE>>) => tok.text = <<CEscape(c)>>
============================================================================
