--------------------------- MODULE LexerIntegers ---------------------------
(***************************************************************************)
(* What the integer tokens the lexer accepts are worth once _token_make    *)
(* has converted them.                                                     *)
(***************************************************************************)
EXTENDS Lexer, TokenInteger

\* The number digits denote: from the last to the first, the sum of each one
\* times the power of its place.
Denotes(digits, base) ==
  LET n == Len(digits)
      power[k \in 0 .. n] == IF k = 0 THEN 1 ELSE base * power[k - 1]
      sum[k \in 0 .. n] ==
        IF k = 0 THEN 0 ELSE sum[k - 1] + DigitValue[digits[n + 1 - k]] * power[k - 1]
  IN sum[n]

Negative(text) == text[1] = DASH
Digits(text) == IF Negative(text) THEN Tail(text) ELSE text

\* A literal of one of the two notations: decimal digits with at most a sign
\* before them, or one x behind a 0 or a # and hexadecimal digits behind it.
IsDecimal(text) == \A i \in 1 .. Len(text) : text[i] \in Digit \/ (i = 1 /\ text[i] = DASH)
IsHexadecimal(text) == HasBaseMark(text) /\ \A i \in 3 .. Len(text) : text[i] \in HexDigit

Magnitudes(text) ==
  IF IsDecimal(text) THEN Denotes(Digits(text), 10)
                     ELSE Denotes(SubSeq(text, 3, Len(text)), 16)
Literal(text) == IF Negative(text) THEN -Magnitudes(text) ELSE Magnitudes(text)

IntegerToken == ~calling /\ tok.type = "INTEGER"
LiteralToken == IntegerToken /\ (IsDecimal(tok.text) \/ IsHexadecimal(tok.text))

\* The long that strtol makes of a number.
HeldByLong(v) == IF v > LongMax THEN LongMax ELSE IF v < -LongMax - 1 THEN -LongMax - 1 ELSE v

\* A decimal literal, and a hexadecimal one with a single x, reaches a command
\* as the number it denotes modulo the width of an int: every 32-bit address
\* can be written in hexadecimal although it is stored in a signed int.  One
\* that no long holds is clamped first, not wrapped.
LiteralsDenote ==
  LiteralToken => ToUnsigned(IntegerOf(tok.text)) = HeldByLong(Literal(tok.text)) % IntMod
============================================================================
