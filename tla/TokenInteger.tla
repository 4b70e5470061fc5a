--------------------------- MODULE TokenInteger ---------------------------
(***************************************************************************)
(* The value _token_make gives an integer token: strtol of the token's     *)
(* text, stored in an int that the commands read as a uint32_t.  Integers  *)
(* keep their widths, scaled down: an int has IntMod values and a long     *)
(* holds -LongMax - 1 .. LongMax.                                          *)
(***************************************************************************)
EXTENDS Integers, Sequences, Characters

CONSTANTS
  IntMod,    \* 2^32 in the code
  LongMax    \* LONG_MAX: 2^63 - 1, or 2^31 - 1 where long is as wide as int

ASSUME IntModAssumption == IntMod \in Nat \ {0} /\ IntMod % 2 = 0
ASSUME LongMaxAssumption == LongMax \in Nat /\ LongMax >= (IntMod \div 2) - 1

DigitValue ==
  [c \in HexDigit |->
     CASE c = "0" -> 0 [] c = "1" -> 1 [] c = "2" -> 2 [] c = "3" -> 3
       [] c = "4" -> 4 [] c = "5" -> 5 [] c = "6" -> 6 [] c = "7" -> 7
       [] c = "8" -> 8 [] c = "9" -> 9
       [] c \in {"a", "A"} -> 10 [] c \in {"b", "B"} -> 11 [] c \in {"c", "C"} -> 12
       [] c \in {"d", "D"} -> 13 [] c \in {"e", "E"} -> 14 [] c \in {"f", "F"} -> 15]

DigitsOf(base) == {c \in HexDigit : DigitValue[c] < base}

\* The longest prefix of s that is made of digits of the base.
DigitPrefix(s, base) ==
  SubSeq(s, 1, CHOOSE n \in 0 .. Len(s) :
                 /\ \A i \in 1 .. n : s[i] \in DigitsOf(base)
                 /\ n < Len(s) => s[n + 1] \notin DigitsOf(base))

\* Their value, held at LongMax + 1 once it no longer fits a long.
Magnitude(s, base) ==
  LET digits   == DigitPrefix(s, base)
      Clamp(v) == IF v > LongMax THEN LongMax + 1 ELSE v
      value[n \in 0 .. Len(digits)] ==
        IF n = 0 THEN 0 ELSE Clamp(value[n - 1] * base + DigitValue[digits[n]])
  IN value[Len(digits)]

\* strtol(s, NULL, base) on the texts a token can have: a sign or none, digits,
\* and whatever ends them.
strtol(s, base) ==
  IF s # <<>> /\ s[1] = DASH
  THEN -Magnitude(Tail(s), base)
  ELSE LET m == Magnitude(s, base) IN IF m > LongMax THEN LongMax ELSE m

\* The conversions long -> int and int -> uint32_t.
ToInt(v) == ((v + (IntMod \div 2)) % IntMod) - (IntMod \div 2)
ToUnsigned(v) == v % IntMod

\* strchr(buf, 'x') == buf + 1, or the same for 'X': the first character of an
\* integer token is never an x.
HasBaseMark(text) == Len(text) >= 2 /\ text[2] \in BaseMark

IntegerOf_Decimal(text) == ToInt(strtol(text, 10))
IntegerOf(text) ==
  IF HasBaseMark(text) THEN ToInt(strtol(SubSeq(text, 3, Len(text)), 16))
                       ELSE ToInt(strtol(text, 10))
===========================================================================
