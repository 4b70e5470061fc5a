---------------------------- MODULE TokenStream ----------------------------
(***************************************************************************)
(* What the lexer promises its caller: the tokens of a line, one per       *)
(* request, each found in a single step.  A token is described by the      *)
(* whole word it is read from (where it begins, how far it extends, what   *)
(* must follow it), not by an automaton.                                   *)
(***************************************************************************)
EXTENDS Integers, Sequences, Characters

CONSTANTS MaxLines, CharIsSigned

VARIABLES line,       \* the line being read
          pos,        \* characters of it already taken
          tok,        \* the last token: its type and its text
          lineCount   \* lines set so far

vars == <<line, pos, tok, lineCount>>

NoToken == [type |-> "NONE", text |-> <<>>]

----------------------------------------------------------------------------
(* Words of the line.                                                      *)

\* Input ends after the line, and at a byte that reads as EOF.
IsEnd(i) == i > Len(line) \/ (CharIsSigned /\ line[i] = XFF)
In(i, S) == ~IsEnd(i) /\ line[i] \in S

\* The first place from i on that does not hold a character of S.
After(i, S) == CHOOSE j \in i .. Len(line) + 1 :
                 /\ ~In(j, S)
                 /\ \A k \in i .. j - 1 : In(k, S)

Text(i, j) == SubSeq(line, i, j - 1)   \* the characters from i to before j

\* What has been taken once the input ended at i.
Through(i) == IF i > Len(line) THEN Len(line) ELSE i

Found(type, text, last) == [type |-> type, text |-> text, last |-> last]
Error(i) == Found("ERROR", <<>>, Through(i))

\* A symbol is its first character and the symbol characters after it; a
\* symbol that reaches the end of the line swallows the terminator too.
SymbolAt(i) ==
  LET j == After(i + 1, SymbolChar \ {NUL})
  IN Found("SYMBOL", Text(i, j), IF IsEnd(j) \/ In(j, {NUL}) THEN Through(j) ELSE j - 1)

\* Digits from i on, up to a blank (which is taken) or the end of input.
DecimalAt(i) ==
  LET j == After(i + 1, Digit)
  IN IF IsEnd(j) \/ In(j, Blank) THEN Found("INTEGER", Text(i, j), Through(j))
                                 ELSE Error(j)

\* A 0 or a #, any number of x, at least one digit, and a blank.
HexAt(i) ==
  LET first == After(i + 1, BaseMark)
      j     == After(first, HexDigit)
  IN IF j > first /\ In(j, Blank) THEN Found("INTEGER", Text(i, j), Through(j))
                                  ELSE Error(j)

DashAt(i) ==
  IF      In(i + 1, Digit)      THEN DecimalAt(i)
  ELSE IF In(i + 1, DashSymbol) THEN SymbolAt(i)
  ELSE IF In(i + 1, Space)      THEN Found("SYMBOL", <<DASH>>, i + 1)
  ELSE Error(i + 1)

\* The character at k is escaped when an odd number of backslashes precede it
\* inside the string opened at i.
Escaped(i, k) ==
  \E j \in i .. k - 1 : /\ line[j] # BSLASH
                        /\ \A m \in j + 1 .. k - 1 : line[m] = BSLASH
                        /\ (k - 1 - j) % 2 = 1

\* What the character at k contributes to the string opened at i.
Denotes(i, k) ==
  LET c == line[k]
  IN IF Escaped(i, k)
     THEN IF c = LF THEN <<>>
          ELSE IF c \in SelfEscape THEN <<c>>
          ELSE IF c \in DOMAIN EscapeCode THEN <<EscapeCode[c]>>
          ELSE <<BSLASH, c>>
     ELSE IF c = BSLASH THEN <<>> ELSE <<c>>

\* What the characters of that string before k make, one after the other.
Content(i, k) ==
  LET made[m \in i .. k - 1] == IF m = i THEN <<>> ELSE made[m - 1] \o Denotes(i, m)
  IN made[k - 1]

StringAt(i) ==
  LET closing == {k \in i + 1 .. Len(line) : line[k] = QUOTE /\ ~Escaped(i, k)}
      ending  == {k \in i + 1 .. Len(line) + 1 : IsEnd(k)}
  IN IF \E k \in closing : \A e \in ending : k < e
     THEN LET k == CHOOSE m \in closing : \A n \in closing : m <= n
          IN Found("STRING", Content(i, k), k)
     ELSE Error(Len(line))

\* The token found from here on.
NextToken ==
  LET i == After(pos + 1, Blank)
  IN IF      IsEnd(i)                          THEN Found("EOF", <<>>, Through(i))
     ELSE IF line[i] = QUOTE                   THEN StringAt(i)
     ELSE IF line[i] \in {"0", HASH}           THEN HexAt(i)
     ELSE IF line[i] \in Digit                 THEN DecimalAt(i)
     ELSE IF line[i] = DASH                    THEN DashAt(i)
     ELSE IF line[i] \in SymbolStart           THEN SymbolAt(i)
     ELSE Error(i)

----------------------------------------------------------------------------

Init == line = <<>> /\ pos = 0 /\ tok = NoToken /\ lineCount = 0

LineSet == /\ lineCount < MaxLines
           /\ line' \in Seq(Chars)
           /\ pos' = 0
           /\ tok' = NoToken
           /\ lineCount' = lineCount + 1

\* After an error the place reached is of no use: the line is given up.
Get == /\ lineCount > 0
       /\ tok.type \notin {"EOF", "ERROR"}
       /\ tok' = [type |-> NextToken.type, text |-> NextToken.text]
       /\ IF NextToken.type = "ERROR" THEN pos' \in pos .. Len(line)
                                      ELSE pos' = NextToken.last
       /\ UNCHANGED <<line, lineCount>>

Next == Get \/ LineSet

Spec == Init /\ [][Next]_vars
============================================================================
