--------------------------- MODULE FrontEndProofs ---------------------------
(***************************************************************************)
(* What parse() makes of a line for any lines, any size of the argument    *)
(* vector and any environment.  The inductive invariant relates the place  *)
(* the lexer has reached with the number of tokens the parser has taken.   *)
(* That a line's outcome does not depend on what was read before takes one *)
(* more: where a parse goes from its place is a function of the line, and  *)
(* the program is always in a place such a parse comes to.                 *)
(***************************************************************************)
EXTENDS FrontEnd, SequenceTheorems, WellFoundedInduction, TLAPS

----------------------------------------------------------------------------
(* The lexer, as far as the composition needs it.                          *)

\* The lexer is inside its line, at rest when it is not scanning, and a scan
\* that has begun a token has taken a character of it.
LexerInv ==
  /\ line \in Seq(Chars)
  /\ char_no \in 0 .. Len(line) /\ start \in 0 .. char_no
  /\ calling /\ state # "ZERO" => char_no > start
  /\ ~calling /\ tok.type # "ERROR" => state = "ZERO"

\* The line has been taken to its end, or to the byte that reads as EOF.
AtEOF == char_no = Len(line) \/ (CharIsSigned /\ line[char_no] = XFF)

\* What a step of the lexer does when it does not return, and when it does.
GoesOn == calling' /\ (state' # "ZERO" => char_no' > start)
Returns ==
  /\ ~calling'
  /\ tok'.type \in {"ERROR", "INTEGER", "STRING", "SYMBOL", "EOF"}
  /\ tok'.type # "ERROR" => state' = "ZERO"
  /\ tok'.type \in {"INTEGER", "STRING", "SYMBOL"} => char_no' > start
  /\ tok'.type = "EOF" => AtEOF'

Moves == /\ UNCHANGED <<line, start, lineCount>>
         /\ char_no' \in {char_no, char_no + 1} /\ char_no' <= Len(line)
         /\ GoesOn \/ Returns

\* A character that is taken, and one that is put back.
LEMMA Taken ==
  ASSUME LexerInv, NEW s, L!Scan(s), NEW kept, L!Take(kept)
  PROVE  char_no' = char_no + 1 /\ char_no' <= Len(line) /\ char_no' > start
BY DEF LexerInv, L!Scan, L!GetcIsEOF, L!AtEnd, L!Take

LEMMA PutBack ==
  ASSUME LexerInv, NEW s, s # "ZERO", L!Scan(s), NEW kept, L!Untake(kept)
  PROVE  char_no' = char_no /\ char_no' <= Len(line) /\ char_no' > start
BY DEF LexerInv, L!Scan, L!Untake

\* The three ways a step ends.
LEMMA Going ==
  ASSUME NEW s, L!Goto(s), calling, char_no' > start,
         char_no' \in {char_no, char_no + 1}, char_no' <= Len(line)
  PROVE  Moves
BY DEF L!Goto, Moves, GoesOn

LEMMA Accepting ==
  ASSUME NEW t \in {"INTEGER", "STRING", "SYMBOL"}, L!Accept(t), char_no' > start,
         char_no' \in {char_no, char_no + 1}, char_no' <= Len(line)
  PROVE  Moves
BY DEF L!Accept, L!Return, L!Token, Moves, Returns

LEMMA Failing ==
  ASSUME LexerInv, NEW s, L!Scan(s), L!Fail
  PROVE  Moves
<1>1. char_no' = char_no + 1 /\ char_no' <= Len(line)
  BY Taken DEF L!Fail
<1>2. tok'.type = "ERROR"
  BY DEF L!Fail, L!Return, L!Token
<1>3. QED
  BY <1>1, <1>2 DEF L!Fail, L!Return, Moves, Returns

LEMMA EndMoves ==
  ASSUME LexerInv, L!ScanEnd
  PROVE  Moves
<1>1. char_no' \in {char_no, char_no + 1} /\ char_no' <= Len(line) /\ char_no' >= char_no
  BY DEF LexerInv, L!ScanEnd, L!AtEnd
<1>2. UNCHANGED <<line, start, lineCount>> /\ ~calling'
  BY DEF L!ScanEnd, L!Accept, L!Return
<1>3. AtEOF'
  <2>1. CASE L!AtEnd
    <3>1. char_no = Len(line) /\ char_no' = char_no
      BY <2>1 DEF LexerInv, L!ScanEnd, L!AtEnd
    <3>2. QED
      BY <1>2, <3>1 DEF AtEOF
  <2>2. CASE ~L!AtEnd
    <3>1. char_no' = char_no + 1 /\ CharIsSigned /\ line[char_no + 1] = XFF
      <4>1. char_no' = char_no + 1 /\ L!GetcIsEOF
        BY <2>2 DEF L!ScanEnd
      <4>2. CharIsSigned /\ L!Char = XFF
        BY <2>2, <4>1 DEF L!GetcIsEOF, L!XFF, XFF
      <4>3. QED
        BY <4>1, <4>2 DEF L!Char
    <3>2. line'[char_no'] = XFF
      BY <1>2, <3>1
    <3>3. QED
      BY <3>1, <3>2 DEF AtEOF
  <2>3. QED
    BY <2>1, <2>2
<1>4. state # "ZERO" => char_no' > start
  BY <1>1 DEF LexerInv, L!ScanEnd
<1>5. /\ tok'.type \in {"ERROR", "INTEGER", "SYMBOL", "EOF"}
      /\ tok'.type # "ERROR" => state' = "ZERO"
      /\ tok'.type \in {"INTEGER", "SYMBOL"} => state # "ZERO"
  BY DEF L!ScanEnd, L!Accept, L!Return, L!Token
<1>6. QED
  BY <1>1, <1>2, <1>3, <1>4, <1>5 DEF Moves, Returns

LEMMA ScanMoves ==
  ASSUME LexerInv, L!ScanStep
  PROVE  Moves
<1>1. CASE L!ScanZero
  <2>1. L!Scan("ZERO") /\ calling
    BY <1>1 DEF L!ScanZero, L!Scan
  <2>2. CASE L!Fail
    BY <2>1, <2>2, Failing
  <2>3. CASE \E kept, s : L!Take(kept) /\ L!Goto(s)
    BY <2>1, <2>3, Taken, Going
  <2>4. QED
    BY <1>1, <2>2, <2>3 DEF L!ScanZero
<1>2. CASE L!ScanMinus
  <2>1. L!Scan("MINUS") /\ calling
    BY <1>2 DEF L!ScanMinus, L!Scan
  <2>2. CASE L!Fail
    BY <2>1, <2>2, Failing
  <2>3. CASE \E kept, s : L!Take(kept) /\ L!Goto(s)
    BY <2>1, <2>3, Taken, Going
  <2>4. CASE \E kept, s : L!Untake(kept) /\ L!Goto(s)
    BY <2>1, <2>4, PutBack, Going
  <2>5. CASE \E kept : L!Take(kept) /\ L!Accept("SYMBOL")
    BY <2>1, <2>5, Taken, Accepting
  <2>6. QED
    BY <1>2, <2>2, <2>3, <2>4, <2>5 DEF L!ScanMinus
<1>3. CASE L!ScanIntegerBase16
  <2>1. L!Scan("INTEGER_BASE16") /\ calling
    BY <1>3 DEF L!ScanIntegerBase16, L!Scan
  <2>2. CASE L!Fail
    BY <2>1, <2>2, Failing
  <2>3. CASE \E kept, s : L!Take(kept) /\ L!Goto(s)
    BY <2>1, <2>3, Taken, Going
  <2>4. QED
    BY <1>3, <2>2, <2>3 DEF L!ScanIntegerBase16
<1>4. CASE L!ScanNumberPrefix
  <2>1. L!Scan("NUMBER_PREFIX") /\ calling
    BY <1>4 DEF L!ScanNumberPrefix, L!Scan
  <2>2. CASE L!Fail
    BY <2>1, <2>2, Failing
  <2>3. CASE \E kept, s : L!Take(kept) /\ L!Goto(s)
    BY <2>1, <2>3, Taken, Going
  <2>4. QED
    BY <1>4, <2>2, <2>3 DEF L!ScanNumberPrefix
<1>5. CASE L!ScanString
  <2>1. L!Scan("STRING") /\ calling
    BY <1>5 DEF L!ScanString, L!Scan
  <2>2. CASE \E kept : L!Take(kept) /\ L!Accept("STRING")
    BY <2>1, <2>2, Taken, Accepting
  <2>3. CASE \E kept, s : L!Take(kept) /\ L!Goto(s)
    BY <2>1, <2>3, Taken, Going
  <2>4. QED
    BY <1>5, <2>2, <2>3 DEF L!ScanString
<1>6. CASE L!ScanEscape
  <2>1. L!Scan("ESCAPE_STRING") /\ calling
    BY <1>6 DEF L!ScanEscape, L!Scan
  <2>2. CASE \E kept, s : L!Untake(kept) /\ L!Goto(s)
    BY <2>1, <2>2, PutBack, Going
  <2>3. CASE \E kept, s : L!Take(kept) /\ L!Goto(s)
    BY <2>1, <2>3, Taken, Going
  <2>4. QED
    BY <1>6, <2>2, <2>3 DEF L!ScanEscape
<1>7. CASE L!ScanNumber
  <2>1. L!Scan("NUMBER") /\ calling
    BY <1>7 DEF L!ScanNumber, L!Scan
  <2>2. CASE L!Fail
    BY <2>1, <2>2, Failing
  <2>3. CASE \E kept, s : L!Take(kept) /\ L!Goto(s)
    BY <2>1, <2>3, Taken, Going
  <2>4. CASE \E kept : L!Take(kept) /\ L!Accept("INTEGER")
    BY <2>1, <2>4, Taken, Accepting
  <2>5. QED
    BY <1>7, <2>2, <2>3, <2>4 DEF L!ScanNumber
<1>8. CASE L!ScanNumberBase16
  <2>1. L!Scan("NUMBER_BASE16") /\ calling
    BY <1>8 DEF L!ScanNumberBase16, L!Scan
  <2>2. CASE L!Fail
    BY <2>1, <2>2, Failing
  <2>3. CASE \E kept, s : L!Take(kept) /\ L!Goto(s)
    BY <2>1, <2>3, Taken, Going
  <2>4. CASE \E kept : L!Take(kept) /\ L!Accept("INTEGER")
    BY <2>1, <2>4, Taken, Accepting
  <2>5. QED
    BY <1>8, <2>2, <2>3, <2>4 DEF L!ScanNumberBase16
<1>9. CASE L!ScanSymbol
  <2>1. L!Scan("SYMBOL") /\ calling
    BY <1>9 DEF L!ScanSymbol, L!Scan
  <2>2. CASE \E kept, s : L!Take(kept) /\ L!Goto(s)
    BY <2>1, <2>2, Taken, Going
  <2>3. CASE \E kept : L!Untake(kept) /\ L!Accept("SYMBOL")
    BY <2>1, <2>3, PutBack, Accepting
  <2>4. QED
    BY <1>9, <2>2, <2>3 DEF L!ScanSymbol
<1>10. CASE L!ScanEnd
  BY <1>10, EndMoves
<1>11. QED
  BY <1>1, <1>2, <1>3, <1>4, <1>5, <1>6, <1>7, <1>8, <1>9, <1>10 DEF L!ScanStep

----------------------------------------------------------------------------
(* The invariant of the composition.                                       *)

\* A parse runs while the lexer scans.  The parser has an argument for every
\* token but the first, and every token it has taken is behind the place the
\* lexer has reached.
Reached == IF calling THEN start ELSE char_no

ParserInv ==
  /\ \E S : seen \in Seq(S)
  /\ pc \in {"IDLE", "START", "ARG", "DELETED"}
  /\ calling => pc \in {"START", "ARG"}
  /\ pc \in {"START", "ARG"} => ret = "NONE" /\ Len(seen) <= Reached
  /\ pc = "START" => seen = <<>> /\ argc = 0
  /\ pc = "ARG" => argc \in Nat /\ Len(seen) = argc + 1

IInv == LexerInv /\ ParserInv /\ AcceptedToTheEnd /\ ShortLinesFit

LEMMA SeenOne ==
  ASSUME NEW t
  PROVE  Len(<<t>>) = 1 /\ \E S : <<t>> \in Seq(S)
<1>1. <<t>> \in Seq({t}) /\ Len(<<t>>) = 1
  OBVIOUS
<1>2. QED
  BY <1>1

LEMMA SeenMore ==
  ASSUME NEW q, \E S : q \in Seq(S), NEW t
  PROVE  Len(q) \in Nat /\ Len(Append(q, t)) = Len(q) + 1 /\ \E S : Append(q, t) \in Seq(S)
<1>1. PICK S : q \in Seq(S)
  OBVIOUS
<1>2. q \in Seq(S \cup {t}) /\ t \in S \cup {t}
  BY <1>1
<1>3. Append(q, t) \in Seq(S \cup {t}) /\ Len(Append(q, t)) = Len(q) + 1
  BY <1>2, AppendProperties
<1>4. QED
  BY <1>1, <1>3

----------------------------------------------------------------------------

LEMMA InitInv == Init => IInv
<1> SUFFICES ASSUME Init PROVE IInv
  OBVIOUS
<1>1. /\ line = <<>> /\ char_no = 0 /\ start = 0 /\ ~calling /\ state = "ZERO"
      /\ seen = <<>> /\ pc = "IDLE" /\ ret = "NONE"
  BY DEF Init, L!Init, P!Init
<1>2. LexerInv
  BY <1>1 DEF LexerInv
<1>3. ParserInv
  <2>1. \E S : seen \in Seq(S)
    <3>1. seen \in Seq({})
      BY <1>1
    <3>2. QED
      BY <3>1
  <2>2. QED
    BY <1>1, <2>1 DEF ParserInv
<1>4. AcceptedToTheEnd /\ ShortLinesFit
  BY <1>1 DEF AcceptedToTheEnd, ShortLinesFit
<1>5. QED
  BY <1>2, <1>3, <1>4 DEF IInv

LEMMA ParseLineInv == ASSUME IInv, ParseLine PROVE IInv'
<1>1. /\ line' \in Lines /\ char_no' = 0 /\ state' = "ZERO" /\ start' = 0
      /\ ~calling /\ ~calling'
  BY DEF ParseLine, L!LineSet
<1>2. pc' = "START" /\ ret' = "NONE" /\ seen' = <<>> /\ argc' = 0
  BY DEF ParseLine, P!Parse, P!ParserCleanup
<1>3. LexerInv'
  <2>1. line' \in Seq(Chars) /\ Len(line') \in Nat
    BY <1>1, LinesAssumption
  <2>2. QED
    BY <1>1, <2>1 DEF LexerInv
<1>4. Len(seen') = 0 /\ \E S : seen' \in Seq(S)
  <2>1. seen' \in Seq({}) /\ Len(seen') = 0
    BY <1>2
  <2>2. QED
    BY <2>1
<1>5. ParserInv'
  BY <1>1, <1>2, <1>4 DEF ParserInv, Reached
<1>6. AcceptedToTheEnd' /\ ShortLinesFit'
  BY <1>2, <1>3, <1>4 DEF AcceptedToTheEnd, ShortLinesFit, LexerInv
<1>7. QED
  BY <1>3, <1>5, <1>6 DEF IInv

LEMMA AskInv == ASSUME IInv, Ask PROVE IInv'
<1>1. /\ UNCHANGED <<line, char_no, state, seen, pc, ret, argc>>
      /\ ~calling /\ tok.type # "ERROR" /\ calling' /\ start' = char_no
      /\ pc \in {"START", "ARG"}
  BY DEF Ask, L!TokenGet, parserVars
<1>2. LexerInv'
  BY <1>1 DEF IInv, LexerInv
<1>3. ParserInv'
  BY <1>1 DEF IInv, ParserInv, Reached
<1>4. AcceptedToTheEnd' /\ ShortLinesFit'
  BY <1>1 DEF IInv, AcceptedToTheEnd, ShortLinesFit
<1>5. QED
  BY <1>2, <1>3, <1>4 DEF IInv

\* After any step of the lexer.
LEMMA ScanLexer == ASSUME IInv, L!ScanStep PROVE LexerInv' /\ Moves
<1>1. Moves
  BY ScanMoves DEF IInv
<1>2. LexerInv'
  BY <1>1 DEF IInv, LexerInv, Moves, GoesOn, Returns
<1>3. QED
  BY <1>1, <1>2

LEMMA ScanInv == ASSUME IInv, Scan PROVE IInv'
<1>1. LexerInv' /\ Moves
  BY ScanLexer DEF Scan
<1>2. UNCHANGED <<seen, pc, ret, argc>> /\ calling' /\ calling
  <2>1. calling
    BY DEF Scan, L!ScanStep, L!ScanZero, L!ScanMinus, L!ScanIntegerBase16, L!ScanNumberPrefix,
           L!ScanString, L!ScanEscape, L!ScanNumber, L!ScanNumberBase16, L!ScanSymbol,
           L!ScanEnd, L!Scan
  <2>2. QED
    BY <2>1 DEF Scan, parserVars
<1>3. ParserInv'
  BY <1>1, <1>2 DEF IInv, ParserInv, Reached, Moves
<1>4. AcceptedToTheEnd' /\ ShortLinesFit'
  BY <1>1, <1>2 DEF IInv, ParserInv, AcceptedToTheEnd, ShortLinesFit, Moves
<1>5. QED
  BY <1>1, <1>3, <1>4 DEF IInv

\* The first token of a line.
LEMMA AnswerStart ==
  ASSUME NEW t, P!RuleStart(t)
  PROVE  /\ pc = "START" /\ seen' = <<t>> /\ argc' = argc
         /\ \/ pc' = "ARG" /\ t.type = "SYMBOL" /\ ret' = ret
            \/ pc' = "IDLE" /\ ret' = "EOF" /\ t.type = "EOF"
            \/ pc' = "IDLE" /\ ret' \in {"SYNTAX_ERROR", "EXPECTED_SYMBOL", "UNDEFINED_SYMBOL"}
BY DEF P!RuleStart, P!Return, P!ReturnArg, P!IsCommand, P!stream

\* A token of an argument, or the one after the last.
LEMMA AnswerArg ==
  ASSUME NEW t, P!RuleArg(t)
  PROVE  /\ pc = "ARG" /\ seen' = Append(seen, t)
         /\ \/ /\ pc' = pc /\ t.type \in {"INTEGER", "STRING", "SYMBOL"} /\ ret' = ret
               /\ argc' = argc + 1
            \/ pc' = "IDLE" /\ ret' = "OK" /\ t.type = "EOF"
            \/ pc' = "IDLE" /\ ret' = "SYNTAX_ERROR"
            \/ /\ pc' = "IDLE" /\ ret' = "EXCEEDED_ARGS_COUNT" /\ argc = ArgsMax
               /\ t.type \in {"INTEGER", "STRING", "SYMBOL"}
BY DEF P!RuleArg, P!Return, P!ReturnArg, P!Argument, P!ArgTypes

LEMMA AnswerInv == ASSUME IInv, Answer PROVE IInv'
<1>1. /\ LexerInv' /\ line' = line /\ start' = start /\ Returns
      /\ char_no' <= Len(line)
  BY ScanLexer DEF Answer, Moves, GoesOn
<1>2. calling /\ ~calling'
  <2>1. calling
    BY DEF Answer, L!ScanStep, L!ScanZero, L!ScanMinus, L!ScanIntegerBase16, L!ScanNumberPrefix,
           L!ScanString, L!ScanEscape, L!ScanNumber, L!ScanNumberBase16, L!ScanSymbol,
           L!ScanEnd, L!Scan
  <2>2. QED
    BY <2>1 DEF Answer
<1>3. PICK t : t.type = tok'.type /\ (P!RuleStart(t) \/ P!RuleArg(t))
  <2>1. Received.type = tok'.type
    BY DEF Received
  <2>2. QED
    BY <2>1 DEF Answer
<1>4. /\ start \in Nat /\ char_no' \in Nat /\ Len(line) \in Nat /\ start <= char_no'
      /\ t.type \in {"INTEGER", "STRING", "SYMBOL"} => start + 1 <= char_no'
      /\ t.type = "EOF" => AtEOF'
  BY <1>1, <1>3 DEF IInv, LexerInv, Returns
<1>5. CASE P!RuleStart(t)
  <2>1. /\ pc = "START" /\ seen' = <<t>> /\ argc' = argc /\ argc = 0 /\ ret = "NONE"
        /\ \/ pc' = "ARG" /\ t.type = "SYMBOL" /\ ret' = ret
           \/ pc' = "IDLE" /\ ret' = "EOF" /\ t.type = "EOF"
           \/ pc' = "IDLE" /\ ret' \in {"SYNTAX_ERROR", "EXPECTED_SYMBOL", "UNDEFINED_SYMBOL"}
    BY <1>5, AnswerStart DEF IInv, ParserInv
  <2>2. Len(seen') = 1 /\ \E S : seen' \in Seq(S)
    BY <2>1, SeenOne
  <2>3. ParserInv'
    BY <1>2, <1>4, <2>1, <2>2 DEF ParserInv, Reached
  <2>4. AcceptedToTheEnd'
    BY <1>4, <2>1 DEF AcceptedToTheEnd, AtEOF
  <2>5. ShortLinesFit'
    BY <1>1, <1>4, <2>1, <2>2 DEF ShortLinesFit
  <2>6. QED
    BY <1>1, <2>3, <2>4, <2>5 DEF IInv
<1>6. CASE P!RuleArg(t)
  <2>1. /\ pc = "ARG" /\ seen' = Append(seen, t)
        /\ \/ /\ pc' = pc /\ t.type \in {"INTEGER", "STRING", "SYMBOL"} /\ ret' = ret
              /\ argc' = argc + 1
           \/ pc' = "IDLE" /\ ret' = "OK" /\ t.type = "EOF"
           \/ pc' = "IDLE" /\ ret' = "SYNTAX_ERROR"
           \/ /\ pc' = "IDLE" /\ ret' = "EXCEEDED_ARGS_COUNT" /\ argc = ArgsMax
              /\ t.type \in {"INTEGER", "STRING", "SYMBOL"}
    BY <1>6, AnswerArg
  <2>2. /\ ret = "NONE" /\ argc \in Nat /\ Len(seen) = argc + 1 /\ Len(seen) <= start
        /\ \E S : seen \in Seq(S)
    BY <1>2, <2>1 DEF IInv, ParserInv, Reached
  <2>3. Len(seen') = argc + 2 /\ \E S : seen' \in Seq(S)
    <3>1. Len(Append(seen, t)) = Len(seen) + 1 /\ \E S : Append(seen, t) \in Seq(S)
      BY <2>2, SeenMore
    <3>2. QED
      BY <2>1, <2>2, <3>1
  <2>4. ParserInv'
    BY <1>2, <1>4, <2>1, <2>2, <2>3 DEF ParserInv, Reached
  <2>5. AcceptedToTheEnd'
    BY <1>4, <2>1, <2>2 DEF AcceptedToTheEnd, AtEOF
  <2>6. ShortLinesFit'
    <3>1. Len(seen') <= Len(line) + 1
      BY <1>1, <1>4, <2>2, <2>3
    <3>2. ret' = "EXCEEDED_ARGS_COUNT" => Len(line) > ArgsMax + 1
      BY <1>1, <1>4, <2>1, <2>2, ArgsMaxAssumption
    <3>3. QED
      BY <1>1, <3>1, <3>2 DEF ShortLinesFit
  <2>7. QED
    BY <1>1, <2>4, <2>5, <2>6 DEF IInv
<1>7. QED
  BY <1>3, <1>5, <1>6

LEMMA ParserDeleteInv == ASSUME IInv, ParserDelete PROVE IInv'
<1>1. /\ UNCHANGED <<line, char_no, state, calling, start, tok, seen, ret>>
      /\ ~calling /\ pc' = "DELETED"
  BY DEF ParserDelete, P!ParserDelete, lexerVars
<1>2. LexerInv'
  BY <1>1 DEF IInv, LexerInv
<1>3. ParserInv'
  BY <1>1 DEF IInv, ParserInv
<1>4. AcceptedToTheEnd' /\ ShortLinesFit'
  BY <1>1 DEF IInv, AcceptedToTheEnd, ShortLinesFit
<1>5. QED
  BY <1>2, <1>3, <1>4 DEF IInv

LEMMA StepInv == IInv /\ [Next]_vars => IInv'
<1> SUFFICES ASSUME IInv, [Next]_vars PROVE IInv'
  OBVIOUS
<1>1. CASE UNCHANGED vars
  <2>1. UNCHANGED <<line, char_no, state, calling, start, tok, seen, pc, ret, argc>>
    BY <1>1 DEF vars, lexerVars, parserVars
  <2>2. LexerInv' /\ ParserInv'
    BY <2>1 DEF IInv, LexerInv, ParserInv, Reached
  <2>3. AcceptedToTheEnd' /\ ShortLinesFit'
    BY <2>1 DEF IInv, AcceptedToTheEnd, ShortLinesFit
  <2>4. QED
    BY <2>2, <2>3 DEF IInv
<1>2. QED
  BY <1>1, ParseLineInv, AskInv, ScanInv, AnswerInv, ParserDeleteInv DEF Next

----------------------------------------------------------------------------
(* The theorems.                                                           *)

\* A line that parse() accepts has been read to its end: nothing that was typed
\* is left out of what the command gets.
THEOREM NothingIgnored == Spec => []AcceptedToTheEnd
<1>1. IInv => AcceptedToTheEnd
  BY DEF IInv
<1>2. QED
  BY <1>1, InitInv, StepInv, PTL DEF Spec

\* The argument vector overflows on lines of more than ArgsMax + 1 characters
\* only, and a line of n characters has at most n + 1 tokens.
THEOREM ShortLines == Spec => []ShortLinesFit
<1>1. IInv => ShortLinesFit
  BY DEF IInv
<1>2. QED
  BY <1>1, InitInv, StepInv, PTL DEF Spec

----------------------------------------------------------------------------
(* The composition implements both of its parts.                           *)

\* The lexer only does what it does alone, asked by the parser when the parser
\* wants a token.
THEOREM ImplementsLexer == Spec => L!Spec
<1>1. Init => L!Init
  BY DEF Init
<1>2. [Next]_vars => [L!Next]_L!vars
  BY DEF Next, vars, lexerVars, ParseLine, Ask, Scan, Answer, ParserDelete, L!Next, L!vars
<1>3. QED
  BY <1>1, <1>2, PTL DEF Spec, L!Spec

\* What a step keeps of the line is characters.
Kept == {<<>>} \cup {<<c>> : c \in Chars}

LEMMA KeptTyped ==
  ASSUME buffer \in Seq(Chars), NEW kept \in Kept, L!Take(kept) \/ L!Untake(kept)
  PROVE  buffer' \in Seq(Chars)
<1>1. buffer' = buffer \o kept
  BY DEF L!Take, L!Untake
<1>2. kept \in Seq(Chars)
  <2>1. \A c \in Chars : <<c>> \in Seq(Chars)
    OBVIOUS
  <2>2. kept = <<>> \/ \E c \in Chars : kept = <<c>>
    BY Zenon DEF Kept
  <2>3. CASE kept = <<>>
    BY <2>3
  <2>4. QED
    BY <2>1, <2>2, <2>3, Zenon
<1>3. QED
  BY <1>1, <1>2, ConcatProperties

LEMMA KeepsChars ==
  ASSUME LexerInv, NEW s, L!Scan(s)
  PROVE  /\ <<>> \in Kept /\ <<L!Char>> \in Kept /\ <<L!BSLASH>> \in Kept
         /\ \A c \in DOMAIN L!EscapeCode : <<L!EscapeCode[c]>> \in Kept
<1>1. L!Char \in Chars
  BY DEF LexerInv, L!Scan, L!GetcIsEOF, L!AtEnd, L!Char
<1>2. L!BSLASH \in Chars
  BY DEF L!BSLASH, BSLASH, Chars
<1>3. \A c \in DOMAIN L!EscapeCode :
        L!EscapeCode[c] \in {"BEL", "BS", "FF", "LF", "CR", "TAB", "VT"}
  BY DEF L!EscapeCode, L!LF, L!CR, L!TAB
<1>4. {"BEL", "BS", "FF", "LF", "CR", "TAB", "VT"} \subseteq Chars
  BY DEF Chars, Blank, Space, LF, CR, TAB
<1>5. QED
  BY <1>1, <1>2, <1>3, <1>4 DEF Kept

\* A step keeps a character or none, and then goes on or returns a token.
Keeps == /\ buffer' \in Seq(Chars)
         /\ calling' \/ \E t \in L!TokenTypes : \E s : L!Return(t, s)

LEMMA Ways ==
  ASSUME LexerInv, buffer \in Seq(Chars), NEW s, L!Scan(s)
  PROVE  /\ L!Fail => Keeps
         /\ \A kept \in Kept : L!Take(kept) \/ L!Untake(kept) =>
              /\ \A t : L!Goto(t) => Keeps
              /\ \A t \in L!TokenTypes : L!Accept(t) => Keeps
<1>1. calling
  BY DEF L!Scan
<1>2. ASSUME L!Fail PROVE Keeps
  <2>1. L!Take(<<L!Char>>) /\ <<L!Char>> \in Kept
    BY <1>2, KeepsChars DEF L!Fail
  <2>2. buffer' \in Seq(Chars)
    BY <2>1, KeptTyped
  <2>3. L!Return("ERROR", state) /\ "ERROR" \in L!TokenTypes
    BY <1>2 DEF L!Fail, L!TokenTypes
  <2>4. QED
    BY <2>2, <2>3 DEF Keeps
<1>3. ASSUME NEW kept \in Kept, L!Take(kept) \/ L!Untake(kept)
      PROVE  /\ \A t : L!Goto(t) => Keeps
             /\ \A t \in L!TokenTypes : L!Accept(t) => Keeps
  <2>1. buffer' \in Seq(Chars)
    BY <1>3, KeptTyped
  <2>2. \A t : L!Goto(t) => calling'
    BY <1>1 DEF L!Goto
  <2>3. \A t : L!Accept(t) => L!Return(t, "ZERO")
    BY DEF L!Accept
  <2>4. QED
    BY <2>1, <2>2, <2>3 DEF Keeps
<1>4. QED
  BY <1>2, <1>3

LEMMA ScanKeeps ==
  ASSUME LexerInv, buffer \in Seq(Chars), L!ScanStep
  PROVE  Keeps
<1> USE DEF L!TokenTypes
<1>1. CASE L!ScanZero
  BY <1>1, Ways, KeepsChars DEF L!ScanZero
<1>2. CASE L!ScanMinus
  BY <1>2, Ways, KeepsChars DEF L!ScanMinus
<1>3. CASE L!ScanIntegerBase16
  BY <1>3, Ways, KeepsChars DEF L!ScanIntegerBase16
<1>4. CASE L!ScanNumberPrefix
  BY <1>4, Ways, KeepsChars DEF L!ScanNumberPrefix
<1>5. CASE L!ScanString
  BY <1>5, Ways, KeepsChars DEF L!ScanString
<1>6. CASE L!ScanEscape
  BY <1>6, Ways, KeepsChars DEF L!ScanEscape
<1>7. CASE L!ScanNumber
  BY <1>7, Ways, KeepsChars DEF L!ScanNumber
<1>8. CASE L!ScanNumberBase16
  BY <1>8, Ways, KeepsChars DEF L!ScanNumberBase16
<1>9. CASE L!ScanSymbol
  BY <1>9, Ways, KeepsChars DEF L!ScanSymbol
<1>10. CASE L!ScanEnd
  BY <1>10 DEF L!ScanEnd, L!Accept, Keeps
<1>11. QED
  BY <1>1, <1>2, <1>3, <1>4, <1>5, <1>6, <1>7, <1>8, <1>9, <1>10 DEF L!ScanStep

\* So the buffer holds characters, whatever the line.
BufferTyped == buffer \in Seq(Chars)

LEMMA StepBuffer == IInv /\ BufferTyped /\ [Next]_vars => BufferTyped'
<1> SUFFICES ASSUME IInv, BufferTyped, [Next]_vars PROVE BufferTyped'
  OBVIOUS
<1> USE DEF BufferTyped
<1>1. CASE ParseLine
  BY <1>1 DEF ParseLine, L!LineSet
<1>2. CASE Ask
  BY <1>2 DEF Ask, L!TokenGet
<1>3. CASE Scan \/ Answer
  BY <1>3, ScanKeeps DEF Scan, Answer, IInv, Keeps
<1>4. CASE ParserDelete
  BY <1>4 DEF ParserDelete, lexerVars
<1>5. CASE UNCHANGED vars
  BY <1>5 DEF vars, lexerVars
<1>6. QED
  BY <1>1, <1>2, <1>3, <1>4, <1>5 DEF Next

\* The token a rule receives is one of those Parser is about.
LEMMA TokenReceived ==
  ASSUME IInv, BufferTyped, L!ScanStep, ~calling'
  PROVE  Received \in [type : L!TokenTypes, text : Seq(Chars)]
<1>1. buffer' \in Seq(Chars) /\ \E t \in L!TokenTypes : \E s : L!Return(t, s)
  BY ScanKeeps DEF Keeps, IInv, BufferTyped
<1>2. L!CString(buffer') \in Seq(Chars)
  BY <1>1 DEF L!CString
<1>3. tok'.type \in L!TokenTypes /\ tok'.text \in Seq(Chars)
  BY <1>1, <1>2 DEF L!Return, L!Token
<1>4. QED
  BY <1>3 DEF Received

\* The parser does what it does on the tokens of a set, so that its theorems
\* hold of it with the lexer's.
THEOREM ImplementsParser == Spec => P!Spec
<1>1. Init => P!Init /\ BufferTyped
  BY DEF Init, L!Init, BufferTyped
<1>2. IInv /\ BufferTyped /\ [Next]_vars => [P!Next]_P!vars
  <2> SUFFICES ASSUME IInv, BufferTyped, [Next]_vars PROVE [P!Next]_P!vars
    OBVIOUS
  <2>1. CASE ParseLine \/ ParserDelete
    BY <2>1 DEF ParseLine, ParserDelete, P!Next
  <2>2. CASE Ask \/ Scan \/ UNCHANGED vars
    BY <2>2 DEF Ask, Scan, vars, parserVars, P!vars
  <2>3. CASE Answer
    <3>1. Received \in [type : L!TokenTypes, text : Seq(Chars)]
      BY <2>3, TokenReceived DEF Answer
    <3>2. P!RuleStart(Received) \/ P!RuleArg(Received)
      BY <2>3 DEF Answer
    <3>3. P!Rule
      BY <3>1, <3>2 DEF P!Rule
    <3>4. QED
      BY <3>3 DEF P!Next
  <2>4. QED
    BY <2>1, <2>2, <2>3 DEF Next
<1>3. QED
  BY <1>1, <1>2, InitInv, StepInv, StepBuffer, PTL DEF Spec, P!Spec
----------------------------------------------------------------------------
(* What the automaton does with a character.                               *)

\* It keeps some characters, takes the one it looks at or puts it back, and goes
\* to the next state or gives a token.
Does(kept, takes, next, gives) == [kept |-> kept, takes |-> takes, next |-> next, gives |-> gives]
Goes(kept, next) == Does(kept, 1, next, "NONE")
Gives(type)      == Does(<<>>, 1, "ZERO", type)
Errs(c)          == Does(<<c>>, 1, "ZERO", "ERROR")

Reaction(s, c) ==
  CASE s = "ZERO" ->
         IF c = L!QUOTE THEN Goes(<<>>, "STRING")
         ELSE IF c = "0" THEN Goes(<<c>>, "NUMBER_PREFIX")
         ELSE IF c \in L!Digit THEN Goes(<<c>>, "NUMBER")
         ELSE IF c \in L!SymbolStart THEN Goes(<<c>>, "SYMBOL")
         ELSE IF c = L!DASH THEN Goes(<<c>>, "MINUS")
         ELSE IF c = L!HASH THEN Goes(<<c>>, "INTEGER_BASE16")
         ELSE IF c \in L!Blank THEN Goes(<<>>, "ZERO")
         ELSE Errs(c)
    [] s = "MINUS" ->
         IF c \in L!Digit THEN Goes(<<c>>, "NUMBER")
         ELSE IF c \in L!DashSymbol THEN Does(<<>>, 0, "SYMBOL", "NONE")
         ELSE IF c \in L!Space THEN Gives("SYMBOL")
         ELSE Errs(c)
    [] s \in {"INTEGER_BASE16", "NUMBER_PREFIX"} ->
         IF c \in L!BaseMark THEN Goes(<<c>>, s)
         ELSE IF c \in L!HexDigit THEN Goes(<<c>>, "NUMBER_BASE16")
         ELSE Errs(c)
    [] s = "STRING" ->
         IF c = L!QUOTE THEN Gives("STRING")
         ELSE IF c = L!BSLASH THEN Goes(<<>>, "ESCAPE_STRING")
         ELSE Goes(<<c>>, "STRING")
    [] s = "ESCAPE_STRING" ->
         IF c = L!LF THEN Goes(<<>>, "STRING")
         ELSE IF c \in L!SelfEscape THEN Goes(<<c>>, "STRING")
         ELSE IF c \in DOMAIN L!EscapeCode THEN Goes(<<L!EscapeCode[c]>>, "STRING")
         ELSE Does(<<L!BSLASH>>, 0, "STRING", "NONE")
    [] s = "NUMBER" ->
         IF c \in L!Blank THEN Gives("INTEGER")
         ELSE IF c \in L!Digit THEN Goes(<<c>>, "NUMBER")
         ELSE Errs(c)
    [] s = "NUMBER_BASE16" ->
         IF c \in L!Blank THEN Gives("INTEGER")
         ELSE IF c \in L!HexDigit THEN Goes(<<c>>, "NUMBER_BASE16")
         ELSE Errs(c)
    [] s = "SYMBOL" ->
         IF c \in L!SymbolChar THEN Goes(<<c>>, "SYMBOL")
         ELSE Does(<<>>, 0, "ZERO", "SYMBOL")

\* The classes a state tells apart have no character in common.
LEMMA Apart ==
  /\ L!SymbolStart \cap ({L!QUOTE, "0", L!HASH, L!DASH} \cup L!Digit \cup L!Blank) = {}
  /\ {L!QUOTE, "0", L!HASH, L!DASH} \cap L!Blank = {}
  /\ {L!QUOTE, L!HASH, L!DASH} \cap L!Digit = {} /\ L!Digit \cap L!Blank = {}
  /\ L!QUOTE # L!HASH /\ L!QUOTE # L!DASH /\ L!QUOTE # "0"
  /\ L!HASH # L!DASH /\ L!HASH # "0" /\ L!DASH # "0" /\ "0" \in L!Digit
  /\ L!DashSymbol \cap L!Digit = {} /\ L!DashSymbol \cap L!Space = {} /\ L!Digit \cap L!Space = {}
  /\ L!HexDigit \cap L!BaseMark = {} /\ L!HexDigit \cap L!Blank = {}
  /\ L!QUOTE # L!BSLASH /\ L!LF \notin L!SelfEscape /\ L!LF \notin DOMAIN L!EscapeCode
  /\ L!SelfEscape \cap DOMAIN L!EscapeCode = {}
BY DEF L!Space, L!Blank, L!NUL, L!Digit, L!HexDigit, L!BaseMark, L!SymbolStart, L!QUOTE, L!HASH, L!DASH,
       L!DashSymbol, L!Letter, L!Lower, L!Upper, L!LF, L!TAB, L!CR, L!SP, L!BSLASH, L!SelfEscape,
       L!EscapeCode

\* A step of the lexer does what r says.
Follows(r) ==
  /\ char_no' = char_no + r.takes
  /\ buffer' = buffer \o r.kept
  /\ IF r.gives = "NONE" THEN calling' /\ state' = r.next
                         ELSE ~calling' /\ tok' = L!Token(r.gives, buffer', char_no')

\* The five ways a step ends.
LEMMA DoesTake ==
  ASSUME calling, char_no \in Nat, NEW kept, L!Take(kept), NEW s, L!Goto(s)
  PROVE  Follows(Goes(kept, s))
BY DEF L!Take, L!Goto, Follows, Goes, Does

LEMMA DoesUntake ==
  ASSUME calling, char_no \in Nat, NEW kept, L!Untake(kept), NEW s, L!Goto(s)
  PROVE  Follows(Does(kept, 0, s, "NONE"))
BY DEF L!Untake, L!Goto, Follows, Does

LEMMA DoesAccept ==
  ASSUME char_no \in Nat, L!Take(<<>>), NEW t \in {"INTEGER", "STRING", "SYMBOL"}, L!Accept(t)
  PROVE  Follows(Gives(t))
BY DEF L!Take, L!Accept, L!Return, Follows, Gives, Does

LEMMA DoesGiveBack ==
  ASSUME char_no \in Nat, NEW kept, L!Untake(kept), NEW t \in {"SYMBOL"}, L!Accept(t)
  PROVE  Follows(Does(kept, 0, "ZERO", t))
BY DEF L!Untake, L!Accept, L!Return, Follows, Does

LEMMA DoesFail ==
  ASSUME char_no \in Nat, L!Fail
  PROVE  Follows(Errs(L!Char))
BY DEF L!Take, L!Fail, L!Return, Follows, Errs, Does

\* And no step does anything else.
LEMMA ScanReacts ==
  ASSUME char_no \in Nat, L!ScanStep, ~L!GetcIsEOF
  PROVE  Follows(Reaction(state, L!Char))
<1> DEFINE c == L!Char
<1> USE Apart
<1>1. CASE L!ScanZero
  <2>1. calling /\ state = "ZERO"
    BY <1>1 DEF L!ScanZero, L!Scan
  <2>2. CASE c = L!QUOTE
    BY <1>1, <2>1, <2>2, DoesTake DEF L!ScanZero, Reaction
  <2>3. CASE c = "0"
    BY <1>1, <2>1, <2>3, DoesTake DEF L!ScanZero, Reaction
  <2>4. CASE c \in L!Digit \ {"0"}
    BY <1>1, <2>1, <2>4, DoesTake DEF L!ScanZero, Reaction
  <2>5. CASE c \in L!SymbolStart
    BY <1>1, <2>1, <2>5, DoesTake DEF L!ScanZero, Reaction
  <2>6. CASE c = L!DASH
    BY <1>1, <2>1, <2>6, DoesTake DEF L!ScanZero, Reaction
  <2>7. CASE c = L!HASH
    BY <1>1, <2>1, <2>7, DoesTake DEF L!ScanZero, Reaction
  <2>8. CASE c \in L!Blank
    BY <1>1, <2>1, <2>8, DoesTake DEF L!ScanZero, Reaction
  <2>9. CASE c \notin {L!QUOTE, L!DASH, L!HASH} \cup L!Digit \cup L!SymbolStart \cup L!Blank
    BY <1>1, <2>1, <2>9, DoesFail DEF L!ScanZero, Reaction
  <2>10. QED
    BY <2>2, <2>3, <2>4, <2>5, <2>6, <2>7, <2>8, <2>9
<1>2. CASE L!ScanMinus
  BY <1>2, DoesTake, DoesUntake, DoesAccept, DoesFail DEF L!ScanMinus, L!Scan, Reaction
<1>3. CASE L!ScanIntegerBase16
  BY <1>3, DoesTake, DoesFail DEF L!ScanIntegerBase16, L!Scan, Reaction
<1>4. CASE L!ScanNumberPrefix
  BY <1>4, DoesTake, DoesFail DEF L!ScanNumberPrefix, L!Scan, Reaction
<1>5. CASE L!ScanString
  BY <1>5, DoesTake, DoesAccept DEF L!ScanString, L!Scan, Reaction
<1>6. CASE L!ScanEscape
  BY <1>6, DoesTake, DoesUntake DEF L!ScanEscape, L!Scan, Reaction
<1>7. CASE L!ScanNumber
  BY <1>7, DoesTake, DoesAccept, DoesFail DEF L!ScanNumber, L!Scan, Reaction
<1>8. CASE L!ScanNumberBase16
  BY <1>8, DoesTake, DoesAccept, DoesFail DEF L!ScanNumberBase16, L!Scan, Reaction
<1>9. CASE L!ScanSymbol
  BY <1>9, DoesTake, DoesGiveBack DEF L!ScanSymbol, L!Scan, Reaction
<1>10. CASE L!ScanEnd
  BY <1>10 DEF L!ScanEnd
<1>11. QED
  BY <1>1, <1>2, <1>3, <1>4, <1>5, <1>6, <1>7, <1>8, <1>9, <1>10 DEF L!ScanStep

----------------------------------------------------------------------------
(* Induction on the natural numbers, for sets of them.                     *)

\* A set of natural numbers that is not empty has a least element.
LEMMA NatMin ==
  ASSUME NEW T, T \subseteq Nat, T # {}
  PROVE  \E x \in T : \A y \in T : x <= y
<1> DEFINE R == OpToRel(<, Nat)
<1>1. IsWellFoundedOn(R, Nat)
  BY NatLessThanWellFounded
<1>2. \A x, y \in Nat : y < x => <<y, x>> \in R
  BY DEF OpToRel
<1> HIDE DEF R
<1>3. PICK x \in T : \A y \in T : ~ (<<y, x>> \in R)
  BY <1>1, WFMin
<1>4. \A y \in T : ~(y < x)
  BY <1>2, <1>3
<1>5. \A y \in T : x <= y
  BY <1>4
<1>6. QED
  BY <1>5

\* One that holds 0, and with every number the next, holds all of them.
LEMMA NatIsAll ==
  ASSUME NEW T, 0 \in T, \A n \in Nat : n \in T => n + 1 \in T
  PROVE  Nat \subseteq T
<1> SUFFICES ASSUME ~(Nat \subseteq T) PROVE FALSE
  OBVIOUS
<1>1. PICK x \in Nat \ T : \A y \in Nat \ T : x <= y
  BY NatMin
<1>2. x - 1 \in Nat /\ x - 1 \in T
  BY <1>1
<1>3. QED
  BY <1>1, <1>2

----------------------------------------------------------------------------
(* What parse() makes of a line, from the line alone.                      *)

\* What decides how a parse goes on: the place reached, the automaton inside a
\* token, and the tokens taken.  At rest the automaton and the buffer are as
\* lexer_token_get makes them when it is called.
Place == [at    |-> char_no,
          state |-> IF calling THEN state ELSE "ZERO",
          kept  |-> IF calling THEN buffer ELSE <<>>,
          seen  |-> seen]

Begin == [at |-> 0, state |-> "ZERO", kept |-> <<>>, seen |-> <<>>]

\* Where the input ends, the tokens given in the states.
Ends(l, at) == at >= Len(l) \/ (CharIsSigned /\ l[at + 1] = XFF)
LastToken(s) == IF s = "ZERO" THEN "EOF"
                ELSE IF s = "NUMBER" THEN "INTEGER"
                ELSE IF s = "SYMBOL" THEN "SYMBOL" ELSE "ERROR"
AtEndDoes(l, at, s) == Does(<<>>, IF at >= Len(l) THEN 0 ELSE 1, "ZERO", LastToken(s))

\* The place after the place p of the line l.
After(l, p) ==
  LET r    == IF Ends(l, p.at) THEN AtEndDoes(l, p.at, p.state)
                               ELSE Reaction(p.state, l[p.at + 1])
      kept == p.kept \o r.kept
      t    == L!Token(r.gives, kept, p.at + r.takes)
  IN IF r.gives = "NONE"
     THEN [at |-> p.at + r.takes, state |-> r.next, kept |-> kept, seen |-> p.seen]
     ELSE [at |-> p.at + r.takes, state |-> "ZERO", kept |-> <<>>,
           seen |-> Append(p.seen, [type |-> t.type, text |-> t.text])]

\* The tokens after which parse() takes no more, and what it makes of them.
Over(s) == /\ s # <<>>
           /\ \/ s[Len(s)].type \in {"EOF", "ERROR"}
              \/ Len(s) = 1 /\ ~P!IsCommand(s[1])
              \/ Len(s) > ArgsMax + 1

Verdict(s) ==
  LET last == s[Len(s)].type
  IN IF last = "ERROR" THEN "SYNTAX_ERROR"
     ELSE IF last = "EOF" THEN IF Len(s) = 1 THEN "EOF" ELSE "OK"
     ELSE IF Len(s) > 1 THEN "EXCEEDED_ARGS_COUNT"
     ELSE IF last = "SYMBOL" THEN "UNDEFINED_SYMBOL" ELSE "EXPECTED_SYMBOL"

Result(s) ==
  [ret     |-> Verdict(s),
   command |-> IF Verdict(s) = "OK" THEN s[1].text ELSE <<>>,
   args    |-> IF Verdict(s) = "OK" THEN [i \in 1 .. Len(s) - 2 |-> P!Object(s[i + 1])] ELSE <<>>]

\* The places r[0] .. r[n] of a parse of l, the last of which may be its end.
Run(l, n, r) ==
  /\ n \in Nat /\ r[0] = Begin
  /\ \A m \in 0 .. n - 1 : r[m + 1] = After(l, r[m]) /\ ~Over(r[m].seen)

\* Two parses of one line are in the same place after the same number of steps.
LEMMA SamePlaces ==
  ASSUME NEW l, NEW n, NEW r, Run(l, n, r), NEW k, NEW q, Run(l, k, q)
  PROVE  \A m \in Nat : m <= n /\ m <= k => r[m] = q[m]
<1> DEFINE T == {m \in Nat : m <= n /\ m <= k => r[m] = q[m]}
<1>1. n \in Nat /\ k \in Nat
  BY DEF Run
<1>2. 0 \in T
  BY DEF Run
<1>3. ASSUME NEW m \in Nat, m \in T PROVE m + 1 \in T
  <2>1. CASE m + 1 <= n /\ m + 1 <= k
    <3>1. m \in 0 .. n - 1 /\ m \in 0 .. k - 1 /\ r[m] = q[m]
      BY <1>1, <1>3, <2>1
    <3>2. r[m + 1] = After(l, r[m]) /\ q[m + 1] = After(l, q[m])
      BY <3>1 DEF Run
    <3>3. QED
      BY <3>1, <3>2
  <2>2. CASE ~(m + 1 <= n /\ m + 1 <= k)
    BY <2>2
  <2>3. QED
    BY <2>1, <2>2
<1> HIDE DEF T
<1>4. Nat \subseteq T
  BY <1>2, <1>3, NatIsAll
<1>5. QED
  BY <1>4 DEF T

\* So they end with the same tokens.
LEMMA SameEnds ==
  ASSUME NEW l, NEW n, NEW r, Run(l, n, r), Over(r[n].seen),
         NEW k, NEW q, Run(l, k, q), Over(q[k].seen)
  PROVE  r[n].seen = q[k].seen
<1>1. n \in Nat /\ k \in Nat
  BY DEF Run
<1>2. ~(n < k)
  <2> SUFFICES ASSUME n < k PROVE FALSE
    OBVIOUS
  <2>1. r[n] = q[n]
    BY <1>1, SamePlaces
  <2>2. ~Over(q[n].seen)
    BY <1>1 DEF Run
  <2>3. QED
    BY <2>1, <2>2
<1>3. ~(k < n)
  <2> SUFFICES ASSUME k < n PROVE FALSE
    OBVIOUS
  <2>1. r[k] = q[k]
    BY <1>1, SamePlaces
  <2>2. ~Over(r[k].seen)
    BY <1>1 DEF Run
  <2>3. QED
    BY <2>1, <2>2
<1>4. n = k
  BY <1>1, <1>2, <1>3
<1>5. r[n] = q[n]
  BY <1>1, <1>4, SamePlaces
<1>6. QED
  BY <1>4, <1>5

\* One more place.
LEMMA RunMore ==
  ASSUME NEW l, NEW n, NEW r, Run(l, n, r), ~Over(r[n].seen)
  PROVE  \E q : Run(l, n + 1, q) /\ q[n + 1] = After(l, r[n])
<1> DEFINE q == [m \in 0 .. n + 1 |-> IF m = n + 1 THEN After(l, r[n]) ELSE r[m]]
<1>1. n \in Nat
  BY DEF Run
<1>2. q[0] = Begin
  BY <1>1 DEF Run
<1>3. ASSUME NEW m \in 0 .. n PROVE q[m + 1] = After(l, q[m]) /\ ~Over(q[m].seen)
  <2>1. q[m] = r[m]
    BY <1>1, <1>3
  <2>2. CASE m = n
    <3>1. q[m + 1] = After(l, r[n])
      BY <1>1, <2>2
    <3>2. QED
      BY <2>1, <2>2, <3>1
  <2>3. CASE m # n
    <3>1. m \in 0 .. n - 1
      BY <1>1, <1>3, <2>3
    <3>2. q[m + 1] = r[m + 1]
      BY <1>1, <3>1
    <3>3. QED
      BY <2>1, <3>1, <3>2 DEF Run
  <2>4. QED
    BY <2>2, <2>3
<1>4. q[n + 1] = After(l, r[n])
  BY <1>1
<1> HIDE DEF q
<1>5. Run(l, n + 1, q)
  BY <1>1, <1>2, <1>3 DEF Run
<1>6. QED
  BY <1>4, <1>5

----------------------------------------------------------------------------
(* A parse goes from place to place, and ends with the verdict.            *)

LEMMA EndReacts ==
  ASSUME LexerInv, BufferTyped, L!ScanEnd
  PROVE  Ends(line, char_no) /\ Follows(AtEndDoes(line, char_no, state))
<1>1. L!XFF = XFF
  BY DEF L!XFF, XFF
<1>2. Ends(line, char_no)
  BY <1>1 DEF L!ScanEnd, L!GetcIsEOF, L!AtEnd, L!Char, Ends
<1>3. char_no' = char_no + AtEndDoes(line, char_no, state).takes
  BY DEF LexerInv, L!ScanEnd, L!AtEnd, AtEndDoes, Does
<1>4. buffer' = buffer /\ buffer \o <<>> = buffer
  BY DEF L!ScanEnd, BufferTyped
<1>5. ~calling' /\ tok' = L!Token(LastToken(state), buffer', char_no')
  BY DEF L!ScanEnd, L!Accept, L!Return, LastToken
<1>6. LastToken(state) # "NONE"
  BY DEF LastToken
<1>7. QED
  BY <1>2, <1>3, <1>4, <1>5, <1>6 DEF Follows, AtEndDoes, Does

\* A step of the lexer, with the answer it may lead to, is a step to the next place.
LEMMA ScanPlace ==
  ASSUME LexerInv, BufferTyped, L!ScanStep, calling,
         seen' = IF calling' THEN seen ELSE Append(seen, Received)
  PROVE  Place' = After(line, Place)
<1> DEFINE r == IF Ends(line, char_no) THEN AtEndDoes(line, char_no, state)
                                       ELSE Reaction(state, line[char_no + 1])
<1>1. Follows(r)
  <2>1. L!XFF = XFF
    BY DEF L!XFF, XFF
  <2>2. Ends(line, char_no) <=> L!GetcIsEOF
    BY <2>1 DEF L!GetcIsEOF, L!AtEnd, L!Char, Ends
  <2>3. CASE L!GetcIsEOF
    <3>1. L!ScanEnd
      BY <2>3 DEF L!ScanStep, L!ScanZero, L!ScanMinus, L!ScanIntegerBase16, L!ScanNumberPrefix,
                  L!ScanString, L!ScanEscape, L!ScanNumber, L!ScanNumberBase16, L!ScanSymbol, L!Scan
    <3>2. QED
      BY <2>2, <2>3, <3>1, EndReacts
  <2>4. CASE ~L!GetcIsEOF
    <3>1. char_no \in Nat
      BY DEF LexerInv
    <3>2. Follows(Reaction(state, L!Char))
      BY <2>4, <3>1, ScanReacts
    <3>3. QED
      BY <2>2, <2>4, <3>2 DEF L!Char
  <2>5. QED
    BY <2>3, <2>4
<1>2. /\ Place.at = char_no /\ Place.state = state /\ Place.kept = buffer /\ Place.seen = seen
  BY DEF Place
<1> DEFINE t == L!Token(r.gives, buffer', char_no')
<1>3. After(line, Place) =
        IF r.gives = "NONE"
        THEN [at |-> char_no', state |-> r.next, kept |-> buffer', seen |-> seen]
        ELSE [at |-> char_no', state |-> "ZERO", kept |-> <<>>,
              seen |-> Append(seen, [type |-> t.type, text |-> t.text])]
  <2>1. char_no' = char_no + r.takes /\ buffer' = buffer \o r.kept
    BY <1>1 DEF Follows
  <2> HIDE DEF r
  <2>2. r = IF Ends(line, Place.at) THEN AtEndDoes(line, Place.at, Place.state)
                                    ELSE Reaction(Place.state, line[Place.at + 1])
    BY <1>2 DEF r
  <2>3. QED
    BY <1>2, <2>1, <2>2 DEF After
<1> HIDE DEF r
<1>4. CASE r.gives = "NONE"
  <2>1. calling' /\ state' = r.next
    BY <1>1, <1>4 DEF Follows
  <2>2. Place' = [at |-> char_no', state |-> r.next, kept |-> buffer', seen |-> seen]
    BY <2>1 DEF Place
  <2>3. QED
    BY <1>3, <1>4, <2>2
<1>5. CASE r.gives # "NONE"
  <2>1. ~calling' /\ tok' = t
    BY <1>1, <1>5 DEF Follows
  <2>2. seen' = Append(seen, [type |-> t.type, text |-> t.text])
    BY <2>1 DEF Received
  <2>3. Place' = [at |-> char_no', state |-> "ZERO", kept |-> <<>>,
                  seen |-> Append(seen, [type |-> t.type, text |-> t.text])]
    BY <2>1, <2>2 DEF Place
  <2>4. QED
    BY <1>3, <1>5, <2>3
<1>6. QED
  BY <1>4, <1>5

\* While a line is parsed, the vector holds its arguments.
VectorInv ==
  /\ args_obj = [i \in P!Indices |-> args_obj[i]]
  /\ heap = [a \in Addr |-> heap[a]]
  /\ pc = "ARG" =>
       /\ argc <= ArgsMax
       /\ command_value.symbol = seen[1].text
       /\ P!IsCommand(seen[1])
       /\ \A i \in 1 .. Len(seen) : /\ seen[i] \in [type : L!TokenTypes, text : Seq(Chars)]
                                    /\ seen[i].type \in P!ArgTypes
       /\ \A i \in 0 .. argc - 1 : args_obj[i] \in Addr /\ heap[args_obj[i]] = P!Object(seen[i + 2])

\* The parse of a line is on its way, or its result is that of the tokens.
Judged == /\ pc' = "ARG" => ~Over(seen')
          /\ pc' = "IDLE" => Over(seen') /\ Seen' = Result(seen')

\* The first token of a line.
LEMMA StartJudged ==
  ASSUME IInv, VectorInv, NEW t \in [type : L!TokenTypes, text : Seq(Chars)], P!RuleStart(t)
  PROVE  VectorInv' /\ Judged /\ seen' = Append(seen, t) /\ pc' \in {"ARG", "IDLE"}
<1>1. pc = "START" /\ seen' = <<t>> /\ seen = <<>> /\ argc = 0 /\ ret = "NONE"
  BY DEF P!RuleStart, IInv, ParserInv
<1>2. Append(seen, t) = <<t>> /\ Len(<<t>>) = 1 /\ <<t>>[1] = t /\ <<t>> # <<>>
  BY <1>1
<1>3. /\ args_obj' = args_obj /\ heap' = heap /\ argc' = 0
  BY <1>1 DEF P!RuleStart, P!Return, P!ReturnArg, P!stream, P!memory
<1>4. CASE P!IsCommand(t)
  <2>1. t.type = "SYMBOL"
    BY <1>4 DEF P!IsCommand
  <2>2. pc' = "ARG" /\ command_value'.symbol = t.text
    BY <1>4, <2>1 DEF P!RuleStart
  <2>3. \A i \in 1 .. 1 : <<t>>[i] = t
    BY <1>2
  <2>4. 0 .. 0 - 1 = {} /\ 0 <= ArgsMax
    BY ArgsMaxAssumption
  <2>5. VectorInv'
    BY <1>1, <1>2, <1>3, <1>4, <2>1, <2>2, <2>3, <2>4 DEF VectorInv, P!ArgTypes
  <2>6. ~Over(<<t>>)
    BY <1>2, <1>4, <2>1, ArgsMaxAssumption DEF Over
  <2>7. QED
    BY <1>1, <1>2, <2>2, <2>5, <2>6 DEF Judged
<1>5. CASE ~P!IsCommand(t)
  <2>1. /\ pc' = "IDLE"
        /\ ret' = IF t.type = "EOF" THEN "EOF" ELSE IF t.type = "ERROR" THEN "SYNTAX_ERROR"
                  ELSE IF t.type = "SYMBOL" THEN "UNDEFINED_SYMBOL" ELSE "EXPECTED_SYMBOL"
    BY <1>5 DEF P!RuleStart, P!Return, P!ReturnArg
  <2>2. VectorInv'
    BY <1>3, <2>1 DEF VectorInv
  <2>3. Over(<<t>>)
    BY <1>2, <1>5 DEF Over
  <2>4. Verdict(<<t>>) = ret' /\ ret' # "OK"
    BY <1>2, <2>1 DEF Verdict
  <2>5. Seen' = Result(<<t>>)
    BY <2>4 DEF Seen, Result
  <2>6. QED
    BY <1>1, <1>2, <2>1, <2>2, <2>3, <2>5 DEF Judged
<1>6. QED
  BY <1>4, <1>5

\* A token of an argument, or the one after the last.
LEMMA ArgJudged ==
  ASSUME IInv, VectorInv, NEW t \in [type : L!TokenTypes, text : Seq(Chars)], P!RuleArg(t)
  PROVE  VectorInv' /\ Judged /\ seen' = Append(seen, t) /\ pc' \in {"ARG", "IDLE"}
<1> DEFINE T == [type : L!TokenTypes, text : Seq(Chars)]
<1>1. pc = "ARG" /\ seen' = Append(seen, t) /\ command_value' = command_value
  BY DEF P!RuleArg
<1>2. /\ argc \in Nat /\ argc <= ArgsMax /\ Len(seen) = argc + 1 /\ ret = "NONE"
      /\ \E S : seen \in Seq(S)
  BY <1>1 DEF IInv, ParserInv, VectorInv
<1>3. PICK S : seen \in Seq(S)
  BY <1>2
<1>4. /\ Len(seen') = argc + 2 /\ seen'[argc + 2] = t /\ seen' # <<>>
      /\ \A i \in 1 .. argc + 1 : seen'[i] = seen[i]
  <2>1. seen \in Seq(S \cup {t}) /\ t \in S \cup {t}
    BY <1>3
  <2>2. Len(Append(seen, t)) = argc + 2 /\ Append(seen, t)[argc + 2] = t
    BY <1>2, <2>1, AppendProperties
  <2>3. \A i \in 1 .. argc + 1 : Append(seen, t)[i] = seen[i]
    BY <1>2, <2>1, AppendProperties
  <2>4. Append(seen, t) # <<>>
    BY <1>2, <2>2
  <2>5. QED
    BY <1>1, <2>2, <2>3, <2>4
<1>5. seen'[1] = seen[1]
  BY <1>2, <1>4
<1>6. CASE t.type \in P!ArgTypes /\ argc # ArgsMax
  <2>1. PICK a \in Addr :
          /\ heap[a] = NULL /\ heap' = [heap EXCEPT ![a] = P!Object(t)]
          /\ args_obj' = [args_obj EXCEPT ![argc] = a] /\ argc' = argc + 1 /\ pc' = pc
    BY <1>6 DEF P!RuleArg, P!Argument, P!ArgTypes
  <2>2. argc \in P!Indices /\ argc + 1 <= ArgsMax
    BY <1>2, <1>6, ArgsMaxAssumption DEF P!Indices
  <2>3. /\ args_obj' = [i \in P!Indices |-> args_obj'[i]] /\ args_obj'[argc] = a
        /\ \A i \in P!Indices \ {argc} : args_obj'[i] = args_obj[i]
    BY <2>1, <2>2 DEF VectorInv
  <2>4. /\ heap' = [b \in Addr |-> heap'[b]] /\ heap'[a] = P!Object(t)
        /\ \A b \in Addr \ {a} : heap'[b] = heap[b]
    BY <2>1 DEF VectorInv
  <2>5. \A i \in 1 .. Len(seen') : seen'[i] \in T /\ seen'[i].type \in P!ArgTypes
    <3> SUFFICES ASSUME NEW i \in 1 .. argc + 2
                 PROVE  seen'[i] \in T /\ seen'[i].type \in P!ArgTypes
      BY <1>4
    <3>1. CASE i = argc + 2
      BY <1>4, <1>6, <3>1
    <3>2. CASE i # argc + 2
      <4>1. i \in 1 .. argc + 1
        BY <1>2, <3>2
      <4>2. QED
        BY <1>1, <1>2, <1>4, <4>1 DEF VectorInv
    <3>3. QED
      BY <3>1, <3>2
  <2>6. \A i \in 0 .. argc' - 1 :
          args_obj'[i] \in Addr /\ heap'[args_obj'[i]] = P!Object(seen'[i + 2])
    <3> SUFFICES ASSUME NEW i \in 0 .. argc
                 PROVE  args_obj'[i] \in Addr /\ heap'[args_obj'[i]] = P!Object(seen'[i + 2])
      BY <1>2, <2>1
    <3>1. CASE i = argc
      BY <1>4, <2>3, <2>4, <3>1
    <3>2. CASE i # argc
      <4>1. i \in 0 .. argc - 1 /\ i \in P!Indices \ {argc} /\ i + 2 \in 1 .. argc + 1
        BY <1>2, <2>2, <3>2, ArgsMaxAssumption DEF P!Indices
      <4>2. args_obj[i] \in Addr /\ heap[args_obj[i]] = P!Object(seen[i + 2])
        BY <1>1, <4>1 DEF VectorInv
      <4>3. P!Object(seen[i + 2]) # NULL
        <5>1. seen[i + 2] \in T
          BY <1>1, <1>2, <4>1 DEF VectorInv
        <5>2. P!Object(seen[i + 2]) \in T
          BY <5>1 DEF P!Object
        <5>3. QED
          BY <5>2, NullAssumption
      <4>4. args_obj[i] # a
        BY <2>1, <4>2, <4>3
      <4>5. args_obj'[i] = args_obj[i] /\ heap'[args_obj[i]] = heap[args_obj[i]]
        BY <2>3, <2>4, <4>1, <4>2, <4>4
      <4>6. seen'[i + 2] = seen[i + 2]
        BY <1>4, <4>1
      <4>7. QED
        BY <4>2, <4>5, <4>6
    <3>3. QED
      BY <3>1, <3>2
  <2>7. P!IsCommand(seen'[1]) /\ command_value'.symbol = seen'[1].text
    BY <1>1, <1>5 DEF VectorInv
  <2>8. VectorInv'
    BY <2>1, <2>2, <2>3, <2>4, <2>5, <2>6, <2>7 DEF VectorInv
  <2>9. ~Over(seen')
    <3>1. seen'[Len(seen')].type \notin {"EOF", "ERROR"}
      BY <1>4, <1>6 DEF P!ArgTypes
    <3>2. ~(Len(seen') = 1) /\ ~(Len(seen') > ArgsMax + 1)
      BY <1>2, <1>4, <2>2, ArgsMaxAssumption
    <3>3. QED
      BY <3>1, <3>2 DEF Over
  <2>10. QED
    BY <1>1, <2>1, <2>8, <2>9 DEF Judged
<1>7. CASE ~(t.type \in P!ArgTypes /\ argc # ArgsMax)
  <2>1. /\ pc' = "IDLE" /\ args_obj' = args_obj /\ heap' = heap /\ argc' = argc
        /\ ret' = IF t.type = "EOF" THEN "OK" ELSE IF t.type = "ERROR" THEN "SYNTAX_ERROR"
                  ELSE "EXCEEDED_ARGS_COUNT"
        /\ t.type \in {"EOF", "ERROR"} \/ argc = ArgsMax
    BY <1>7 DEF P!RuleArg, P!Return, P!ReturnArg, P!stream, P!memory, P!ArgTypes
  <2>2. VectorInv'
    BY <2>1 DEF VectorInv
  <2>3. Over(seen')
    BY <1>2, <1>4, <2>1, ArgsMaxAssumption DEF Over
  <2>4. Verdict(seen') = ret'
    <3>1. seen'[Len(seen')] = t /\ Len(seen') # 1 /\ Len(seen') > 1
      BY <1>2, <1>4
    <3>2. QED
      BY <2>1, <3>1 DEF Verdict
  <2>5. ret' = "OK" => command_value'.symbol = seen'[1].text
    BY <1>1, <1>5 DEF VectorInv
  <2>6. [i \in 1 .. argc' |-> heap'[args_obj'[i - 1]]]
          = [i \in 1 .. Len(seen') - 2 |-> P!Object(seen'[i + 1])]
    <3>1. argc' = argc /\ Len(seen') - 2 = argc
      BY <1>2, <1>4, <2>1
    <3>2. ASSUME NEW i \in 1 .. argc PROVE heap'[args_obj'[i - 1]] = P!Object(seen'[i + 1])
      <4>1. i - 1 \in 0 .. argc - 1 /\ i + 1 \in 1 .. argc + 1 /\ (i - 1) + 2 = i + 1
        BY <1>2
      <4>2. heap[args_obj[i - 1]] = P!Object(seen[i + 1])
        BY <1>1, <4>1 DEF VectorInv
      <4>3. seen'[i + 1] = seen[i + 1]
        BY <1>4, <4>1
      <4>4. QED
        BY <2>1, <4>2, <4>3
    <3>3. QED
      BY <3>1, <3>2
  <2>7. Seen' = Result(seen')
    BY <2>4, <2>5, <2>6 DEF Seen, Result
  <2>8. QED
    BY <1>1, <2>1, <2>2, <2>3, <2>7 DEF Judged
<1>8. QED
  BY <1>6, <1>7

----------------------------------------------------------------------------
(* The same line again.                                                    *)

\* A result comes from a parse of its line from the beginning to an end.
Came(l, o) == \E n, r : Run(l, n, r) /\ Over(r[n].seen) /\ o = Result(r[n].seen)

\* A line has one result.
LEMMA CameOnce == ASSUME NEW l, NEW o, Came(l, o), NEW u, Came(l, u) PROVE o = u
<1>1. PICK n, r : Run(l, n, r) /\ Over(r[n].seen) /\ o = Result(r[n].seen)
  BY DEF Came
<1>2. PICK k, q : Run(l, k, q) /\ Over(q[k].seen) /\ u = Result(q[k].seen)
  BY DEF Came
<1>3. r[n].seen = q[k].seen
  BY <1>1, <1>2, SameEnds
<1>4. QED
  BY <1>1, <1>2, <1>3

\* The parse that is on its way has begun with the line, and every result came
\* from such a parse.
OnTheWay == \E n, r : Run(line, n, r) /\ r[n] = Place

HistoryInv ==
  /\ pc \in {"START", "ARG"} => OnTheWay /\ ~Over(seen)
  /\ \A l \in DOMAIN outcome : Came(l, outcome[l])

RepeatInv == IInv /\ BufferTyped /\ VectorInv /\ HistoryInv

LEMMA InitRepeat == Init => RepeatInv
<1> SUFFICES ASSUME Init PROVE RepeatInv
  OBVIOUS
<1>1. BufferTyped
  BY DEF Init, L!Init, BufferTyped
<1>2. VectorInv
  BY DEF Init, P!Init, VectorInv
<1>3. DOMAIN outcome = {} /\ pc = "IDLE"
  BY DEF Init, P!Init
<1>4. QED
  BY <1>1, <1>2, <1>3, InitInv DEF RepeatInv, HistoryInv

\* A line begins at the beginning, whatever the line before has left.
LEMMA ParseLineRepeats == ASSUME RepeatInv, ParseLine PROVE VectorInv' /\ HistoryInv'
<1>1. /\ char_no' = 0 /\ ~calling' /\ seen' = <<>> /\ pc' = "START" /\ outcome' = outcome
  BY DEF ParseLine, L!LineSet, P!Parse
<1>2. VectorInv'
  BY <1>1 DEF ParseLine, P!Parse, P!ParserCleanup, P!ObjectsDelete, VectorInv
<1>3. Place' = Begin
  BY <1>1 DEF Place, Begin
<1>4. OnTheWay'
  <2> DEFINE r == [m \in 0 .. 0 |-> Begin]
  <2>1. r[0] = Begin /\ \A m \in 0 .. 0 - 1 : FALSE
    OBVIOUS
  <2> HIDE DEF r
  <2>2. Run(line', 0, r)
    BY <2>1 DEF Run
  <2>3. QED
    BY <1>3, <2>1, <2>2 DEF OnTheWay
<1>5. ~Over(seen')
  BY <1>1 DEF Over
<1>6. QED
  BY <1>1, <1>2, <1>4, <1>5 DEF RepeatInv, HistoryInv

\* Asking for a token is no step to another place: the automaton is at rest.
LEMMA AskRepeats == ASSUME RepeatInv, Ask PROVE VectorInv' /\ HistoryInv'
<1>1. /\ UNCHANGED <<line, char_no, state, parserVars, outcome>> /\ ~calling /\ calling'
      /\ buffer' = <<>> /\ state = "ZERO"
  BY DEF RepeatInv, IInv, LexerInv, Ask, L!TokenGet
<1>2. VectorInv'
  BY <1>1 DEF RepeatInv, VectorInv, parserVars
<1>3. Place' = Place
  BY <1>1 DEF Place, parserVars
<1>4. OnTheWay => OnTheWay'
  BY <1>1, <1>3 DEF OnTheWay
<1>5. QED
  BY <1>1, <1>2, <1>4 DEF RepeatInv, HistoryInv, parserVars

\* The parse goes on to the next place.
LEMMA NextPlace ==
  ASSUME RepeatInv, L!ScanStep, pc \in {"START", "ARG"},
         seen' = IF calling' THEN seen ELSE Append(seen, Received)
  PROVE  OnTheWay'
<1>1. calling
  BY DEF L!ScanStep, L!ScanZero, L!ScanMinus, L!ScanIntegerBase16, L!ScanNumberPrefix,
         L!ScanString, L!ScanEscape, L!ScanNumber, L!ScanNumberBase16, L!ScanSymbol,
         L!ScanEnd, L!Scan
<1>2. Place' = After(line, Place) /\ line' = line
  BY <1>1, ScanPlace, ScanLexer DEF RepeatInv, IInv, Moves
<1>3. PICK n, r : Run(line, n, r) /\ r[n] = Place
  BY DEF RepeatInv, HistoryInv, OnTheWay
<1>4. ~Over(r[n].seen)
  BY <1>3 DEF RepeatInv, HistoryInv, Place
<1>5. PICK q : Run(line, n + 1, q) /\ q[n + 1] = After(line, r[n])
  BY <1>3, <1>4, RunMore
<1>6. Run(line', n + 1, q) /\ q[n + 1] = Place'
  BY <1>2, <1>3, <1>5
<1>7. QED
  BY <1>6 DEF OnTheWay

LEMMA ScanRepeats == ASSUME RepeatInv, Scan PROVE VectorInv' /\ HistoryInv'
<1>1. L!ScanStep /\ calling' /\ UNCHANGED <<parserVars, outcome>> /\ seen' = seen /\ pc' = pc
  BY DEF Scan, parserVars
<1>2. VectorInv'
  BY <1>1 DEF RepeatInv, VectorInv, parserVars
<1>3. pc \in {"START", "ARG"} => OnTheWay'
  BY <1>1, NextPlace
<1>4. QED
  BY <1>1, <1>2, <1>3 DEF RepeatInv, HistoryInv

\* The token the lexer hands over, and the end of the line it may be.
LEMMA AnswerRepeats ==
  ASSUME RepeatInv, Answer
  PROVE  /\ VectorInv' /\ HistoryInv'
         /\ \A l \in DOMAIN outcome : outcome'[l] = outcome[l]
<1>1. L!ScanStep /\ ~calling' /\ (P!RuleStart(Received) \/ P!RuleArg(Received))
  BY DEF Answer
<1>2. Received \in [type : L!TokenTypes, text : Seq(Chars)]
  BY <1>1, TokenReceived DEF RepeatInv
<1>3. pc \in {"START", "ARG"}
  BY <1>1 DEF P!RuleStart, P!RuleArg
<1>4. VectorInv' /\ Judged /\ seen' = Append(seen, Received) /\ pc' \in {"ARG", "IDLE"}
  BY <1>1, <1>2, StartJudged, ArgJudged DEF RepeatInv
<1>5. OnTheWay'
  BY <1>1, <1>3, <1>4, NextPlace
<1>6. line' = line
  BY <1>1, ScanLexer DEF RepeatInv, Moves
<1>7. CASE pc' = "ARG"
  <2>1. outcome' = outcome
    BY <1>7 DEF Answer
  <2>2. QED
    BY <1>4, <1>5, <1>7, <2>1 DEF RepeatInv, HistoryInv, Judged
<1>8. CASE pc' = "IDLE"
  <2>1. Came(line, Seen')
    <3>1. PICK n, r : Run(line', n, r) /\ r[n] = Place'
      BY <1>5 DEF OnTheWay
    <3>2. r[n].seen = seen'
      BY <3>1 DEF Place
    <3>3. Over(seen') /\ Seen' = Result(seen')
      BY <1>4, <1>8 DEF Judged
    <3>4. QED
      BY <1>6, <3>1, <3>2, <3>3 DEF Came
  <2>2. outcome' = [l \in DOMAIN outcome \cup {line} |-> IF l = line THEN Seen' ELSE outcome[l]]
    BY <1>8 DEF Answer
  <2>3. \A l \in DOMAIN outcome' : Came(l, outcome'[l])
    BY <2>1, <2>2 DEF RepeatInv, HistoryInv
  <2>4. ASSUME NEW l \in DOMAIN outcome PROVE outcome'[l] = outcome[l]
    <3>1. Came(l, outcome[l]) /\ Came(l, outcome'[l])
      BY <2>2, <2>3, <2>4 DEF RepeatInv, HistoryInv
    <3>2. QED
      BY <3>1, CameOnce
  <2>5. QED
    BY <1>4, <1>8, <2>3, <2>4 DEF HistoryInv
<1>9. QED
  BY <1>4, <1>7, <1>8

LEMMA ParserDeleteRepeats == ASSUME RepeatInv, ParserDelete PROVE VectorInv' /\ HistoryInv'
BY DEF ParserDelete, P!ParserDelete, P!ParserCleanup, P!ObjectsDelete, RepeatInv, VectorInv, HistoryInv

LEMMA StepRepeat ==
  RepeatInv /\ [Next]_vars =>
    RepeatInv' /\ [\A l \in DOMAIN outcome : outcome'[l] = outcome[l]]_outcome
<1> SUFFICES ASSUME RepeatInv, [Next]_vars
             PROVE  /\ RepeatInv'
                    /\ [\A l \in DOMAIN outcome : outcome'[l] = outcome[l]]_outcome
  OBVIOUS
<1>1. IInv' /\ BufferTyped'
  BY StepInv, StepBuffer DEF RepeatInv
<1>2. VectorInv' /\ HistoryInv'
  <2>1. CASE UNCHANGED vars
    <3>1. VectorInv'
      BY <2>1 DEF RepeatInv, VectorInv, vars, parserVars
    <3>2. Place' = Place /\ line' = line /\ outcome' = outcome /\ pc' = pc /\ seen' = seen
      BY <2>1 DEF Place, vars, lexerVars, parserVars
    <3>3. OnTheWay => OnTheWay'
      BY <3>2 DEF OnTheWay
    <3>4. QED
      BY <3>1, <3>2, <3>3 DEF RepeatInv, HistoryInv
  <2>2. QED
    BY <2>1, ParseLineRepeats, AskRepeats, ScanRepeats, AnswerRepeats, ParserDeleteRepeats DEF Next
<1>3. (\A l \in DOMAIN outcome : outcome'[l] = outcome[l]) \/ outcome' = outcome
  BY AnswerRepeats DEF Next, ParseLine, Ask, Scan, ParserDelete, vars
<1>4. QED
  BY <1>1, <1>2, <1>3 DEF RepeatInv

\* What parse() makes of a line is a function of the line: whatever was parsed
\* before it, and however that ended, the value returned, the command and the
\* arguments are the same again.
THEOREM NothingLeftOver == Spec => SameLineSameOutcome
BY InitRepeat, StepRepeat, PTL DEF Spec, SameLineSameOutcome
----------------------------------------------------------------------------
(* A parse ends.                                                           *)

\* What is left to do before another token has been taken: the call, and in it
\* each character counts two, so that taking one pays for the state behind a
\* dash or a backslash, which may put the next one back once.
Left == IF calling
        THEN 2 * (Len(line) - char_no) + IF state \in {"MINUS", "ESCAPE_STRING"} THEN 1 ELSE 0
        ELSE 2 * Len(line) + 2

\* A parse that goes on has reached another place of the line, or is nearer to
\* the end of a call.
Nearer == \/ Reached' \in Reached + 1 .. Len(line')
          \/ Reached' = Reached /\ Left' \in 0 .. Left - 1

LEMMA ReactionIsLess ==
  ASSUME NEW s, NEW c, s \in L!States, Reaction(s, c).gives = "NONE"
  PROVE  \/ Reaction(s, c).takes = 1
         \/ /\ Reaction(s, c).takes = 0 /\ s \in {"MINUS", "ESCAPE_STRING"}
            /\ Reaction(s, c).next \in {"SYMBOL", "STRING"}
BY DEF Reaction, L!States, Does, Goes, Gives, Errs

LEMMA ScanIsNearer == ASSUME RepeatInv, Scan PROVE Nearer
<1>1. /\ L!ScanStep /\ calling /\ calling' /\ line' = line /\ start' = start
      /\ char_no \in Nat /\ Len(line) \in Nat /\ char_no' <= Len(line)
  <2>1. calling
    BY DEF Scan, L!ScanStep, L!ScanZero, L!ScanMinus, L!ScanIntegerBase16, L!ScanNumberPrefix,
           L!ScanString, L!ScanEscape, L!ScanNumber, L!ScanNumberBase16, L!ScanSymbol,
           L!ScanEnd, L!Scan
  <2>2. QED
    BY <2>1, ScanLexer DEF Scan, RepeatInv, IInv, LexerInv, Moves
<1>2. ~L!GetcIsEOF /\ state \in L!States
  BY <1>1 DEF L!ScanStep, L!ScanZero, L!ScanMinus, L!ScanIntegerBase16, L!ScanNumberPrefix,
              L!ScanString, L!ScanEscape, L!ScanNumber, L!ScanNumberBase16, L!ScanSymbol,
              L!ScanEnd, L!Scan, L!Accept, L!Return, L!States
<1> DEFINE r == Reaction(state, L!Char)
<1>3. Follows(r)
  BY <1>1, <1>2, ScanReacts
<1>4. r.gives = "NONE"
  BY <1>1, <1>3 DEF Follows
<1>5. \/ r.takes = 1
      \/ r.takes = 0 /\ state \in {"MINUS", "ESCAPE_STRING"} /\ r.next \in {"SYMBOL", "STRING"}
  BY <1>2, <1>4, ReactionIsLess
<1>6. char_no' = char_no + r.takes /\ state' = r.next
  BY <1>3, <1>4 DEF Follows
<1> HIDE DEF r
<1>7. Left' \in 0 .. Left - 1
  BY <1>1, <1>5, <1>6 DEF Left
<1>8. QED
  BY <1>1, <1>7 DEF Nearer, Reached

LEMMA AskIsNearer == ASSUME RepeatInv, Ask PROVE Nearer
<1>1. /\ ~calling /\ calling' /\ UNCHANGED <<line, char_no, state>> /\ start' = char_no
  BY DEF Ask, L!TokenGet
<1>2. char_no \in Nat /\ Len(line) \in Nat /\ char_no <= Len(line)
  BY DEF RepeatInv, IInv, LexerInv
<1>3. Left' \in 0 .. Left - 1
  BY <1>1, <1>2 DEF Left
<1>4. QED
  BY <1>1, <1>3 DEF Nearer, Reached

LEMMA AnswerIsNearer == ASSUME RepeatInv, Answer, pc' = "ARG" PROVE Nearer
<1>1. /\ L!ScanStep /\ ~calling' /\ (P!RuleStart(Received) \/ P!RuleArg(Received))
  BY DEF Answer
<1>2. Received.type \in {"INTEGER", "STRING", "SYMBOL"}
  BY <1>1, AnswerStart, AnswerArg
<1>3. /\ line' = line /\ start \in Nat /\ char_no' \in Nat /\ Len(line) \in Nat /\ char_no' <= Len(line)
      /\ char_no' > start
  BY <1>1, <1>2, ScanLexer DEF RepeatInv, IInv, LexerInv, Moves, GoesOn, Returns, Received
<1>4. calling
  BY <1>1 DEF L!ScanStep, L!ScanZero, L!ScanMinus, L!ScanIntegerBase16, L!ScanNumberPrefix,
         L!ScanString, L!ScanEscape, L!ScanNumber, L!ScanNumberBase16, L!ScanSymbol,
         L!ScanEnd, L!Scan
<1>5. QED
  BY <1>1, <1>3, <1>4 DEF Nearer, Reached

Parsing == pc \in {"START", "ARG"}

\* A parse takes finitely many steps, whatever the line: between two tokens the
\* lexer's loop runs down, and every token but the last is a part of the line.
THEOREM ParseEnds == Spec => [][Parsing /\ Parsing' => Nearer]_vars
<1>1. RepeatInv /\ [Next]_vars => [Parsing /\ Parsing' => Nearer]_vars
  <2> SUFFICES ASSUME RepeatInv, Next, pc \in {"START", "ARG"}, pc' \in {"START", "ARG"}
               PROVE  Nearer
    BY DEF Parsing
  <2>1. CASE Answer
    <3>1. pc' # "START"
      BY <2>1 DEF Answer, P!RuleStart, P!RuleArg, P!Return, P!ReturnArg, P!Argument
    <3>2. QED
      BY <2>1, <3>1, AnswerIsNearer
  <2>2. ~ParseLine /\ ~ParserDelete
    BY DEF ParseLine, P!Parse, ParserDelete, P!ParserDelete
  <2>3. QED
    BY <2>1, <2>2, AskIsNearer, ScanIsNearer DEF Next
<1>2. QED
  BY <1>1, InitRepeat, StepRepeat, PTL DEF Spec
=============================================================================
