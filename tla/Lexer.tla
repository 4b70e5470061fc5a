------------------------------- MODULE Lexer -------------------------------
(***************************************************************************)
(* The lexer of shell/lexer.c: lexer_line_set hands it a line, and each    *)
(* lexer_token_get walks the line one character at a time until it can     *)
(* return a token.  One action per operation and per lexer_state_t.        *)
(***************************************************************************)
EXTENDS Integers, Sequences, Characters

CONSTANTS
  Lines,         \* the lines the caller may set, as line.buffer[0 .. line.size-1]
  MaxLines,      \* how many lines are set in one behaviour (a bound of the model)
  BufferSize,    \* sizeof(buffer) in lexer_token_get, 1024 in the code
  CharIsSigned   \* whether the target's plain char is signed

\* A line is empty (size 0) or ends with its only NUL, and it fits the buffer:
\* the lexer has no bound check of its own.
ASSUME LinesAssumption ==
  /\ Lines \subseteq Seq(Chars)
  /\ \A l \in Lines : /\ \A i \in 1 .. Len(l) : (l[i] = NUL) <=> (i = Len(l))
                      /\ Len(l) <= BufferSize
ASSUME MaxLinesAssumption == MaxLines \in Nat
ASSUME BufferSizeAssumption == BufferSize \in Nat \ {0}
ASSUME CharIsSignedAssumption == CharIsSigned \in BOOLEAN

VARIABLES
  line,       \* l->line
  char_no,    \* l->char_no, the characters of the line taken so far
  state,      \* l->state
  buffer,     \* buffer[0 .. buffer_pos - 1] of the last lexer_token_get of the line
  calling,    \* TRUE inside lexer_token_get
  start,      \* history: char_no when that call began
  tok,        \* the last token returned
  lineCount   \* lines set so far; bounded by MaxLines

vars == <<line, char_no, state, buffer, calling, start, tok, lineCount>>

States == {"ZERO", "NUMBER", "NUMBER_PREFIX", "NUMBER_BASE16", "SYMBOL",
           "STRING", "ESCAPE_STRING", "MINUS", "INTEGER_BASE16"}
TokenTypes == {"ERROR", "INTEGER", "STRING", "SYMBOL", "EOF"}

NoToken == [type |-> "NONE", text |-> <<>>, column |-> 0]

\* strdup(buf).  NUL can only be the last character kept (NulIsLast), so the
\* C string is the buffer without it.
CString(buf) ==
  IF buf # <<>> /\ buf[Len(buf)] = NUL THEN SubSeq(buf, 1, Len(buf) - 1) ELSE buf

Token(type, buf, col) ==
  [type |-> type, text |-> IF type = "EOF" THEN <<>> ELSE CString(buf), column |-> col]

----------------------------------------------------------------------------
(* Reading: _getc, _ungetc and what the automaton does with a character.   *)

AtEnd_Early == char_no + 1 >= Len(line)
AtEnd == char_no >= Len(line)
Char  == line[char_no + 1]

\* _getc(l) = EOF: nothing is left, or a signed char of value -1 was taken.
GetcIsEOF_NoWidening == AtEnd
GetcIsEOF == ~AtEnd => CharIsSigned /\ Char = XFF

\* The loop takes Char in LEXER_STATE s.
Scan(s) == calling /\ state = s /\ ~GetcIsEOF

Take(kept) == /\ char_no' = char_no + 1
              /\ buffer' = buffer \o kept

Untake_Lost(kept) == /\ char_no' = char_no + 1
                     /\ buffer' = buffer \o kept
\* Taken, then put back by _ungetc.
Untake(kept) == /\ char_no' = char_no
                /\ buffer' = buffer \o kept

Goto(s) == /\ state' = s
           /\ UNCHANGED <<line, calling, start, tok, lineCount>>

\* Return a token with the automaton in state s.
Return(type, s) == /\ calling' = FALSE
                   /\ state' = s
                   /\ tok' = Token(type, buffer', char_no')
                   /\ UNCHANGED <<line, start, lineCount>>

Accept_StateKept(type) == Return(type, state)
Accept(type) == Return(type, "ZERO")

\* An error token leaves the automaton where it is.
Fail == /\ Take(<<Char>>)
        /\ Return("ERROR", state)

----------------------------------------------------------------------------
(* The operations and the states of the automaton.                         *)

LineSet_NoReset ==
  /\ ~calling /\ lineCount < MaxLines
  /\ line' \in Lines
  /\ char_no' = 0
  /\ tok' = NoToken
  /\ buffer' = <<>> /\ start' = 0
  /\ lineCount' = lineCount + 1
  /\ UNCHANGED <<state, calling>>
\* lexer_line_set
LineSet ==
  /\ ~calling /\ lineCount < MaxLines
  /\ line' \in Lines
  /\ char_no' = 0
  /\ state' = "ZERO"
  /\ tok' = NoToken
  /\ buffer' = <<>> /\ start' = 0
  /\ lineCount' = lineCount + 1
  /\ UNCHANGED calling

\* lexer_token_get is called; the parser asks for nothing after EOF or ERROR.
TokenGet ==
  /\ ~calling /\ lineCount > 0
  /\ tok.type \notin {"EOF", "ERROR"}
  /\ calling' = TRUE
  /\ buffer' = <<>>
  /\ start' = char_no
  /\ UNCHANGED <<line, char_no, state, tok, lineCount>>

ScanZero ==
  /\ Scan("ZERO")
  /\ \/ Char = QUOTE               /\ Take(<<>>)     /\ Goto("STRING")
     \/ Char = "0"                 /\ Take(<<Char>>) /\ Goto("NUMBER_PREFIX")
     \/ Char \in Digit \ {"0"}     /\ Take(<<Char>>) /\ Goto("NUMBER")
     \/ Char \in SymbolStart       /\ Take(<<Char>>) /\ Goto("SYMBOL")
     \/ Char = DASH                /\ Take(<<Char>>) /\ Goto("MINUS")
     \/ Char = HASH                /\ Take(<<Char>>) /\ Goto("INTEGER_BASE16")
     \/ Char \in Blank             /\ Take(<<>>)     /\ Goto("ZERO")
     \/ /\ Char \notin {QUOTE, DASH, HASH} \cup Digit \cup SymbolStart \cup Blank
        /\ Fail

ScanMinus_KeptTwice ==
  /\ Scan("MINUS")
  /\ \/ Char \in Digit      /\ Take(<<Char>>)   /\ Goto("NUMBER")
     \/ Char \in DashSymbol /\ Untake(<<Char>>) /\ Goto("SYMBOL")
     \/ Char \in Space      /\ Take(<<>>)       /\ Accept("SYMBOL")
     \/ Char \notin Digit \cup DashSymbol \cup Space /\ Fail
ScanMinus ==
  /\ Scan("MINUS")
  /\ \/ Char \in Digit      /\ Take(<<Char>>) /\ Goto("NUMBER")
     \/ Char \in DashSymbol /\ Untake(<<>>)   /\ Goto("SYMBOL")
     \/ Char \in Space      /\ Take(<<>>)     /\ Accept("SYMBOL")
     \/ Char \notin Digit \cup DashSymbol \cup Space /\ Fail

\* After '#': any number of x, then the first hexadecimal digit.
ScanIntegerBase16 ==
  /\ Scan("INTEGER_BASE16")
  /\ \/ Char \in BaseMark /\ Take(<<Char>>) /\ Goto("INTEGER_BASE16")
     \/ Char \in HexDigit /\ Take(<<Char>>) /\ Goto("NUMBER_BASE16")
     \/ Char \notin BaseMark \cup HexDigit /\ Fail

\* After '0': the same, so a lone 0 is not accepted.
ScanNumberPrefix ==
  /\ Scan("NUMBER_PREFIX")
  /\ \/ Char \in BaseMark /\ Take(<<Char>>) /\ Goto("NUMBER_PREFIX")
     \/ Char \in HexDigit /\ Take(<<Char>>) /\ Goto("NUMBER_BASE16")
     \/ Char \notin BaseMark \cup HexDigit /\ Fail

ScanString ==
  /\ Scan("STRING")
  /\ \/ Char = QUOTE  /\ Take(<<>>) /\ Accept("STRING")
     \/ Char = BSLASH /\ Take(<<>>) /\ Goto("ESCAPE_STRING")
     \/ Char \notin {QUOTE, BSLASH} /\ Take(<<Char>>) /\ Goto("STRING")

ScanEscape_Stuck ==
  /\ Scan("ESCAPE_STRING")
  /\ \/ Char = LF                  /\ Take(<<>>)     /\ Goto("STRING")
     \/ Char \in SelfEscape        /\ Take(<<Char>>) /\ Goto("STRING")
     \/ Char \in DOMAIN EscapeCode /\ Take(<<EscapeCode[Char]>>) /\ Goto("STRING")
     \/ /\ Char \notin {LF} \cup SelfEscape \cup DOMAIN EscapeCode
        /\ Untake(<<>>) /\ Goto("ESCAPE_STRING")
ScanEscape_KeptTwice ==
  /\ Scan("ESCAPE_STRING")
  /\ \/ Char = LF                  /\ Take(<<>>)     /\ Goto("STRING")
     \/ Char \in SelfEscape        /\ Take(<<Char>>) /\ Goto("STRING")
     \/ Char \in DOMAIN EscapeCode /\ Take(<<EscapeCode[Char]>>) /\ Goto("STRING")
     \/ /\ Char \notin {LF} \cup SelfEscape \cup DOMAIN EscapeCode
        /\ Untake(<<BSLASH, Char>>) /\ Goto("STRING")
ScanEscape ==
  /\ Scan("ESCAPE_STRING")
  /\ \/ Char = LF                  /\ Take(<<>>)     /\ Goto("STRING")
     \/ Char \in SelfEscape        /\ Take(<<Char>>) /\ Goto("STRING")
     \/ Char \in DOMAIN EscapeCode /\ Take(<<EscapeCode[Char]>>) /\ Goto("STRING")
     \/ /\ Char \notin {LF} \cup SelfEscape \cup DOMAIN EscapeCode
        /\ Untake(<<BSLASH>>) /\ Goto("STRING")

ScanNumber ==
  /\ Scan("NUMBER")
  /\ \/ Char \in Blank /\ Take(<<>>)     /\ Accept("INTEGER")
     \/ Char \in Digit /\ Take(<<Char>>) /\ Goto("NUMBER")
     \/ Char \notin Blank \cup Digit /\ Fail

ScanNumberBase16 ==
  /\ Scan("NUMBER_BASE16")
  /\ \/ Char \in Blank    /\ Take(<<>>)     /\ Accept("INTEGER")
     \/ Char \in HexDigit /\ Take(<<Char>>) /\ Goto("NUMBER_BASE16")
     \/ Char \notin Blank \cup HexDigit /\ Fail

ScanSymbol ==
  /\ Scan("SYMBOL")
  /\ \/ Char \in SymbolChar    /\ Take(<<Char>>) /\ Goto("SYMBOL")
     \/ Char \notin SymbolChar /\ Untake(<<>>)   /\ Accept("SYMBOL")

ScanEnd_EOFCounted ==
  /\ calling /\ GetcIsEOF
  /\ char_no' = char_no + 1
  /\ UNCHANGED buffer
  /\ \/ state = "ZERO"   /\ Accept("EOF")
     \/ state = "NUMBER" /\ Accept("INTEGER")
     \/ state = "SYMBOL" /\ Accept("SYMBOL")
     \/ state \notin {"ZERO", "NUMBER", "SYMBOL"} /\ Return("ERROR", state)
\* The loop ends on EOF: the acceptance states.
ScanEnd ==
  /\ calling /\ GetcIsEOF
  /\ char_no' = IF AtEnd THEN char_no ELSE char_no + 1
  /\ UNCHANGED buffer
  /\ \/ state = "ZERO"   /\ Accept("EOF")
     \/ state = "NUMBER" /\ Accept("INTEGER")
     \/ state = "SYMBOL" /\ Accept("SYMBOL")
     \/ state \notin {"ZERO", "NUMBER", "SYMBOL"} /\ Return("ERROR", state)

ScanStep == \/ ScanZero \/ ScanMinus \/ ScanIntegerBase16 \/ ScanNumberPrefix
            \/ ScanString \/ ScanEscape \/ ScanNumber \/ ScanNumberBase16
            \/ ScanSymbol \/ ScanEnd

----------------------------------------------------------------------------

\* lexer_new
Init == /\ line = <<>>
        /\ char_no = 0
        /\ state = "ZERO"
        /\ buffer = <<>>
        /\ calling = FALSE
        /\ start = 0
        /\ tok = NoToken
        /\ lineCount = 0

Next == LineSet \/ TokenGet \/ ScanStep

Spec == Init /\ [][Next]_vars

\* The loop in lexer_token_get runs; when it is called is up to the parser.
FairSpec == Spec /\ WF_vars(ScanStep)

----------------------------------------------------------------------------
(* What must hold.                                                         *)

TypeOK ==
  /\ line \in Seq(Chars)
  /\ char_no \in 0 .. Len(line)
  /\ state \in States
  /\ buffer \in Seq(Chars)
  /\ calling \in BOOLEAN
  /\ start \in 0 .. char_no
  /\ tok \in [type : TokenTypes \cup {"NONE"}, text : Seq(Chars), column : Nat]
  /\ lineCount \in 0 .. MaxLines

\* The local buffer is filled without any bound check, and strdup reads it up
\* to a NUL: on a line of at most BufferSize bytes no write falls outside it,
\* and either a byte of it is still zero or the line's NUL is its last one.
BufferSuffices ==
  /\ Len(buffer) <= BufferSize
  /\ Len(buffer) < BufferSize \/ buffer[Len(buffer)] = NUL

\* A NUL is kept only as the last character of a token, so the C string in
\* the token is everything that was kept before it.
NulIsLast == \A i \in 1 .. Len(buffer) : buffer[i] = NUL => i = Len(buffer)

\* Whatever the previous token was, and however the previous line ended, a
\* new call of lexer_token_get finds the automaton at rest: only an error
\* leaves another state behind, and lexer_line_set clears it.
ReadyBetweenTokens == ~calling /\ tok.type # "ERROR" => state = "ZERO"

\* A call that does not report the end of the line has taken at least one
\* character of it (putting back never undoes a whole token), so a line of n
\* characters has at most n tokens.
EveryTokenTakes == ~calling /\ tok.type \notin {"NONE", "EOF"} => char_no > start

\* The strengthening of the invariants above that is inductive.  The quote
\* that opens a string is taken and not kept, and so is the backslash of an
\* escape; where everything taken was kept, the last character kept is the
\* last one taken.
Dropped == IF ~calling THEN 0
           ELSE IF state = "STRING" THEN 1
           ELSE IF state = "ESCAPE_STRING" THEN 2 ELSE 0

IInv ==
  /\ TypeOK
  /\ line \in Lines \cup {<<>>}
  /\ Len(buffer) <= char_no - start - Dropped
  /\ buffer # <<>> /\ Len(buffer) = char_no - start => buffer[Len(buffer)] = line[char_no]
  /\ \A i \in 1 .. Len(buffer) : buffer[i] = NUL => i = Len(buffer) /\ char_no = Len(line)
  /\ calling /\ state # "ZERO" => char_no > start
  /\ EveryTokenTakes
  /\ ReadyBetweenTokens

\* lexer_token_get returns on every line: the characters it puts back never
\* make it loop.
TokenGetReturns == calling ~> ~calling

\* The automaton finds the tokens of the reference definition, in order.
Reference ==
  INSTANCE TokenStream
    WITH pos <- IF calling THEN start ELSE char_no,
         tok <- [type |-> tok.type,
                 text |-> IF tok.type = "ERROR" THEN <<>> ELSE tok.text]

ImplementsTokenStream == Reference!Spec
============================================================================
