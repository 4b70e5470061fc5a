---------------------------- MODULE LexerProofs ----------------------------
(***************************************************************************)
(* Theorems about the lexer for every set of lines that fit the buffer,    *)
(* every buffer size and both kinds of char.  First the invariants that    *)
(* rest on the place in the line and the buffer's length alone.  Then that *)
(* Lexer implements TokenStream: the automaton is followed by an invariant *)
(* on the word it is in: where the word begins, what its characters are up *)
(* to the place reached, and that the buffer holds what they make.  How    *)
(* each kind of word ends, and what TokenStream finds there, are lemmas of *)
(* their own; a step of the automaton then either moves inside the word or *)
(* hands over the token TokenStream finds.                                 *)
(***************************************************************************)
EXTENDS Lexer, WellFoundedInduction, TLAPS

----------------------------------------------------------------------------
(* Sequences and characters.                                               *)

\* What a buffer is after one more character.
LEMMA KeepOne ==
  ASSUME NEW s \in Seq(Chars), NEW c \in Chars
  PROVE  /\ s \o <<c>> \in Seq(Chars)
         /\ s \o <<c>> # <<>>
         /\ Len(s \o <<c>>) = Len(s) + 1
         /\ (s \o <<c>>)[Len(s) + 1] = c
         /\ \A i \in 1 .. Len(s) : (s \o <<c>>)[i] = s[i]
OBVIOUS

\* What it is when nothing is kept.
LEMMA KeepNone == ASSUME NEW s \in Seq(Chars) PROVE s \o <<>> = s
OBVIOUS

\* The characters the lexer makes up are characters, and none is NUL.
LEMMA MadeUp ==
  /\ BSLASH \in Chars /\ BSLASH # NUL
  /\ \A c \in DOMAIN EscapeCode : EscapeCode[c] \in Chars /\ EscapeCode[c] # NUL
<1>1. BSLASH \in Chars /\ BSLASH # NUL
  BY DEF BSLASH, NUL, Chars
<1>2. \A c \in DOMAIN EscapeCode : EscapeCode[c] \in {"BEL", "BS", "FF", LF, CR, TAB, "VT"}
  BY DEF EscapeCode
<1>3. {"BEL", "BS", "FF", LF, CR, TAB, "VT"} \subseteq Chars
  BY DEF Chars, Blank, Space
<1>4. NUL \notin {"BEL", "BS", "FF", LF, CR, TAB, "VT"}
  BY DEF NUL, LF, CR, TAB
<1>5. QED
  BY <1>1, <1>2, <1>3, <1>4

LEMMA CStringType == ASSUME NEW s \in Seq(Chars) PROVE CString(s) \in Seq(Chars)
BY DEF CString

LEMMA TokenTyped ==
  ASSUME NEW t \in TokenTypes, NEW s \in Seq(Chars), NEW n \in Nat
  PROVE  /\ Token(t, s, n) \in [type : TokenTypes \cup {"NONE"}, text : Seq(Chars), column : Nat]
         /\ Token(t, s, n).type = t
BY CStringType DEF Token

----------------------------------------------------------------------------
(* The inductive invariant.                                                *)

\* The character the loop takes is one of the line, and it is the NUL exactly
\* when it is the last one.
LEMMA CharOfLine ==
  ASSUME IInv, ~AtEnd
  PROVE  /\ Char \in Chars
         /\ char_no + 1 <= Len(line)
         /\ Char = NUL <=> char_no + 1 = Len(line)
<1>1. line \in Lines
  BY DEF IInv, TypeOK, AtEnd
<1>2. char_no \in Nat /\ Len(line) \in Nat /\ char_no < Len(line)
  BY DEF IInv, TypeOK, AtEnd
<1>3. QED
  BY <1>1, <1>2, LinesAssumption DEF Char, IInv, TypeOK

LEMMA LineFits == IInv => Len(line) <= BufferSize
BY LinesAssumption, BufferSizeAssumption DEF IInv

\* The steps that take one character and keep one: what they do to the parts
\* of the invariant that speak of the buffer.
LEMMA Kept ==
  ASSUME IInv, ~AtEnd, NEW c \in Chars,
         c = NUL => char_no + 1 = Len(line),
         char_no' = char_no + 1, buffer' = buffer \o <<c>>, UNCHANGED <<line, start>>
  PROVE  /\ char_no' \in 0 .. Len(line') /\ start' \in 0 .. char_no'
         /\ buffer' \in Seq(Chars) /\ buffer' # <<>>
         /\ Len(buffer') = Len(buffer) + 1
         /\ buffer'[Len(buffer')] = c
         /\ \A i \in 1 .. Len(buffer') :
              buffer'[i] = NUL => i = Len(buffer') /\ char_no' = Len(line')
<1>1. buffer \in Seq(Chars) /\ Len(buffer) \in Nat /\ char_no \in Nat /\ start \in 0 .. char_no
  BY DEF IInv, TypeOK
<1>2. char_no + 1 <= Len(line) /\ char_no # Len(line)
  BY <1>1, CharOfLine
<1>3. \A i \in 1 .. Len(buffer) : buffer[i] # NUL
  BY <1>2 DEF IInv
<1>4. QED
  BY <1>1, <1>2, <1>3, KeepOne

\* The steps that take one character, or none, and keep nothing.
LEMMA NotKept ==
  ASSUME IInv, ~AtEnd, char_no' \in {char_no, char_no + 1},
         buffer' = buffer \o <<>>, UNCHANGED <<line, start>>
  PROVE  /\ char_no' \in 0 .. Len(line') /\ start' \in 0 .. char_no'
         /\ buffer' = buffer
         /\ buffer' \in Seq(Chars)
         /\ \A i \in 1 .. Len(buffer') :
              buffer'[i] = NUL => i = Len(buffer') /\ char_no' = Len(line')
<1>1. buffer \in Seq(Chars) /\ Len(buffer) \in Nat /\ char_no \in Nat /\ start \in 0 .. char_no
  BY DEF IInv, TypeOK
<1>2. char_no + 1 <= Len(line) /\ char_no # Len(line)
  BY <1>1, CharOfLine
<1>3. \A i \in 1 .. Len(buffer) : buffer[i] # NUL
  BY <1>2 DEF IInv
<1>4. QED
  BY <1>1, <1>2, <1>3, KeepNone

\* Taking a character, keeping one and going on: the character itself outside
\* strings, whatever an escape stands for inside them.
LEMMA GoOnKeeping ==
  ASSUME IInv, calling, ~AtEnd, NEW c \in Chars,
         c = NUL => char_no + 1 = Len(line),
         NEW s \in States \ {"ZERO", "ESCAPE_STRING"},
         s = "STRING" <=> state \in {"STRING", "ESCAPE_STRING"},
         s # "STRING" => c = Char,
         Take(<<c>>), Goto(s)
  PROVE  IInv'
<1>1. /\ char_no' \in 0 .. Len(line') /\ start' \in 0 .. char_no'
      /\ buffer' \in Seq(Chars) /\ buffer' # <<>>
      /\ Len(buffer') = Len(buffer) + 1
      /\ buffer'[Len(buffer')] = c
      /\ \A i \in 1 .. Len(buffer') :
           buffer'[i] = NUL => i = Len(buffer') /\ char_no' = Len(line')
  BY Kept DEF Take, Goto
<1>2. TypeOK'
  BY <1>1 DEF IInv, TypeOK, Goto
<1>3. Len(buffer') <= char_no' - start' - Dropped'
  BY <1>1 DEF IInv, TypeOK, Take, Goto, Dropped
<1>4. Len(buffer') = char_no' - start' => buffer'[Len(buffer')] = line'[char_no']
  <2>1. CASE s = "STRING"
    BY <1>1, <1>3, <2>1 DEF IInv, TypeOK, Take, Goto, Dropped
  <2>2. CASE s # "STRING"
    BY <1>1, <2>2 DEF Take, Goto, Char
  <2>3. QED
    BY <2>1, <2>2
<1>5. char_no' > start'
  BY DEF IInv, TypeOK, Take, Goto
<1>6. QED
  BY <1>1, <1>2, <1>3, <1>4, <1>5 DEF IInv, Take, Goto, EveryTokenTakes, ReadyBetweenTokens

\* Taking a character, keeping none and going on.
LEMMA GoOnDropping ==
  ASSUME IInv, calling, ~AtEnd, NEW s \in States,
         \/ state = "ZERO" /\ s \in {"ZERO", "STRING"}
         \/ state = "STRING" /\ s = "ESCAPE_STRING"
         \/ state = "ESCAPE_STRING" /\ s = "STRING",
         Take(<<>>), Goto(s)
  PROVE  IInv'
<1>1. /\ char_no' \in 0 .. Len(line') /\ start' \in 0 .. char_no'
      /\ buffer' = buffer
      /\ buffer' \in Seq(Chars)
      /\ \A i \in 1 .. Len(buffer') :
           buffer'[i] = NUL => i = Len(buffer') /\ char_no' = Len(line')
  BY NotKept DEF Take, Goto
<1>2. TypeOK'
  BY <1>1 DEF IInv, TypeOK, Goto
<1>3. Len(buffer') <= char_no' - start' - Dropped'
  BY <1>1 DEF IInv, TypeOK, Take, Goto, Dropped
<1>4. Len(buffer') # char_no' - start'
  BY <1>1 DEF IInv, TypeOK, Take, Goto, Dropped
<1>5. char_no' > start'
  BY DEF IInv, TypeOK, Take, Goto
<1>6. QED
  BY <1>1, <1>2, <1>3, <1>4, <1>5 DEF IInv, Take, Goto, EveryTokenTakes, ReadyBetweenTokens

\* Putting the character back: after a dash, and after the backslash of an
\* escape C does not have, which is then kept.
LEMMA GoOnUntaking ==
  ASSUME IInv, calling, ~AtEnd,
         \/ state = "MINUS" /\ Untake(<<>>) /\ Goto("SYMBOL")
         \/ state = "ESCAPE_STRING" /\ Untake(<<BSLASH>>) /\ Goto("STRING")
  PROVE  IInv'
<1>1. CASE state = "MINUS" /\ Untake(<<>>) /\ Goto("SYMBOL")
  <2>1. buffer' = buffer
    BY <1>1, KeepNone DEF IInv, TypeOK, Untake
  <2>2. QED
    BY <1>1, <2>1
       DEF IInv, TypeOK, Untake, Goto, Dropped, States, EveryTokenTakes, ReadyBetweenTokens
<1>2. CASE state = "ESCAPE_STRING" /\ Untake(<<BSLASH>>) /\ Goto("STRING")
  <2>1. /\ buffer' \in Seq(Chars)
        /\ Len(buffer') = Len(buffer) + 1
        /\ buffer'[Len(buffer')] # NUL
        /\ \A i \in 1 .. Len(buffer) : buffer'[i] = buffer[i]
    BY <1>2, KeepOne, MadeUp DEF IInv, TypeOK, Untake
  <2>2. \A i \in 1 .. Len(buffer) : buffer[i] # NUL
    BY CharOfLine DEF IInv, TypeOK
  <2>3. \A i \in 1 .. Len(buffer') : buffer'[i] # NUL
    BY <2>1, <2>2 DEF IInv, TypeOK
  <2>4. Len(buffer') <= char_no' - start' - 1
    BY <1>2, <2>1 DEF IInv, TypeOK, Untake, Goto, Dropped
  <2>5. QED
    BY <1>2, <2>1, <2>3, <2>4
       DEF IInv, TypeOK, Untake, Goto, Dropped, States, EveryTokenTakes, ReadyBetweenTokens
<1>3. QED
  BY <1>1, <1>2

\* Returning a token.
LEMMA Returning ==
  ASSUME IInv, calling, NEW t \in TokenTypes, NEW s \in States, Return(t, s),
         t # "ERROR" => s = "ZERO",
         t # "EOF" => char_no' > start',
         char_no' \in 0 .. Len(line), start \in 0 .. char_no', buffer' \in Seq(Chars),
         Len(buffer') <= char_no' - start,
         buffer' # <<>> /\ Len(buffer') = char_no' - start => buffer'[Len(buffer')] = line[char_no'],
         \A i \in 1 .. Len(buffer') : buffer'[i] = NUL => i = Len(buffer') /\ char_no' = Len(line)
  PROVE  IInv'
<1>1. tok' \in [type : TokenTypes \cup {"NONE"}, text : Seq(Chars), column : Nat] /\ tok'.type = t
  BY TokenTyped DEF Return
<1>2. TypeOK'
  BY <1>1 DEF IInv, TypeOK, Return
<1>3. Len(buffer') <= char_no' - start' - Dropped'
  BY DEF Return, Dropped, IInv, TypeOK
<1>4. QED
  BY <1>1, <1>2, <1>3 DEF IInv, Return, EveryTokenTakes, ReadyBetweenTokens

\* Returning the error token of a character that is not expected.
LEMMA Failing == ASSUME IInv, calling, ~AtEnd, Fail PROVE IInv'
<1>1. Char \in Chars /\ (Char = NUL => char_no + 1 = Len(line))
  BY CharOfLine
<1>2. /\ char_no' \in 0 .. Len(line') /\ start' \in 0 .. char_no'
      /\ buffer' \in Seq(Chars)
      /\ Len(buffer') = Len(buffer) + 1
      /\ buffer'[Len(buffer')] = Char
      /\ \A i \in 1 .. Len(buffer') :
           buffer'[i] = NUL => i = Len(buffer') /\ char_no' = Len(line')
  BY <1>1, Kept DEF Fail, Take, Return
<1>3. char_no' > start' /\ Len(buffer') <= char_no' - start
  BY <1>2 DEF Fail, Take, Return, IInv, TypeOK, Dropped
<1>4. buffer'[Len(buffer')] = line[char_no']
  BY <1>2 DEF Fail, Take, Char
<1>5. state \in States /\ "ERROR" \in TokenTypes
  BY DEF IInv, TypeOK, TokenTypes
<1>6. QED
  BY <1>2, <1>3, <1>4, <1>5, Returning DEF Fail, Return

\* Returning a token on a character that is taken, or put back, and not kept.
LEMMA Accepting ==
  ASSUME IInv, calling, ~AtEnd, state # "ZERO", NEW t \in TokenTypes, Accept(t),
         Take(<<>>) \/ Untake(<<>>)
  PROVE  IInv'
<1>1. /\ char_no' \in 0 .. Len(line') /\ start' \in 0 .. char_no'
      /\ buffer' = buffer
      /\ buffer' \in Seq(Chars)
      /\ \A i \in 1 .. Len(buffer') :
           buffer'[i] = NUL => i = Len(buffer') /\ char_no' = Len(line')
  BY NotKept DEF Take, Untake, Accept, Return
<1>2. char_no' > start' /\ Len(buffer') <= char_no' - start
  BY <1>1 DEF Take, Untake, Accept, Return, IInv, TypeOK, Dropped
<1>3. buffer' # <<>> /\ Len(buffer') = char_no' - start => buffer'[Len(buffer')] = line[char_no']
  <2>1. /\ char_no \in Int /\ start \in Int /\ Len(buffer) \in Int
        /\ Len(buffer) <= char_no - start
    BY DEF IInv, TypeOK, Dropped
  <2>2. CASE Take(<<>>)
    <3>1. Len(buffer') # char_no' - start
      BY <1>1, <2>1, <2>2 DEF Take
    <3>2. QED
      BY <3>1
  <2>3. CASE Untake(<<>>)
    <3>1. char_no' = char_no
      BY <2>3 DEF Untake
    <3>2. buffer # <<>> /\ Len(buffer) = char_no - start => buffer[Len(buffer)] = line[char_no]
      BY DEF IInv
    <3>3. QED
      BY <1>1, <3>1, <3>2
  <2>4. QED
    BY <2>2, <2>3
<1>4. "ZERO" \in States
  BY DEF States
<1>5. QED
  BY <1>1, <1>2, <1>3, <1>4, Returning DEF Accept, Return

----------------------------------------------------------------------------
(* One lemma per action.                                                   *)

LEMMA ScanZeroInv == IInv /\ ScanZero => IInv'
<1> SUFFICES ASSUME IInv, ScanZero PROVE IInv'
  OBVIOUS
<1>1. calling /\ ~AtEnd /\ state = "ZERO"
  BY DEF ScanZero, Scan, GetcIsEOF
<1>2. Char \in Chars /\ (Char = NUL => char_no + 1 = Len(line))
  BY <1>1, CharOfLine
<1>3. CASE Char = QUOTE /\ Take(<<>>) /\ Goto("STRING")
  BY <1>1, <1>3, GoOnDropping DEF States
<1>4. CASE Char \in Blank /\ Take(<<>>) /\ Goto("ZERO")
  BY <1>1, <1>4, GoOnDropping DEF States
<1>5. ASSUME NEW s \in {"NUMBER_PREFIX", "NUMBER", "SYMBOL", "MINUS", "INTEGER_BASE16"},
             Take(<<Char>>), Goto(s)
      PROVE  IInv'
  BY <1>1, <1>2, <1>5, GoOnKeeping DEF States
<1>6. CASE Fail
  BY <1>1, <1>6, Failing
<1>7. QED
  BY <1>3, <1>4, <1>5, <1>6 DEF ScanZero

LEMMA ScanMinusInv == IInv /\ ScanMinus => IInv'
<1> SUFFICES ASSUME IInv, ScanMinus PROVE IInv'
  OBVIOUS
<1>1. calling /\ ~AtEnd /\ state = "MINUS"
  BY DEF ScanMinus, Scan, GetcIsEOF
<1>2. Char \in Chars /\ (Char = NUL => char_no + 1 = Len(line))
  BY <1>1, CharOfLine
<1>3. CASE Take(<<Char>>) /\ Goto("NUMBER")
  BY <1>1, <1>2, <1>3, GoOnKeeping DEF States
<1>4. CASE Untake(<<>>) /\ Goto("SYMBOL")
  BY <1>1, <1>4, GoOnUntaking
<1>5. CASE Take(<<>>) /\ Accept("SYMBOL")
  BY <1>1, <1>5, Accepting DEF TokenTypes
<1>6. CASE Fail
  BY <1>1, <1>6, Failing
<1>7. QED
  BY <1>3, <1>4, <1>5, <1>6 DEF ScanMinus

LEMMA ScanIntegerBase16Inv == IInv /\ ScanIntegerBase16 => IInv'
<1> SUFFICES ASSUME IInv, ScanIntegerBase16 PROVE IInv'
  OBVIOUS
<1>1. calling /\ ~AtEnd /\ state = "INTEGER_BASE16"
  BY DEF ScanIntegerBase16, Scan, GetcIsEOF
<1>2. Char \in Chars /\ (Char = NUL => char_no + 1 = Len(line))
  BY <1>1, CharOfLine
<1>3. ASSUME NEW s \in {"INTEGER_BASE16", "NUMBER_BASE16"}, Take(<<Char>>), Goto(s)
      PROVE  IInv'
  BY <1>1, <1>2, <1>3, GoOnKeeping DEF States
<1>4. CASE Fail
  BY <1>1, <1>4, Failing
<1>5. QED
  BY <1>3, <1>4 DEF ScanIntegerBase16

LEMMA ScanNumberPrefixInv == IInv /\ ScanNumberPrefix => IInv'
<1> SUFFICES ASSUME IInv, ScanNumberPrefix PROVE IInv'
  OBVIOUS
<1>1. calling /\ ~AtEnd /\ state = "NUMBER_PREFIX"
  BY DEF ScanNumberPrefix, Scan, GetcIsEOF
<1>2. Char \in Chars /\ (Char = NUL => char_no + 1 = Len(line))
  BY <1>1, CharOfLine
<1>3. ASSUME NEW s \in {"NUMBER_PREFIX", "NUMBER_BASE16"}, Take(<<Char>>), Goto(s)
      PROVE  IInv'
  BY <1>1, <1>2, <1>3, GoOnKeeping DEF States
<1>4. CASE Fail
  BY <1>1, <1>4, Failing
<1>5. QED
  BY <1>3, <1>4 DEF ScanNumberPrefix

LEMMA ScanStringInv == IInv /\ ScanString => IInv'
<1> SUFFICES ASSUME IInv, ScanString PROVE IInv'
  OBVIOUS
<1>1. calling /\ ~AtEnd /\ state = "STRING"
  BY DEF ScanString, Scan, GetcIsEOF
<1>2. Char \in Chars /\ (Char = NUL => char_no + 1 = Len(line))
  BY <1>1, CharOfLine
<1>3. CASE Take(<<>>) /\ Accept("STRING")
  BY <1>1, <1>3, Accepting DEF TokenTypes
<1>4. CASE Take(<<>>) /\ Goto("ESCAPE_STRING")
  BY <1>1, <1>4, GoOnDropping DEF States
<1>5. CASE Take(<<Char>>) /\ Goto("STRING")
  BY <1>1, <1>2, <1>5, GoOnKeeping DEF States
<1>6. QED
  BY <1>3, <1>4, <1>5 DEF ScanString

LEMMA ScanEscapeInv == IInv /\ ScanEscape => IInv'
<1> SUFFICES ASSUME IInv, ScanEscape PROVE IInv'
  OBVIOUS
<1>1. calling /\ ~AtEnd /\ state = "ESCAPE_STRING"
  BY DEF ScanEscape, Scan, GetcIsEOF
<1>2. Char \in Chars /\ (Char = NUL => char_no + 1 = Len(line))
  BY <1>1, CharOfLine
<1>3. CASE Take(<<>>) /\ Goto("STRING")
  BY <1>1, <1>3, GoOnDropping DEF States
<1>4. CASE Take(<<Char>>) /\ Goto("STRING")
  BY <1>1, <1>2, <1>4, GoOnKeeping DEF States
<1>5. CASE Char \in DOMAIN EscapeCode /\ Take(<<EscapeCode[Char]>>) /\ Goto("STRING")
  BY <1>1, <1>5, MadeUp, GoOnKeeping DEF States
<1>6. CASE Untake(<<BSLASH>>) /\ Goto("STRING")
  BY <1>1, <1>6, GoOnUntaking
<1>7. QED
  BY <1>3, <1>4, <1>5, <1>6 DEF ScanEscape

LEMMA ScanNumberInv == IInv /\ ScanNumber => IInv'
<1> SUFFICES ASSUME IInv, ScanNumber PROVE IInv'
  OBVIOUS
<1>1. calling /\ ~AtEnd /\ state = "NUMBER"
  BY DEF ScanNumber, Scan, GetcIsEOF
<1>2. Char \in Chars /\ (Char = NUL => char_no + 1 = Len(line))
  BY <1>1, CharOfLine
<1>3. CASE Take(<<>>) /\ Accept("INTEGER")
  BY <1>1, <1>3, Accepting DEF TokenTypes
<1>4. CASE Take(<<Char>>) /\ Goto("NUMBER")
  BY <1>1, <1>2, <1>4, GoOnKeeping DEF States
<1>5. CASE Fail
  BY <1>1, <1>5, Failing
<1>6. QED
  BY <1>3, <1>4, <1>5 DEF ScanNumber

LEMMA ScanNumberBase16Inv == IInv /\ ScanNumberBase16 => IInv'
<1> SUFFICES ASSUME IInv, ScanNumberBase16 PROVE IInv'
  OBVIOUS
<1>1. calling /\ ~AtEnd /\ state = "NUMBER_BASE16"
  BY DEF ScanNumberBase16, Scan, GetcIsEOF
<1>2. Char \in Chars /\ (Char = NUL => char_no + 1 = Len(line))
  BY <1>1, CharOfLine
<1>3. CASE Take(<<>>) /\ Accept("INTEGER")
  BY <1>1, <1>3, Accepting DEF TokenTypes
<1>4. CASE Take(<<Char>>) /\ Goto("NUMBER_BASE16")
  BY <1>1, <1>2, <1>4, GoOnKeeping DEF States
<1>5. CASE Fail
  BY <1>1, <1>5, Failing
<1>6. QED
  BY <1>3, <1>4, <1>5 DEF ScanNumberBase16

LEMMA ScanSymbolInv == IInv /\ ScanSymbol => IInv'
<1> SUFFICES ASSUME IInv, ScanSymbol PROVE IInv'
  OBVIOUS
<1>1. calling /\ ~AtEnd /\ state = "SYMBOL"
  BY DEF ScanSymbol, Scan, GetcIsEOF
<1>2. Char \in Chars /\ (Char = NUL => char_no + 1 = Len(line))
  BY <1>1, CharOfLine
<1>3. CASE Take(<<Char>>) /\ Goto("SYMBOL")
  BY <1>1, <1>2, <1>3, GoOnKeeping DEF States
<1>4. CASE Untake(<<>>) /\ Accept("SYMBOL")
  BY <1>1, <1>4, Accepting DEF TokenTypes
<1>5. QED
  BY <1>3, <1>4 DEF ScanSymbol

\* The end of the input: nothing is kept, and at most the byte that reads as
\* EOF is taken.
LEMMA ScanEndInv == IInv /\ ScanEnd => IInv'
<1> SUFFICES ASSUME IInv, ScanEnd PROVE IInv'
  OBVIOUS
<1>1. buffer' = buffer /\ buffer \in Seq(Chars) /\ UNCHANGED <<line, start>> /\ calling
  BY DEF ScanEnd, Accept, Return, IInv, TypeOK
<1>2. /\ char_no' \in 0 .. Len(line) /\ char_no' >= char_no /\ start \in 0 .. char_no'
      /\ ~AtEnd => char_no' = char_no + 1 /\ char_no < Len(line)
      /\ AtEnd => char_no' = char_no
  BY DEF ScanEnd, AtEnd, IInv, TypeOK
<1>3. Len(buffer') <= char_no' - start
  BY <1>1, <1>2 DEF IInv, TypeOK, Dropped
<1>4. buffer' # <<>> /\ Len(buffer') = char_no' - start => buffer'[Len(buffer')] = line[char_no']
  <2>1. /\ char_no \in Int /\ start \in Int /\ Len(buffer) \in Int
        /\ Len(buffer) <= char_no - start
    BY <1>1 DEF IInv, TypeOK, Dropped
  <2>2. CASE ~AtEnd
    <3>1. Len(buffer') # char_no' - start
      BY <1>1, <1>2, <2>1, <2>2
    <3>2. QED
      BY <3>1
  <2>3. CASE AtEnd
    <3>1. buffer # <<>> /\ Len(buffer) = char_no - start => buffer[Len(buffer)] = line[char_no]
      BY DEF IInv
    <3>2. QED
      BY <1>1, <1>2, <2>3, <3>1
  <2>4. QED
    BY <2>2, <2>3
<1>5. \A i \in 1 .. Len(buffer') : buffer'[i] = NUL => i = Len(buffer') /\ char_no' = Len(line)
  BY <1>1, <1>2 DEF IInv, TypeOK
<1>6. CASE state = "ZERO" /\ Accept("EOF")
  BY <1>1, <1>2, <1>3, <1>4, <1>5, <1>6, Returning DEF Accept, TokenTypes, States
<1>7. ASSUME NEW u \in {"INTEGER", "SYMBOL"}, state # "ZERO", Accept(u)
      PROVE  IInv'
  <2>1. char_no' > start'
    BY <1>1, <1>2, <1>7 DEF IInv, TypeOK
  <2>2. QED
    BY <1>1, <1>2, <1>3, <1>4, <1>5, <1>7, <2>1, Returning DEF Accept, TokenTypes, States
<1>8. CASE state # "ZERO" /\ Return("ERROR", state)
  <2>1. char_no' > start' /\ state \in States
    BY <1>1, <1>2, <1>8 DEF IInv, TypeOK
  <2>2. QED
    BY <1>1, <1>2, <1>3, <1>4, <1>5, <1>8, <2>1, Returning DEF TokenTypes
<1>9. QED
  BY <1>6, <1>7, <1>8 DEF ScanEnd

LEMMA LineSetInv == IInv /\ LineSet => IInv'
<1> SUFFICES ASSUME IInv, LineSet PROVE IInv'
  OBVIOUS
<1>1. tok' \in [type : TokenTypes \cup {"NONE"}, text : Seq(Chars), column : Nat]
      /\ tok'.type = "NONE"
  BY DEF LineSet, NoToken
<1>2. TypeOK'
  BY <1>1, LinesAssumption, MaxLinesAssumption DEF LineSet, IInv, TypeOK, States
<1>3. QED
  BY <1>1, <1>2 DEF LineSet, IInv, TypeOK, Dropped, EveryTokenTakes, ReadyBetweenTokens

LEMMA TokenGetInv == IInv /\ TokenGet => IInv'
<1> SUFFICES ASSUME IInv, TokenGet PROVE IInv'
  OBVIOUS
<1>1. TypeOK'
  BY DEF TokenGet, IInv, TypeOK
<1>2. state' = "ZERO"
  BY DEF TokenGet, IInv, ReadyBetweenTokens
<1>3. QED
  BY <1>1, <1>2 DEF TokenGet, IInv, TypeOK, Dropped, EveryTokenTakes, ReadyBetweenTokens

----------------------------------------------------------------------------

THEOREM IInvHolds == Spec => []IInv
<1>1. Init => IInv
  <2> SUFFICES ASSUME Init PROVE IInv
    OBVIOUS
  <2>1. NoToken \in [type : TokenTypes \cup {"NONE"}, text : Seq(Chars), column : Nat]
    BY DEF NoToken
  <2>2. TypeOK
    <3>1. <<>> \in Seq(Chars) /\ Len(<<>>) = 0
      OBVIOUS
    <3>2. 0 \in 0 .. 0 /\ 0 \in 0 .. MaxLines
      BY MaxLinesAssumption
    <3>3. QED
      BY <2>1, <3>1, <3>2 DEF Init, TypeOK, States
  <2>3. QED
    BY <2>2 DEF Init, IInv, Dropped, EveryTokenTakes, ReadyBetweenTokens, NoToken
<1>2. IInv /\ [Next]_vars => IInv'
  <2> SUFFICES ASSUME IInv, [Next]_vars PROVE IInv'
    OBVIOUS
  <2>1. CASE LineSet
    BY <2>1, LineSetInv
  <2>2. CASE TokenGet
    BY <2>2, TokenGetInv
  <2>3. CASE ScanStep
    BY <2>3, ScanZeroInv, ScanMinusInv, ScanIntegerBase16Inv, ScanNumberPrefixInv,
       ScanStringInv, ScanEscapeInv, ScanNumberInv, ScanNumberBase16Inv, ScanSymbolInv,
       ScanEndInv DEF ScanStep
  <2>4. CASE UNCHANGED vars
    BY <2>4 DEF vars, IInv, TypeOK, Dropped, EveryTokenTakes, ReadyBetweenTokens
  <2>5. QED
    BY <2>1, <2>2, <2>3, <2>4 DEF Next
<1>3. QED
  BY <1>1, <1>2, PTL DEF Spec

\* The variables keep their types (lexer.h:26-56).
THEOREM TypeCorrect == Spec => []TypeOK
<1>1. IInv => TypeOK
  BY DEF IInv
<1>2. QED
  BY <1>1, IInvHolds, PTL

\* The unchecked writes of lexer_token_get into its local buffer stay inside
\* it, and strdup finds a NUL in it, for every line that is no longer than it.
THEOREM BufferIsSafe == Spec => []BufferSuffices
<1>1. IInv => BufferSuffices
  <2> SUFFICES ASSUME IInv PROVE BufferSuffices
    OBVIOUS
  <2>1. /\ buffer \in Seq(Chars) /\ Len(buffer) \in Nat
        /\ char_no \in 0 .. Len(line) /\ start \in 0 .. char_no
        /\ Len(buffer) <= char_no - start
    BY DEF IInv, TypeOK, Dropped
  <2>2. Len(line) <= BufferSize /\ Len(line) \in Nat /\ BufferSize \in Nat \ {0}
    BY LineFits, BufferSizeAssumption DEF IInv, TypeOK
  <2>3. CASE Len(buffer) < BufferSize
    <3>1. Len(buffer) <= BufferSize
      BY <2>1, <2>2, <2>3
    <3>2. QED
      BY <2>3, <3>1 DEF BufferSuffices
  <2>4. CASE Len(buffer) = BufferSize
    <3>1. start = 0 /\ char_no = Len(line) /\ Len(line) = BufferSize /\ buffer # <<>>
      BY <2>1, <2>2, <2>4
    <3>2. buffer[Len(buffer)] = line[Len(line)]
      BY <2>1, <2>4, <3>1 DEF IInv
    <3>3. line[Len(line)] = NUL
      BY <2>2, <3>1, LinesAssumption DEF IInv
    <3>4. QED
      BY <2>4, <3>2, <3>3, <2>2 DEF BufferSuffices
  <2>5. QED
    BY <2>1, <2>2, <2>3, <2>4
<1>2. QED
  BY <1>1, IInvHolds, PTL

\* No character is lost behind an embedded NUL (lexer.c:139, strdup).
THEOREM NulOnlyLast == Spec => []NulIsLast
<1>1. IInv => NulIsLast
  BY DEF IInv, NulIsLast
<1>2. QED
  BY <1>1, IInvHolds, PTL

\* Every call finds the automaton at rest (lexer.c:159, 404-415, 95).
THEOREM Ready == Spec => []ReadyBetweenTokens
<1>1. IInv => ReadyBetweenTokens
  BY DEF IInv
<1>2. QED
  BY <1>1, IInvHolds, PTL

\* A line has no more tokens than characters, whatever _ungetc puts back.
THEOREM TokensTake == Spec => []EveryTokenTakes
<1>1. IInv => EveryTokenTakes
  BY DEF IInv
<1>2. QED
  BY <1>1, IInvHolds, PTL
----------------------------------------------------------------------------
(* Induction on the natural numbers, for sets of them.                     *)

\* A set of natural numbers that is not empty has a least element.
LEMMA NatMin ==
  ASSUME NEW T, T \subseteq Nat, T # {}
  PROVE  \E x \in T : \A y \in T : x <= y
<1> DEFINE R == OpToRel(<, Nat)
<1>1. IsWellFoundedOn(R, Nat)
  BY NatLessThanWellFounded
<1>2. \A x, y \in Nat : y < x => <<y, x>> \in R
  BY DEF OpToRel
<1> HIDE DEF R
<1>3. PICK x \in T : \A y \in T : ~ (<<y, x>> \in R)
  BY <1>1, WFMin
<1>4. \A y \in T : ~(y < x)
  BY <1>2, <1>3
<1>5. \A y \in T : x <= y
  BY <1>4
<1>6. QED
  BY <1>5

\* One that holds 0, and with every number the next, holds all of them.
LEMMA NatIsAll ==
  ASSUME NEW T, 0 \in T, \A n \in Nat : n \in T => n + 1 \in T
  PROVE  Nat \subseteq T
<1> SUFFICES ASSUME ~(Nat \subseteq T) PROVE FALSE
  OBVIOUS
<1>1. PICK x \in Nat \ T : \A y \in Nat \ T : x <= y
  BY NatMin
<1>2. x - 1 \in Nat /\ x - 1 \in T
  BY <1>1
<1>3. QED
  BY <1>1, <1>2

----------------------------------------------------------------------------
(* The words.                                                              *)

\* From a to b there are characters of S only.
Run(a, b, S) == \A k \in a .. b : Reference!In(k, S)

\* The word that the call reads begins at i, behind blanks only.
Begins(i) == /\ i \in start + 1 .. Len(line)
             /\ Run(start + 1, i - 1, Blank)
             /\ ~Reference!IsEnd(i) /\ line[i] \notin Blank

\* What the word that begins at i is known to be after n characters of the line.
Dash(i, n)    == line[i] = DASH /\ n = i
Decimal(i, n) == /\ line[i] \in Digit \ {"0"} \/ (line[i] = DASH /\ n > i)
                 /\ Run(i + 1, n, Digit)
Marked(i, n, c) == line[i] = c /\ Run(i + 1, n, BaseMark)
Hex(i, n)     == /\ line[i] \in {"0", HASH}
                 /\ \E f \in i + 1 .. n : Run(i + 1, f - 1, BaseMark) /\ Run(f, n, HexDigit)
Symbol(i, n)  == /\ line[i] \in SymbolStart \/ (line[i] = DASH /\ Reference!In(i + 1, DashSymbol))
                 /\ Run(i + 1, n, SymbolChar)

\* A string that is open after n characters, of which those behind the quote
\* at i make t.
Open(i, n) == /\ line[i] = QUOTE
              /\ \A k \in i + 1 .. n : ~Reference!IsEnd(k)
              /\ \A k \in i + 1 .. n : line[k] = QUOTE => Reference!Escaped(i, k)
Makes(w, i, n) == /\ w \in [i .. n -> Seq(Chars)] /\ w[i] = <<>>
                  /\ \A m \in i + 1 .. n : w[m] = w[m - 1] \o Reference!Denotes(i, m)
Made(i, n, t) == \E w : Makes(w, i, n) /\ t = w[n]

\* A string when the lexer has kept the backslash of an escape it does not
\* translate: the character behind it is still to be taken.
Untranslated(i, n, buf) ==
  /\ Reference!Escaped(i, n + 1) /\ n < Len(line)
  /\ line[n + 1] \notin {LF} \cup SelfEscape \cup DOMAIN EscapeCode
  /\ \E t \in Seq(Chars) : Made(i, n, t) /\ buf = t \o <<BSLASH>>

\* The word so far, in each state of the automaton.
Word(s, i, n, buf) ==
  \/ s = "MINUS" /\ Dash(i, n) /\ buf = Reference!Text(i, n + 1)
  \/ s = "NUMBER" /\ Decimal(i, n) /\ buf = Reference!Text(i, n + 1)
  \/ s = "NUMBER_PREFIX" /\ Marked(i, n, "0") /\ buf = Reference!Text(i, n + 1)
  \/ s = "INTEGER_BASE16" /\ Marked(i, n, HASH) /\ buf = Reference!Text(i, n + 1)
  \/ s = "NUMBER_BASE16" /\ Hex(i, n) /\ buf = Reference!Text(i, n + 1)
  \/ s = "SYMBOL" /\ Symbol(i, n) /\ buf = Reference!Text(i, n + 1)
  \/ s = "STRING" /\ Open(i, n) /\ ~Reference!Escaped(i, n + 1) /\ Made(i, n, buf)
  \/ s = "STRING" /\ Open(i, n) /\ Untranslated(i, n, buf)
  \/ s = "ESCAPE_STRING" /\ Open(i, n) /\ Reference!Escaped(i, n + 1) /\ Made(i, n, buf)

SoFar(s, n, buf) ==
  \/ s = "ZERO" /\ buf = <<>> /\ Run(start + 1, n, Blank)
  \/ \E i \in start + 1 .. n : Begins(i) /\ Word(s, i, n, buf)

WordInv ==
  calling => /\ SoFar(state, char_no, buffer)
             /\ tok.type \notin {"EOF", "ERROR"} /\ lineCount > 0

----------------------------------------------------------------------------
(* Facts about the definitions of TokenStream.                             *)

\* The characters and classes TokenStream speaks of are the lexer's.
LEMMA SameClasses ==
  /\ Reference!Blank = Blank /\ Reference!Space = Space /\ Reference!Digit = Digit
  /\ Reference!BaseMark = BaseMark /\ Reference!HexDigit = HexDigit
  /\ Reference!SymbolChar = SymbolChar /\ Reference!SymbolStart = SymbolStart
  /\ Reference!DashSymbol = DashSymbol /\ Reference!SelfEscape = SelfEscape
  /\ Reference!EscapeCode = EscapeCode
  /\ Reference!QUOTE = QUOTE /\ Reference!BSLASH = BSLASH /\ Reference!DASH = DASH
  /\ Reference!HASH = HASH /\ Reference!LF = LF /\ Reference!NUL = NUL /\ Reference!XFF = XFF
  /\ Reference!Chars = Chars
BY DEF Reference!Blank, Blank, Reference!Space, Space, Reference!Digit, Digit, Reference!BaseMark,
       BaseMark, Reference!HexDigit, HexDigit, Reference!SymbolChar, SymbolChar, Reference!SymbolStart,
       SymbolStart, Reference!DashSymbol, DashSymbol, Reference!SelfEscape, SelfEscape,
       Reference!EscapeCode, EscapeCode, Reference!QUOTE, QUOTE, Reference!BSLASH, BSLASH,
       Reference!DASH, DASH, Reference!HASH, HASH, Reference!LF, LF, Reference!NUL, NUL,
       Reference!XFF, XFF, Reference!Letter, Letter, Reference!Lower, Lower, Reference!Upper, Upper,
       Reference!CR, CR, Reference!TAB, TAB, Reference!SP, SP, Reference!Chars, Chars

\* A first place that does not hold a character of S is found.
LEMMA AfterIs ==
  ASSUME Len(line) \in Nat, NEW S, NEW i \in Nat, NEW j \in i .. Len(line) + 1,
         ~Reference!In(j, S), Run(i, j - 1, S)
  PROVE  Reference!After(i, S) = j
<1> DEFINE P(n) == ~Reference!In(n, S) /\ \A k \in i .. n - 1 : Reference!In(k, S)
<1>1. P(j)
  BY DEF Run
<1>2. ASSUME NEW n \in i .. Len(line) + 1, P(n) PROVE n = j
  <2>1. ~(n < j)
    BY <1>1, <1>2
  <2>2. ~(j < n)
    BY <1>1, <1>2
  <2>3. QED
    BY <2>1, <2>2
<1> HIDE DEF P
<1>3. (CHOOSE n \in i .. Len(line) + 1 : P(n)) = j
  BY <1>1, <1>2
<1>4. QED
  BY <1>3 DEF P, Reference!After

\* Whether the character at k is escaped depends on the one before it.
LEMMA NotEscaped ==
  ASSUME NEW i \in Nat, NEW k \in Nat, i <= k, line[k] # BSLASH
  PROVE  ~Reference!Escaped(i, k + 1)
<1> SUFFICES ASSUME Reference!Escaped(i, k + 1) PROVE FALSE
  OBVIOUS
<1>1. PICK j \in i .. k : /\ \A m \in j + 1 .. k : line[m] = BSLASH
                          /\ (k - j) % 2 = 1
  BY SameClasses DEF Reference!Escaped
<1>2. j = k
  BY <1>1
<1>3. QED
  BY <1>1, <1>2

\* Behind a backslash it is the other way round than at the backslash.
LEMMA EscapedFlips ==
  ASSUME NEW i \in Nat, NEW k \in Nat, i < k, line[i] # BSLASH, line[k] = BSLASH
  PROVE  Reference!Escaped(i, k + 1) <=> ~Reference!Escaped(i, k)
<1> DEFINE P(j, n) == j \in i .. n /\ line[j] # BSLASH /\ \A m \in j + 1 .. n : line[m] = BSLASH
<1>1. \A n : Reference!Escaped(i, n) <=> \E j : P(j, n - 1) /\ (n - 1 - j) % 2 = 1
  BY SameClasses DEF Reference!Escaped
<1>2. \E j : P(j, k - 1)
  <2> DEFINE T == {d \in Nat : d <= k - 1 - i /\ line[k - 1 - d] # BSLASH}
  <2>1. k - 1 - i \in T
    BY SMT
  <2>2. PICK d \in T : \A e \in T : d <= e
    BY <2>1, NatMin
  <2>3. \A m \in (k - 1 - d) + 1 .. k - 1 : line[m] = BSLASH
    <3>1. SUFFICES ASSUME NEW m \in (k - 1 - d) + 1 .. k - 1, line[m] # BSLASH PROVE FALSE
      OBVIOUS
    <3>2. /\ k - 1 - m \in Nat /\ k - 1 - m < d /\ k - 1 - m <= k - 1 - i
          /\ k - 1 - (k - 1 - m) = m
      BY <2>2, <3>1
    <3>3. k - 1 - m \in T
      BY <3>1, <3>2
    <3>4. QED
      BY <2>2, <3>2, <3>3
  <2>4. P(k - 1 - d, k - 1)
    BY <2>2, <2>3
  <2>5. QED
    BY <2>4
<1>3. \A j : P(j, k) <=> P(j, k - 1)
  OBVIOUS
<1>4. \A j, l : P(j, k - 1) /\ P(l, k - 1) => j = l
  OBVIOUS
<1>5. PICK j : P(j, k - 1)
  BY <1>2
<1>6. j \in Int /\ j <= k - 1
  BY <1>5
<1>7. Reference!Escaped(i, k + 1) <=> \E l : P(l, k) /\ (k - l) % 2 = 1
  <2>1. Reference!Escaped(i, k + 1) <=> \E l : P(l, k + 1 - 1) /\ (k + 1 - 1 - l) % 2 = 1
    BY <1>1
  <2>2. \A l \in Int : k + 1 - 1 - l = k - l
    OBVIOUS
  <2>3. QED
    BY <2>1, <2>2
<1> HIDE DEF P
<1>8. Reference!Escaped(i, k) <=> (k - 1 - j) % 2 = 1
  BY <1>1, <1>4, <1>5
<1>9. Reference!Escaped(i, k + 1) <=> (k - j) % 2 = 1
  BY <1>3, <1>4, <1>5, <1>7
<1>10. (k - j) % 2 = 1 <=> ~((k - 1 - j) % 2 = 1)
  BY <1>6
<1>11. QED
  BY <1>8, <1>9, <1>10

\* The classes that tell the words apart do not overlap.
LEMMA Classes ==
  /\ Space \subseteq Blank /\ NUL \in Blank /\ NUL \in SymbolChar
  /\ Digit \cap Blank = {} /\ HexDigit \cap Blank = {} /\ BaseMark \cap Blank = {}
  /\ HexDigit \cap BaseMark = {} /\ NUL \notin Space
  /\ SymbolStart \cap ({QUOTE, "0", HASH, DASH} \cup Digit \cup Blank) = {}
  /\ {QUOTE, "0", HASH, DASH} \cap Blank = {} /\ {QUOTE, HASH, DASH} \cap Digit = {}
  /\ QUOTE # HASH /\ QUOTE # DASH /\ QUOTE # "0" /\ HASH # DASH /\ HASH # "0" /\ DASH # "0"
  /\ DashSymbol \cap Digit = {} /\ DashSymbol \cap Space = {} /\ Digit \cap Space = {}
  /\ "0" \in Digit /\ QUOTE # BSLASH
BY DEF Space, Blank, NUL, SymbolChar, Digit, HexDigit, BaseMark, SymbolStart, QUOTE, HASH, DASH,
       DashSymbol, Letter, Lower, Upper, LF, TAB, CR, SP, BSLASH

\* The place reached, and where the call began, are inside the line.
LEMMA LineTyped ==
  ASSUME IInv
  PROVE  /\ line \in Seq(Chars) /\ Len(line) \in Nat
         /\ char_no \in 0 .. Len(line) /\ start \in 0 .. char_no
BY DEF IInv, TypeOK

\* Which word begins is decided by its first character.
LEMMA NextWord ==
  ASSUME IInv, calling, NEW i, Begins(i)
  PROVE  LET c == line[i] IN
         /\ c = QUOTE => Reference!NextToken = Reference!StringAt(i)
         /\ c \in {"0", HASH} => Reference!NextToken = Reference!HexAt(i)
         /\ c \in Digit \ {"0"} => Reference!NextToken = Reference!DecimalAt(i)
         /\ c = DASH => Reference!NextToken = Reference!DashAt(i)
         /\ c \in SymbolStart => Reference!NextToken = Reference!SymbolAt(i)
         /\ c \notin {QUOTE, HASH, DASH} \cup Digit \cup SymbolStart =>
              Reference!NextToken = Reference!Error(i)
<1>1. Reference!After(start + 1, Reference!Blank) = i
  <2>1. ~Reference!In(i, Blank)
    BY SameClasses DEF Begins, Reference!In
  <2>2. start + 1 \in Nat /\ i \in start + 1 .. Len(line) + 1
    BY LineTyped DEF Begins
  <2>3. QED
    BY <2>1, <2>2, LineTyped, AfterIs, SameClasses DEF Begins
<1>2. ~Reference!IsEnd(i)
  BY DEF Begins
<1>3. QED
  BY <1>1, <1>2, SameClasses, Classes DEF Reference!NextToken

\* Blanks up to the end of the input are the end of the line.
LEMMA NextEnd ==
  ASSUME IInv, calling, NEW n \in start .. Len(line), Run(start + 1, n, Blank),
         Reference!IsEnd(n + 1)
  PROVE  Reference!NextToken = Reference!Found("EOF", <<>>, Reference!Through(n + 1))
<1>1. Reference!After(start + 1, Reference!Blank) = n + 1
  <2>1. ~Reference!In(n + 1, Blank)
    BY DEF Reference!In
  <2>2. start + 1 \in Nat /\ n + 1 \in start + 1 .. Len(line) + 1 /\ Len(line) \in Nat
    BY LineTyped
  <2>3. Run(start + 1, (n + 1) - 1, Blank)
    BY LineTyped DEF Run
  <2>4. QED
    BY <2>1, <2>2, <2>3, AfterIs, SameClasses
<1>2. QED
  BY <1>1 DEF Reference!NextToken

----------------------------------------------------------------------------
(* How the words end.                                                      *)

\* What the place behind the word is.
LEMMA Here ==
  ASSUME IInv, NEW n \in 0 .. Len(line)
  PROVE  /\ Reference!IsEnd(n + 1) <=> (n = Len(line) \/ (CharIsSigned /\ line[n + 1] = XFF))
         /\ \A S : Reference!In(n + 1, S) <=> ~Reference!IsEnd(n + 1) /\ line[n + 1] \in S
         /\ Reference!Through(n + 1) = IF n = Len(line) THEN n ELSE n + 1
BY LineTyped, SameClasses DEF Reference!IsEnd, Reference!In, Reference!Through

\* A decimal number ends at the first character that is not a digit.
LEMMA DecimalEnds ==
  ASSUME IInv, calling, NEW i, Begins(i), NEW n \in i .. Len(line), Decimal(i, n),
         ~Reference!In(n + 1, Digit)
  PROVE  Reference!NextToken =
           IF Reference!IsEnd(n + 1) \/ Reference!In(n + 1, Blank)
           THEN Reference!Found("INTEGER", Reference!Text(i, n + 1), Reference!Through(n + 1))
           ELSE Reference!Error(n + 1)
<1>1. i \in Nat /\ n \in Nat /\ n + 1 - 1 = n /\ n + 1 \in i + 1 .. Len(line) + 1
  BY LineTyped DEF Begins
<1>2. Reference!After(i + 1, Reference!Digit) = n + 1
  BY <1>1, LineTyped, AfterIs, SameClasses DEF Decimal
<1>3. Reference!NextToken = Reference!DecimalAt(i)
  <2>1. CASE line[i] = DASH /\ n > i
    <3>1. Reference!In(i + 1, Digit)
      BY <1>1, <2>1 DEF Decimal, Run
    <3>2. QED
      BY <2>1, <3>1, NextWord, SameClasses DEF Reference!DashAt
  <2>2. CASE line[i] \in Digit \ {"0"}
    BY <2>2, NextWord
  <2>3. QED
    BY <2>1, <2>2 DEF Decimal
<1>4. QED
  BY <1>2, <1>3, SameClasses DEF Reference!DecimalAt

\* A hexadecimal number does at the first that is not a hexadecimal digit,
\* but the end of the input does not end it.
LEMMA HexEnds ==
  ASSUME IInv, calling, NEW i, Begins(i), NEW n \in i .. Len(line), Hex(i, n),
         ~Reference!In(n + 1, HexDigit)
  PROVE  Reference!NextToken =
           IF Reference!In(n + 1, Blank)
           THEN Reference!Found("INTEGER", Reference!Text(i, n + 1), Reference!Through(n + 1))
           ELSE Reference!Error(n + 1)
<1>1. i \in Nat /\ n \in Nat /\ n + 1 - 1 = n
  BY LineTyped DEF Begins
<1>2. PICK f \in i + 1 .. n : Run(i + 1, f - 1, BaseMark) /\ Run(f, n, HexDigit)
  BY DEF Hex
<1>3. Reference!After(i + 1, Reference!BaseMark) = f
  <2>1. ~Reference!In(f, BaseMark)
    BY <1>1, <1>2, Classes DEF Run, Reference!In
  <2>2. QED
    BY <1>1, <1>2, <2>1, LineTyped, AfterIs, SameClasses
<1>4. Reference!After(f, Reference!HexDigit) = n + 1
  BY <1>1, <1>2, LineTyped, AfterIs, SameClasses
<1>5. Reference!NextToken = Reference!HexAt(i)
  BY NextWord DEF Hex
<1>6. n + 1 > f
  BY <1>1, <1>2
<1>7. QED
  BY <1>3, <1>4, <1>5, <1>6, SameClasses DEF Reference!HexAt

\* There is no digit behind the marks.
LEMMA MarkedEnds ==
  ASSUME IInv, calling, NEW i, Begins(i), NEW n \in i .. Len(line), NEW c \in {"0", HASH},
         Marked(i, n, c), ~Reference!In(n + 1, BaseMark), ~Reference!In(n + 1, HexDigit)
  PROVE  Reference!NextToken = Reference!Error(n + 1)
<1>1. i \in Nat /\ n \in Nat /\ n + 1 - 1 = n /\ n + 1 \in i + 1 .. Len(line) + 1
  BY LineTyped DEF Begins
<1>2. Reference!After(i + 1, Reference!BaseMark) = n + 1
  BY <1>1, LineTyped, AfterIs, SameClasses DEF Marked
<1>3. Reference!After(n + 1, Reference!HexDigit) = n + 1
  <2>1. Run(n + 1, n, HexDigit)
    BY <1>1 DEF Run
  <2>2. QED
    BY <1>1, <2>1, LineTyped, AfterIs, SameClasses
<1>4. Reference!NextToken = Reference!HexAt(i)
  BY NextWord DEF Marked
<1>5. QED
  BY <1>1, <1>2, <1>3, <1>4 DEF Reference!HexAt

\* A lone dash is a symbol in front of white space only.
LEMMA DashEnds ==
  ASSUME IInv, calling, NEW i, Begins(i), line[i] = DASH,
         ~Reference!In(i + 1, Digit), ~Reference!In(i + 1, DashSymbol)
  PROVE  Reference!NextToken = IF Reference!In(i + 1, Space)
                               THEN Reference!Found("SYMBOL", <<DASH>>, i + 1)
                               ELSE Reference!Error(i + 1)
BY NextWord, SameClasses DEF Reference!DashAt

\* A symbol that a character of the line ends, or that the input ends.
LEMMA SymbolEnds ==
  ASSUME IInv, calling, NEW i, Begins(i), NEW n \in i .. Len(line), Symbol(i, n),
         ~Reference!In(n + 1, SymbolChar), n < Len(line)
  PROVE  Reference!NextToken =
           Reference!Found("SYMBOL", Reference!Text(i, n + 1),
                           IF Reference!IsEnd(n + 1) THEN Reference!Through(n + 1) ELSE n)
<1>1. i \in Nat /\ n \in Nat /\ n + 1 - 1 = n /\ n + 1 \in i + 1 .. Len(line) + 1
  BY LineTyped DEF Begins
<1>2. \A k \in 1 .. n : line[k] # NUL
  BY <1>1, LineTyped, LinesAssumption DEF IInv
<1>3. Reference!After(i + 1, Reference!SymbolChar \ {Reference!NUL}) = n + 1
  <2>1. Run(i + 1, n, SymbolChar \ {NUL})
    BY <1>1, <1>2 DEF Symbol, Run, Reference!In
  <2>2. ~Reference!In(n + 1, SymbolChar \ {NUL})
    BY DEF Reference!In
  <2>3. QED
    BY <1>1, <2>1, <2>2, LineTyped, AfterIs, SameClasses
<1>4. Reference!NextToken = Reference!SymbolAt(i)
  BY NextWord, Classes, SameClasses DEF Symbol, Reference!DashAt, Reference!In
<1>5. ~Reference!In(n + 1, {NUL})
  BY Classes DEF Reference!In
<1>6. QED
  BY <1>1, <1>3, <1>4, <1>5, SameClasses DEF Reference!SymbolAt

\* A symbol at the end of the line takes the terminator too.
LEMMA SymbolEndsLine ==
  ASSUME IInv, calling, NEW i, Begins(i), Symbol(i, Len(line))
  PROVE  /\ i < Len(line)
         /\ Reference!NextToken =
              Reference!Found("SYMBOL", Reference!Text(i, Len(line)), Len(line))
<1> DEFINE n == Len(line)
<1>1. i \in Nat /\ n \in Nat /\ i <= n /\ i >= 1
  BY LineTyped DEF Begins
<1>2. line[n] = NUL /\ \A k \in 1 .. n - 1 : line[k] # NUL
  BY <1>1, LineTyped, LinesAssumption DEF IInv
<1>3. line[i] # NUL
  BY Classes DEF Begins
<1>4. i < n
  BY <1>1, <1>2, <1>3
<1>5. Reference!After(i + 1, Reference!SymbolChar \ {Reference!NUL}) = n
  <2>1. Run(i + 1, n - 1, SymbolChar \ {NUL})
    BY <1>1, <1>2 DEF Symbol, Run, Reference!In
  <2>2. ~Reference!In(n, SymbolChar \ {NUL})
    BY <1>2 DEF Reference!In
  <2>3. i + 1 \in Nat /\ n \in i + 1 .. Len(line) + 1
    BY <1>1, <1>4
  <2>4. QED
    BY <2>1, <2>2, <2>3, LineTyped, AfterIs, SameClasses
<1>6. Reference!NextToken = Reference!SymbolAt(i)
  BY NextWord, Classes, SameClasses DEF Symbol, Reference!DashAt, Reference!In
<1>7. Reference!In(n, {NUL})
  BY <1>1, <1>2, <1>4 DEF Symbol, Run, Reference!In
<1>8. Reference!Through(n) = n
  BY <1>1 DEF Reference!Through
<1>9. QED
  BY <1>4, <1>5, <1>6, <1>7, <1>8, SameClasses DEF Reference!SymbolAt

\* What a string contains does not depend on how it is found.
LEMMA ContentIs ==
  ASSUME NEW i \in Nat, NEW n \in Nat, i <= n, NEW t, Made(i, n, t)
  PROVE  Reference!Content(i, n + 1) = t
<1> DEFINE F(f) == [m \in i .. n |-> IF m = i THEN <<>> ELSE f[m - 1] \o Reference!Denotes(i, m)]
           c == CHOOSE f : f = F(f)
<1>1. PICK w : Makes(w, i, n) /\ t = w[n]
  BY DEF Made
<1>2. w = F(w)
  <2>1. w = [m \in i .. n |-> w[m]]
    BY <1>1 DEF Makes
  <2>2. \A m \in i .. n : w[m] = IF m = i THEN <<>> ELSE w[m - 1] \o Reference!Denotes(i, m)
    <3>1. \A m \in i .. n : m # i => m \in i + 1 .. n
      OBVIOUS
    <3>2. QED
      BY <1>1, <3>1, Zenon DEF Makes
  <2>3. QED
    BY <2>1, <2>2
<1>3. c = F(c)
  BY <1>2
<1> HIDE DEF c
<1>4. \A m \in i .. n : c[m] = IF m = i THEN <<>> ELSE c[m - 1] \o Reference!Denotes(i, m)
  BY <1>3
<1>5. \A m \in i .. n : w[m] = IF m = i THEN <<>> ELSE w[m - 1] \o Reference!Denotes(i, m)
  BY <1>2
<1> DEFINE T == {d \in Nat : i + d <= n => c[i + d] = w[i + d]}
<1>6. 0 \in T
  <2>1. i + 0 = i /\ i \in i .. n
    OBVIOUS
  <2>2. c[i] = w[i]
    BY <2>1, <1>4, <1>5
  <2>3. QED
    BY <2>1, <2>2
<1>7. ASSUME NEW d \in Nat, d \in T PROVE d + 1 \in T
  <2> SUFFICES ASSUME i + (d + 1) <= n PROVE c[i + (d + 1)] = w[i + (d + 1)]
    OBVIOUS
  <2> DEFINE k == i + (d + 1)
  <2>1. i + d <= n /\ c[i + d] = w[i + d]
    BY <1>7
  <2>2. k \in i .. n /\ k # i /\ k - 1 = i + d
    OBVIOUS
  <2> HIDE DEF k
  <2>3. c[k] = c[k - 1] \o Reference!Denotes(i, k)
    BY <1>4, <2>2
  <2>4. w[k] = w[k - 1] \o Reference!Denotes(i, k)
    BY <1>5, <2>2
  <2>6. c[k] = w[k]
    BY <2>1, <2>2, <2>3, <2>4
  <2>5. QED
    BY <2>6 DEF k
<1>8. n - i \in T
  <2>1. Nat \subseteq T
    BY <1>6, <1>7, NatIsAll
  <2>2. n - i \in Nat
    OBVIOUS
  <2>3. QED
    BY <2>1, <2>2
<1>9. c[n] = t
  BY <1>1, <1>8
<1>10. n + 1 - 1 = n
  OBVIOUS
<1>11. QED
  BY <1>9, <1>10 DEF c, Reference!Content

\* A quote that is not escaped closes the string.
LEMMA StringEnds ==
  ASSUME IInv, calling, NEW i, Begins(i), NEW n \in i .. Len(line), Open(i, n),
         ~Reference!IsEnd(n + 1), line[n + 1] = QUOTE, ~Reference!Escaped(i, n + 1),
         n < Len(line), NEW t, Made(i, n, t)
  PROVE  Reference!NextToken = Reference!Found("STRING", t, n + 1)
<1> DEFINE closing == {k \in i + 1 .. Len(line) : line[k] = QUOTE /\ ~Reference!Escaped(i, k)}
           ending  == {k \in i + 1 .. Len(line) + 1 : Reference!IsEnd(k)}
<1>1. i \in Nat /\ n \in Nat /\ Len(line) \in Nat
  BY LineTyped DEF Begins
<1>2. n + 1 \in closing
  BY <1>1
<1>3. \A k \in closing : n + 1 <= k
  BY <1>1 DEF Open
<1>4. \A e \in ending : n + 1 < e
  BY <1>1 DEF Open
<1>5. \E k \in closing : \A e \in ending : k < e
  BY <1>2, <1>4
<1>6. (CHOOSE m \in closing : \A k \in closing : m <= k) = n + 1
  <2>1. \A k \in closing : k \in Int
    BY <1>1
  <2> HIDE DEF closing
  <2>2. \A m \in closing : (\A k \in closing : m <= k) => m = n + 1
    BY <1>1, <1>2, <1>3, <2>1
  <2>3. QED
    BY <1>2, <1>3, <2>2
<1>7. Reference!Content(i, n + 1) = t
  BY <1>1, ContentIs
<1>8. Reference!StringAt(i) = Reference!Found("STRING", t, n + 1)
  BY <1>5, <1>6, <1>7, SameClasses DEF Reference!StringAt
<1>9. QED
  BY <1>8, NextWord DEF Open

\* A string that the input ends is an error.
LEMMA StringStaysOpen ==
  ASSUME IInv, calling, NEW i, Begins(i), NEW n \in i .. Len(line), Open(i, n),
         Reference!IsEnd(n + 1)
  PROVE  Reference!NextToken = Reference!Error(Len(line))
<1> DEFINE closing == {k \in i + 1 .. Len(line) : line[k] = QUOTE /\ ~Reference!Escaped(i, k)}
           ending  == {k \in i + 1 .. Len(line) + 1 : Reference!IsEnd(k)}
<1>1. i \in Nat /\ n \in Nat /\ Len(line) \in Nat
  BY LineTyped DEF Begins
<1>2. n + 1 \in ending
  BY <1>1
<1>3. \A k \in closing : ~(k < n + 1)
  BY <1>1 DEF Open
<1>4. ~\E k \in closing : \A e \in ending : k < e
  BY <1>2, <1>3
<1>5. Reference!StringAt(i) = Reference!Error(Len(line))
  BY <1>4, SameClasses DEF Reference!StringAt
<1>6. QED
  BY <1>5, NextWord DEF Open

----------------------------------------------------------------------------
(* What the buffer holds.                                                  *)

\* The text of a single character, and that of a word with one more.
LEMMA TextOne ==
  ASSUME IInv, NEW i \in 1 .. Len(line)
  PROVE  Reference!Text(i, i + 1) = <<line[i]>>
<1>1. i + 1 - 1 = i
  BY LineTyped
<1>2. /\ SubSeq(line, i, i) \in Seq(Chars) /\ Len(SubSeq(line, i, i)) = 1
      /\ SubSeq(line, i, i)[1] = line[i]
  BY LineTyped
<1>3. \A s \in Seq(Chars) : Len(s) = 1 => s = <<s[1]>>
  OBVIOUS
<1>4. SubSeq(line, i, i) = <<line[i]>>
  BY <1>2, <1>3, Zenon
<1>5. Reference!Text(i, i + 1) = SubSeq(line, i, i)
  BY <1>1 DEF Reference!Text
<1>6. QED
  BY <1>4, <1>5

LEMMA TextMore ==
  ASSUME IInv, NEW i \in 1 .. Len(line), NEW n \in i .. Len(line), n < Len(line)
  PROVE  Reference!Text(i, n + 1) \o <<line[n + 1]>> = Reference!Text(i, n + 1 + 1)
<1>1. /\ n + 1 - 1 = n /\ n + 1 + 1 - 1 = n + 1 /\ i \in Nat /\ n \in Nat
      /\ line \in Seq(Chars) /\ Len(line) \in Nat
  BY LineTyped
<1>2. SubSeq(line, i, n) \o <<line[n + 1]>> = SubSeq(line, i, n + 1)
  BY <1>1
<1>3. QED
  BY <1>1, <1>2 DEF Reference!Text

\* strdup returns all of the text, but for the terminator of the line.
LEMMA TextIsString ==
  ASSUME IInv, NEW i \in 1 .. Len(line), NEW n \in i .. Len(line)
  PROVE  CString(Reference!Text(i, n + 1)) =
           IF n = Len(line) THEN Reference!Text(i, n) ELSE Reference!Text(i, n + 1)
<1> DEFINE t == SubSeq(line, i, n)
<1>1. /\ line \in Seq(Chars) /\ Len(line) \in Nat /\ i \in Nat /\ n \in Nat
      /\ n + 1 - 1 = n
  BY LineTyped
<1>2. \A k \in 1 .. Len(line) : line[k] = NUL <=> k = Len(line)
  BY <1>1, LinesAssumption DEF IInv
<1>3. t \in Seq(Chars) /\ Len(t) = n - i + 1 /\ t # <<>> /\ t[Len(t)] = line[n]
  BY <1>1
<1>4. SubSeq(t, 1, Len(t) - 1) = SubSeq(line, i, n - 1)
  BY <1>1, <1>3
<1>5. Reference!Text(i, n + 1) = t /\ Reference!Text(i, n) = SubSeq(line, i, n - 1)
  BY <1>1 DEF Reference!Text
<1>6. line[n] = NUL <=> n = Len(line)
  BY <1>1, <1>2
<1>7. QED
  BY <1>3, <1>4, <1>5, <1>6 DEF CString

----------------------------------------------------------------------------
(* The word invariant from one step to the next.                           *)

\* A run with one more character, and the run of none.
LEMMA RunMore ==
  ASSUME NEW a \in Int, NEW n \in Int, NEW S, Run(a, n, S), Reference!In(n + 1, S)
  PROVE  Run(a, n + 1, S)
BY DEF Run

LEMMA RunNone == ASSUME NEW n \in Int, NEW S PROVE Run(n + 1, n, S)
BY DEF Run

\* What taking a character says of the place behind the word.
LEMMA Taking ==
  ASSUME IInv, NEW s, Scan(s)
  PROVE  /\ calling /\ state = s
         /\ char_no \in 0 .. Len(line) - 1 /\ char_no + 1 \in 1 .. Len(line)
         /\ ~AtEnd /\ Char \in Chars /\ Char = line[char_no + 1]
         /\ ~Reference!IsEnd(char_no + 1)
         /\ \A S : Reference!In(char_no + 1, S) <=> Char \in S
         /\ Reference!Through(char_no + 1) = char_no + 1
<1>1. ~AtEnd /\ ~(CharIsSigned /\ Char = XFF) /\ calling /\ state = s
  BY DEF Scan, GetcIsEOF
<1>2. char_no < Len(line) /\ char_no \in Nat /\ Len(line) \in Nat
  BY <1>1, LineTyped DEF AtEnd
<1>3. Char \in Chars
  BY <1>1, CharOfLine
<1>4. QED
  BY <1>1, <1>2, <1>3, Here DEF Char

\* Outside LEXER_STATE_ZERO the automaton is in a word.
LEMMA InWord ==
  ASSUME WordInv, calling, state # "ZERO"
  PROVE  \E i \in start + 1 .. char_no : Begins(i) /\ Word(state, i, char_no, buffer)
BY DEF WordInv, SoFar

\* Nothing that is said of the words changes while the line stays.
LEMMA SameLine ==
  ASSUME line' = line, start' = start, NEW s, NEW n, NEW buf
  PROVE  SoFar(s, n, buf)' <=> SoFar(s, n, buf)
<1>1. \A k : Reference!IsEnd(k)' <=> Reference!IsEnd(k)
  BY DEF Reference!IsEnd
<1>2. \A k, S : Reference!In(k, S)' <=> Reference!In(k, S)
  BY <1>1 DEF Reference!In
<1>3. \A a, b, S : Run(a, b, S)' <=> Run(a, b, S)
  BY <1>2 DEF Run
<1>4. \A i, k : Reference!Escaped(i, k)' <=> Reference!Escaped(i, k)
  BY DEF Reference!Escaped
<1>5. \A i, k : Reference!Denotes(i, k)' = Reference!Denotes(i, k)
  BY <1>4 DEF Reference!Denotes
<1>6. \A i, j : Reference!Text(i, j)' = Reference!Text(i, j)
  BY DEF Reference!Text
<1>7. \A i : Begins(i)' <=> Begins(i)
  BY <1>1, <1>3 DEF Begins
<1>8. \A i : /\ Dash(i, n)' <=> Dash(i, n)
             /\ Decimal(i, n)' <=> Decimal(i, n)
             /\ \A c : Marked(i, n, c)' <=> Marked(i, n, c)
             /\ Hex(i, n)' <=> Hex(i, n)
             /\ Symbol(i, n)' <=> Symbol(i, n)
             /\ Open(i, n)' <=> Open(i, n)
  BY <1>1, <1>2, <1>3, <1>4 DEF Dash, Decimal, Marked, Hex, Symbol, Open
<1>9. \A i, t : Made(i, n, t)' <=> Made(i, n, t)
  BY <1>5 DEF Made, Makes
<1>10. \A i : Untranslated(i, n, buf)' <=> Untranslated(i, n, buf)
  BY <1>4, <1>9 DEF Untranslated
<1>11. \A i : Word(s, i, n, buf)' <=> Word(s, i, n, buf)
  BY <1>4, <1>6, <1>8, <1>9, <1>10 DEF Word
<1>12. QED
  BY <1>3, <1>7, <1>11 DEF SoFar

\* The loop goes on: nothing has happened to the reader of tokens.
LEMMA GoOn ==
  ASSUME WordInv, calling, NEW s, Goto(s), SoFar(s, char_no', buffer')
  PROVE  WordInv' /\ UNCHANGED Reference!vars
<1>1. /\ line' = line /\ start' = start /\ calling' = calling /\ tok' = tok
      /\ lineCount' = lineCount /\ state' = s
  BY DEF Goto
<1>2. SoFar(s, char_no, buffer)' <=> SoFar(s, char_no', buffer')
  BY <1>1, SameLine
<1>3. QED
  BY <1>1, <1>2 DEF WordInv, Reference!vars

\* The call returns: the reader has got the next token.
LEMMA Returns ==
  ASSUME IInv, WordInv, calling, NEW t \in TokenTypes, NEW s, Return(t, s),
         NEW x, NEW l, Reference!NextToken = Reference!Found(t, x, l),
         IF t = "ERROR" THEN x = <<>> /\ char_no' \in start .. Len(line)
                        ELSE x = Token(t, buffer', char_no').text /\ l = char_no'
  PROVE  WordInv' /\ Reference!Get
<1>1. /\ line' = line /\ calling' = FALSE /\ lineCount' = lineCount
      /\ tok' = Token(t, buffer', char_no')
  BY DEF Return
<1>2. tok'.type = t
  BY <1>1 DEF Token
<1>3. /\ Reference!NextToken.type = t /\ Reference!NextToken.text = x
      /\ Reference!NextToken.last = l
  BY DEF Reference!Found
<1>4. tok.type \notin {"EOF", "ERROR"} /\ lineCount > 0
  BY DEF WordInv
<1>5. WordInv'
  BY <1>1 DEF WordInv
<1>6. (IF tok'.type = "ERROR" THEN <<>> ELSE tok'.text) = x
  BY <1>1, <1>2
<1>7. QED
  BY <1>1, <1>2, <1>3, <1>4, <1>5, <1>6 DEF Reference!Get

\* What a step of the loop is to TokenStream: the answer to a request, or
\* nothing.
Tracks == WordInv' /\ (Reference!Get \/ UNCHANGED Reference!vars)

\* The buffer holds characters.
LEMMA BufferTyped == IInv => buffer \in Seq(Chars) /\ buffer \o <<>> = buffer
BY KeepNone DEF IInv, TypeOK

\* The string so far, with one character more.
LEMMA MadeMore ==
  ASSUME NEW i \in Nat, NEW n \in Nat, i <= n, NEW t, Made(i, n, t),
         NEW d \in Seq(Chars), Reference!Denotes(i, n + 1) = d
  PROVE  Made(i, n + 1, t \o d)
<1>1. PICK w : Makes(w, i, n) /\ t = w[n]
  BY DEF Made
<1> DEFINE v == [m \in i .. n + 1 |-> IF m = n + 1 THEN t \o d ELSE w[m]]
<1>2. w \in [i .. n -> Seq(Chars)] /\ w[i] = <<>> /\ t \in Seq(Chars) /\ n \in i .. n
  BY <1>1 DEF Makes
<1>3. t \o d \in Seq(Chars)
  BY <1>2
<1>4. \A m \in i .. n + 1 : m # n + 1 => m \in i .. n
  OBVIOUS
<1>5. v \in [i .. n + 1 -> Seq(Chars)]
  BY <1>2, <1>3, <1>4
<1>6. v[i] = <<>> /\ v[n] = t /\ v[n + 1] = t \o d
  BY <1>1, <1>2
<1>7. ASSUME NEW m \in i + 1 .. n + 1 PROVE v[m] = v[m - 1] \o Reference!Denotes(i, m)
  <2>1. CASE m = n + 1
    <3>1. m - 1 = n
      BY <2>1
    <3>2. QED
      BY <1>6, <2>1, <3>1
  <2>2. CASE m # n + 1
    <3>1. /\ m \in i + 1 .. n /\ m \in i .. n + 1 /\ m - 1 \in i .. n + 1
          /\ m - 1 # n + 1
      BY <2>2
    <3>2. w[m] = w[m - 1] \o Reference!Denotes(i, m)
      BY <1>1, <3>1 DEF Makes
    <3>3. v[m] = w[m] /\ v[m - 1] = w[m - 1]
      BY <2>2, <3>1
    <3>4. QED
      BY <3>2, <3>3
  <2>3. QED
    BY <2>1, <2>2
<1> HIDE DEF v
<1>8. QED
  BY <1>5, <1>6, <1>7 DEF Made, Makes

\* An open quote makes nothing yet.
LEMMA MadeNone == ASSUME NEW i \in Nat PROVE Made(i, i, <<>>)
<1> DEFINE w == [m \in i .. i |-> <<>>]
<1>1. <<>> \in Seq(Chars)
  OBVIOUS
<1>2. w \in [i .. i -> Seq(Chars)] /\ w[i] = <<>>
  BY <1>1
<1>3. i + 1 .. i = {}
  OBVIOUS
<1> HIDE DEF w
<1>4. QED
  BY <1>2, <1>3 DEF Made, Makes

\* A string stays open behind a character that is not its closing quote.
LEMMA OpenMore ==
  ASSUME NEW i \in Nat, NEW n \in Nat, i <= n, Open(i, n), ~Reference!IsEnd(n + 1),
         line[n + 1] = QUOTE => Reference!Escaped(i, n + 1)
  PROVE  Open(i, n + 1)
<1>1. \A k \in i + 1 .. n + 1 : k = n + 1 \/ k \in i + 1 .. n
  OBVIOUS
<1>2. QED
  BY <1>1 DEF Open

\* What is not a word in either is an error in both.
LEMMA Fails ==
  ASSUME IInv, WordInv, calling, Fail, char_no < Len(line),
         NEW l, Reference!NextToken = Reference!Error(l)
  PROVE  Tracks
<1>1. Return("ERROR", state) /\ char_no' = char_no + 1
  BY DEF Fail, Take
<1>2. char_no' \in start .. Len(line)
  BY <1>1, LineTyped
<1>3. Reference!NextToken = Reference!Found("ERROR", <<>>, Reference!Through(l))
  BY DEF Reference!Error
<1>4. "ERROR" \in TokenTypes
  BY DEF TokenTypes
<1>5. QED
  BY <1>1, <1>2, <1>3, <1>4, Returns DEF Tracks

\* Blanks lead to the word, and its first character to the state that reads
\* the words of its kind.
LEMMA ZeroTracks == ASSUME IInv, WordInv, ScanZero PROVE Tracks
<1> DEFINE i == char_no + 1
<1>1. /\ calling /\ state = "ZERO" /\ char_no \in 0 .. Len(line) - 1 /\ i \in 1 .. Len(line)
      /\ Char = line[i] /\ ~Reference!IsEnd(i)
      /\ \A S : Reference!In(i, S) <=> Char \in S
      /\ start \in 0 .. char_no /\ Len(line) \in Nat /\ Char \in Chars
  BY Taking, LineTyped DEF ScanZero
<1>2. buffer = <<>> /\ Run(start + 1, char_no, Blank)
  BY <1>1 DEF WordInv, SoFar, Word
<1>3. buffer \o <<>> = <<>> /\ buffer \o <<Char>> = <<Char>>
  BY <1>1, <1>2
<1>4. i = char_no + 1 /\ i - 1 = char_no /\ i \in Nat /\ start + 1 \in Int
  BY <1>1
<1> HIDE DEF i
<1>5. Char \notin Blank => Begins(i)
  BY <1>1, <1>2, <1>4 DEF Begins
<1>6. Reference!Text(i, i + 1) = <<Char>>
  BY <1>1, TextOne
<1>7. \A S : Run(i + 1, i, S)
  BY <1>4, RunNone
<1>8. ASSUME NEW s, NEW b, char_no' = i, buffer' = b, Goto(s), Char \notin Blank, Word(s, i, i, b)
      PROVE  Tracks
  <2>1. SoFar(s, char_no', buffer')
    BY <1>1, <1>4, <1>5, <1>8 DEF SoFar
  <2>2. QED
    BY <1>1, <1>8, <2>1, GoOn DEF Tracks
<1>9. CASE Char = QUOTE /\ Take(<<>>) /\ Goto("STRING")
  <2>1. ~Reference!Escaped(i, i + 1)
    <3>1. line[i] # BSLASH /\ i <= i
      BY <1>1, <1>4, <1>9, Classes
    <3>2. QED
      BY <1>4, <3>1, NotEscaped
  <2>2. Open(i, i) /\ Made(i, i, <<>>)
    <3>1. i + 1 .. i = {}
      BY <1>4
    <3>2. QED
      BY <1>1, <1>4, <1>9, <3>1, MadeNone DEF Open
  <2>3. Word("STRING", i, i, <<>>)
    BY <2>1, <2>2 DEF Word
  <2>4. QED
    BY <1>3, <1>4, <1>8, <1>9, <2>3, Classes DEF Take
<1>10. CASE Char = "0" /\ Take(<<Char>>) /\ Goto("NUMBER_PREFIX")
  <2>1. Word("NUMBER_PREFIX", i, i, <<Char>>)
    BY <1>1, <1>6, <1>7, <1>10 DEF Word, Marked
  <2>2. QED
    BY <1>3, <1>4, <1>8, <1>10, <2>1, Classes DEF Take
<1>11. CASE Char \in Digit \ {"0"} /\ Take(<<Char>>) /\ Goto("NUMBER")
  <2>1. Word("NUMBER", i, i, <<Char>>)
    BY <1>1, <1>6, <1>7, <1>11 DEF Word, Decimal
  <2>2. QED
    BY <1>3, <1>4, <1>8, <1>11, <2>1, Classes DEF Take
<1>12. CASE Char \in SymbolStart /\ Take(<<Char>>) /\ Goto("SYMBOL")
  <2>1. Word("SYMBOL", i, i, <<Char>>)
    BY <1>1, <1>6, <1>7, <1>12 DEF Word, Symbol
  <2>2. QED
    BY <1>3, <1>4, <1>8, <1>12, <2>1, Classes DEF Take
<1>13. CASE Char = DASH /\ Take(<<Char>>) /\ Goto("MINUS")
  <2>1. Word("MINUS", i, i, <<Char>>)
    BY <1>1, <1>6, <1>7, <1>13 DEF Word, Dash
  <2>2. QED
    BY <1>3, <1>4, <1>8, <1>13, <2>1, Classes DEF Take
<1>14. CASE Char = HASH /\ Take(<<Char>>) /\ Goto("INTEGER_BASE16")
  <2>1. Word("INTEGER_BASE16", i, i, <<Char>>)
    BY <1>1, <1>6, <1>7, <1>14 DEF Word, Marked
  <2>2. QED
    BY <1>3, <1>4, <1>8, <1>14, <2>1, Classes DEF Take
<1>15. CASE Char \in Blank /\ Take(<<>>) /\ Goto("ZERO")
  <2>1. Run(start + 1, i, Blank)
    BY <1>1, <1>2, <1>4, <1>15, RunMore
  <2>2. SoFar("ZERO", char_no', buffer')
    BY <1>3, <1>4, <1>15, <2>1 DEF Take, SoFar
  <2>3. QED
    BY <1>1, <1>15, <2>2, GoOn DEF Tracks
<1>16. CASE /\ Char \notin {QUOTE, DASH, HASH} \cup Digit \cup SymbolStart \cup Blank
            /\ Fail
  <2>1. Reference!NextToken = Reference!Error(i)
    BY <1>1, <1>5, <1>16, NextWord
  <2>2. QED
    BY <1>1, <1>16, <2>1, Fails
<1>17. QED
  BY <1>9, <1>10, <1>11, <1>12, <1>13, <1>14, <1>15, <1>16 DEF ScanZero

\* Inside a word: the word so far, and the character that is taken next.
LEMMA Inside ==
  ASSUME IInv, WordInv, NEW s, s # "ZERO", Scan(s)
  PROVE  \E i : /\ i \in 1 .. Len(line) /\ i \in start + 1 .. char_no
                /\ char_no \in i .. Len(line)
                /\ Begins(i) /\ Word(s, i, char_no, buffer)
<1>1. PICK i \in start + 1 .. char_no : Begins(i) /\ Word(state, i, char_no, buffer)
  BY InWord, Taking
<1>2. state = s
  BY Taking
<1>3. QED
  BY <1>1, <1>2, LineTyped

\* The word goes on behind one more character, or one that is put back.
LEMMA WordGoesOn ==
  ASSUME IInv, WordInv, calling, NEW i \in start + 1 .. char_no, Begins(i),
         char_no' \in {char_no, char_no + 1}, NEW s, Goto(s), Word(s, i, char_no', buffer')
  PROVE  Tracks
<1>1. i \in start + 1 .. char_no'
  BY LineTyped
<1>2. SoFar(s, char_no', buffer')
  BY <1>1 DEF SoFar
<1>3. QED
  BY <1>2, GoOn DEF Tracks

\* The text of a word when one more character is kept.
LEMMA TextKept ==
  ASSUME IInv, NEW i \in 1 .. Len(line), char_no \in i .. Len(line), char_no < Len(line),
         buffer = Reference!Text(i, char_no + 1), Take(<<line[char_no + 1]>>)
  PROVE  buffer' = Reference!Text(i, char_no' + 1)
BY TextMore DEF Take

\* A token with the text of a word that ends before the terminator.
LEMMA TextGiven ==
  ASSUME IInv, NEW i \in 1 .. Len(line), char_no \in i .. Len(line), char_no < Len(line),
         NEW t \in TokenTypes \ {"EOF"}, NEW m
  PROVE  Token(t, Reference!Text(i, char_no + 1), m).text = Reference!Text(i, char_no + 1)
BY TextIsString, LineTyped DEF Token

\* A dash becomes a number, a symbol, or the symbol - itself; the character
\* that makes it a symbol is put back and read again in LEXER_STATE_SYMBOL.
LEMMA MinusTracks == ASSUME IInv, WordInv, ScanMinus PROVE Tracks
<1> DEFINE n == char_no
<1>1. /\ calling /\ state = "MINUS" /\ n \in 0 .. Len(line) - 1
      /\ Char = line[n + 1] /\ ~Reference!IsEnd(n + 1)
      /\ \A S : Reference!In(n + 1, S) <=> Char \in S
      /\ Len(line) \in Nat
  BY Taking, LineTyped DEF ScanMinus
<1>2. PICK i : /\ i \in 1 .. Len(line) /\ i \in start + 1 .. n /\ n \in i .. Len(line)
               /\ Begins(i) /\ Word("MINUS", i, n, buffer)
  BY Inside DEF ScanMinus
<1>3. line[i] = DASH /\ n = i /\ buffer = Reference!Text(i, n + 1)
  BY <1>2 DEF Word, Dash
<1>4. buffer = <<DASH>> /\ buffer \o <<>> = buffer
  BY <1>2, <1>3, TextOne, BufferTyped
<1>5. CASE Char \in Digit /\ Take(<<Char>>) /\ Goto("NUMBER")
  <2>1. char_no' = n + 1 /\ buffer' = Reference!Text(i, char_no' + 1)
    BY <1>1, <1>2, <1>3, <1>5, TextKept DEF Take
  <2>2. Decimal(i, n + 1)
    <3>1. Run(i + 1, n + 1, Digit)
      BY <1>1, <1>2, <1>3, <1>5 DEF Run
    <3>2. n + 1 > i
      BY <1>1, <1>3
    <3>3. QED
      BY <1>3, <3>1, <3>2 DEF Decimal
  <2>3. Word("NUMBER", i, char_no', buffer')
    BY <2>1, <2>2 DEF Word
  <2>4. QED
    BY <1>1, <1>2, <1>5, <2>1, <2>3, WordGoesOn
<1>6. CASE Char \in DashSymbol /\ Untake(<<>>) /\ Goto("SYMBOL")
  <2>1. char_no' = n /\ buffer' = buffer
    BY <1>4, <1>6 DEF Untake
  <2>2. Symbol(i, n)
    <3>1. Run(i + 1, n, SymbolChar)
      BY <1>2, <1>3 DEF Run
    <3>2. Reference!In(i + 1, DashSymbol)
      BY <1>1, <1>3, <1>6
    <3>3. QED
      BY <1>3, <3>1, <3>2 DEF Symbol
  <2>3. Word("SYMBOL", i, char_no', buffer')
    BY <1>3, <2>1, <2>2 DEF Word
  <2>4. QED
    BY <1>1, <1>2, <1>6, <2>1, <2>3, WordGoesOn
<1>7. CASE Char \in Space /\ Take(<<>>) /\ Accept("SYMBOL")
  <2>1. Reference!NextToken = Reference!Found("SYMBOL", <<DASH>>, n + 1)
    BY <1>1, <1>2, <1>3, <1>7, DashEnds, Classes
  <2>2. char_no' = n + 1 /\ buffer' = <<DASH>> /\ Return("SYMBOL", "ZERO")
    BY <1>4, <1>7 DEF Take, Accept
  <2>3. Token("SYMBOL", <<DASH>>, char_no').text = <<DASH>>
    BY DEF Token, CString, DASH, NUL
  <2>4. QED
    BY <1>1, <2>1, <2>2, <2>3, Returns DEF Tracks, TokenTypes
<1>8. CASE Char \notin Digit \cup DashSymbol \cup Space /\ Fail
  <2>1. Reference!NextToken = Reference!Error(n + 1)
    BY <1>1, <1>2, <1>3, <1>8, DashEnds
  <2>2. QED
    BY <1>1, <1>8, <2>1, Fails
<1>9. QED
  BY <1>5, <1>6, <1>7, <1>8 DEF ScanMinus

\* Behind a 0 or a #, with marks only.
LEMMA MarkedTracks ==
  ASSUME IInv, WordInv, NEW c \in {"0", HASH}, NEW s \in {"NUMBER_PREFIX", "INTEGER_BASE16"},
         s = IF c = "0" THEN "NUMBER_PREFIX" ELSE "INTEGER_BASE16",
         Scan(s),
         \/ Char \in BaseMark /\ Take(<<Char>>) /\ Goto(s)
         \/ Char \in HexDigit /\ Take(<<Char>>) /\ Goto("NUMBER_BASE16")
         \/ Char \notin BaseMark \cup HexDigit /\ Fail
  PROVE  Tracks
<1> DEFINE n == char_no
<1>1. /\ calling /\ n \in 0 .. Len(line) - 1
      /\ Char = line[n + 1] /\ ~Reference!IsEnd(n + 1)
      /\ \A S : Reference!In(n + 1, S) <=> Char \in S
      /\ Len(line) \in Nat
  BY Taking, LineTyped
<1>2. PICK i : /\ i \in 1 .. Len(line) /\ i \in start + 1 .. n /\ n \in i .. Len(line)
               /\ Begins(i) /\ Word(s, i, n, buffer)
  BY Inside
<1>3. Marked(i, n, c) /\ buffer = Reference!Text(i, n + 1)
  BY <1>2, Classes DEF Word
<1>4. line[i] \in {"0", HASH} /\ Run(i + 1, n, BaseMark)
  BY <1>3 DEF Marked
<1>5. Take(<<Char>>) => char_no' = n + 1 /\ buffer' = Reference!Text(i, char_no' + 1)
  BY <1>1, <1>2, <1>3, TextKept DEF Take
<1>6. CASE Char \in BaseMark /\ Take(<<Char>>) /\ Goto(s)
  <2>1. Marked(i, n + 1, c)
    BY <1>1, <1>2, <1>3, <1>6, RunMore DEF Marked
  <2>2. Word(s, i, char_no', buffer')
    BY <1>5, <1>6, <2>1, Classes DEF Word
  <2>3. QED
    BY <1>1, <1>2, <1>5, <1>6, <2>2, WordGoesOn
<1>7. CASE Char \in HexDigit /\ Take(<<Char>>) /\ Goto("NUMBER_BASE16")
  <2>1. Hex(i, n + 1)
    <3>1. n + 1 \in i + 1 .. n + 1 /\ n + 1 - 1 = n
      BY <1>1, <1>2
    <3>2. Run(n + 1, n + 1, HexDigit)
      BY <1>1, <1>7 DEF Run
    <3>3. Run(i + 1, (n + 1) - 1, BaseMark)
      BY <1>1, <1>4, <3>1
    <3>4. QED
      BY <1>4, <3>1, <3>2, <3>3 DEF Hex
  <2>2. Word("NUMBER_BASE16", i, char_no', buffer')
    BY <1>5, <1>7, <2>1 DEF Word
  <2>3. QED
    BY <1>1, <1>2, <1>5, <1>7, <2>2, WordGoesOn
<1>8. CASE Char \notin BaseMark \cup HexDigit /\ Fail
  <2>1. Reference!NextToken = Reference!Error(n + 1)
    BY <1>1, <1>2, <1>3, <1>8, MarkedEnds
  <2>2. QED
    BY <1>1, <1>8, <2>1, Fails
<1>9. QED
  BY <1>6, <1>7, <1>8

\* The two states that read marks.
LEMMA IntegerBase16Tracks == ASSUME IInv, WordInv, ScanIntegerBase16 PROVE Tracks
BY MarkedTracks, Classes DEF ScanIntegerBase16

LEMMA NumberPrefixTracks == ASSUME IInv, WordInv, ScanNumberPrefix PROVE Tracks
BY MarkedTracks, Classes DEF ScanNumberPrefix

\* A decimal number goes on or is complete.
LEMMA NumberTracks == ASSUME IInv, WordInv, ScanNumber PROVE Tracks
<1> DEFINE n == char_no
<1>1. /\ calling /\ n \in 0 .. Len(line) - 1
      /\ Char = line[n + 1] /\ ~Reference!IsEnd(n + 1)
      /\ \A S : Reference!In(n + 1, S) <=> Char \in S
      /\ Len(line) \in Nat /\ Reference!Through(n + 1) = n + 1
  BY Taking, LineTyped DEF ScanNumber
<1>2. PICK i : /\ i \in 1 .. Len(line) /\ i \in start + 1 .. n /\ n \in i .. Len(line)
               /\ Begins(i) /\ Word("NUMBER", i, n, buffer)
  BY Inside DEF ScanNumber
<1>3. Decimal(i, n) /\ buffer = Reference!Text(i, n + 1)
  BY <1>2 DEF Word
<1>4. CASE Char \in Blank /\ Take(<<>>) /\ Accept("INTEGER")
  <2>1. Reference!NextToken = Reference!Found("INTEGER", buffer, n + 1)
    <3>1. ~Reference!In(n + 1, Digit) /\ Reference!In(n + 1, Blank)
      BY <1>1, <1>4, Classes
    <3>2. QED
      BY <1>1, <1>2, <1>3, <3>1, DecimalEnds
  <2>2. char_no' = n + 1 /\ buffer' = buffer /\ Return("INTEGER", "ZERO")
    BY <1>4, BufferTyped DEF Take, Accept
  <2>3. Token("INTEGER", buffer, char_no').text = buffer
    BY <1>1, <1>2, <1>3, TextGiven DEF TokenTypes
  <2>4. QED
    BY <1>1, <2>1, <2>2, <2>3, Returns DEF Tracks, TokenTypes
<1>5. CASE Char \in Digit /\ Take(<<Char>>) /\ Goto("NUMBER")
  <2>1. char_no' = n + 1 /\ buffer' = Reference!Text(i, char_no' + 1)
    BY <1>1, <1>2, <1>3, <1>5, TextKept DEF Take
  <2>2. Decimal(i, n + 1)
    <3>1. Run(i + 1, n + 1, Digit)
      BY <1>1, <1>2, <1>3, <1>5, RunMore DEF Decimal
    <3>2. n > i => n + 1 > i
      BY <1>1, <1>2
    <3>3. QED
      BY <1>3, <3>1, <3>2 DEF Decimal
  <2>3. Word("NUMBER", i, char_no', buffer')
    BY <2>1, <2>2 DEF Word
  <2>4. QED
    BY <1>1, <1>2, <1>5, <2>1, <2>3, WordGoesOn
<1>6. CASE Char \notin Blank \cup Digit /\ Fail
  <2>1. Reference!NextToken = Reference!Error(n + 1)
    BY <1>1, <1>2, <1>3, <1>6, DecimalEnds
  <2>2. QED
    BY <1>1, <1>6, <2>1, Fails
<1>7. QED
  BY <1>4, <1>5, <1>6 DEF ScanNumber

\* So does a hexadecimal one.
LEMMA NumberBase16Tracks == ASSUME IInv, WordInv, ScanNumberBase16 PROVE Tracks
<1> DEFINE n == char_no
<1>1. /\ calling /\ n \in 0 .. Len(line) - 1
      /\ Char = line[n + 1] /\ ~Reference!IsEnd(n + 1)
      /\ \A S : Reference!In(n + 1, S) <=> Char \in S
      /\ Len(line) \in Nat /\ Reference!Through(n + 1) = n + 1
  BY Taking, LineTyped DEF ScanNumberBase16
<1>2. PICK i : /\ i \in 1 .. Len(line) /\ i \in start + 1 .. n /\ n \in i .. Len(line)
               /\ Begins(i) /\ Word("NUMBER_BASE16", i, n, buffer)
  BY Inside DEF ScanNumberBase16
<1>3. Hex(i, n) /\ buffer = Reference!Text(i, n + 1)
  BY <1>2 DEF Word
<1>4. CASE Char \in Blank /\ Take(<<>>) /\ Accept("INTEGER")
  <2>1. Reference!NextToken = Reference!Found("INTEGER", buffer, n + 1)
    <3>1. ~Reference!In(n + 1, HexDigit) /\ Reference!In(n + 1, Blank)
      BY <1>1, <1>4, Classes
    <3>2. QED
      BY <1>1, <1>2, <1>3, <3>1, HexEnds
  <2>2. char_no' = n + 1 /\ buffer' = buffer /\ Return("INTEGER", "ZERO")
    BY <1>4, BufferTyped DEF Take, Accept
  <2>3. Token("INTEGER", buffer, char_no').text = buffer
    BY <1>1, <1>2, <1>3, TextGiven DEF TokenTypes
  <2>4. QED
    BY <1>1, <2>1, <2>2, <2>3, Returns DEF Tracks, TokenTypes
<1>5. CASE Char \in HexDigit /\ Take(<<Char>>) /\ Goto("NUMBER_BASE16")
  <2>1. char_no' = n + 1 /\ buffer' = Reference!Text(i, char_no' + 1)
    BY <1>1, <1>2, <1>3, <1>5, TextKept DEF Take
  <2>2. Hex(i, n + 1)
    <3>1. PICK f \in i + 1 .. n : Run(i + 1, f - 1, BaseMark) /\ Run(f, n, HexDigit)
      BY <1>3 DEF Hex
    <3>2. Run(f, n + 1, HexDigit) /\ f \in i + 1 .. n + 1
      BY <1>1, <1>2, <1>5, <3>1, RunMore
    <3>3. QED
      BY <1>3, <3>1, <3>2 DEF Hex
  <2>3. Word("NUMBER_BASE16", i, char_no', buffer')
    BY <2>1, <2>2 DEF Word
  <2>4. QED
    BY <1>1, <1>2, <1>5, <2>1, <2>3, WordGoesOn
<1>6. CASE Char \notin Blank \cup HexDigit /\ Fail
  <2>1. Reference!NextToken = Reference!Error(n + 1)
    BY <1>1, <1>2, <1>3, <1>6, HexEnds
  <2>2. QED
    BY <1>1, <1>6, <2>1, Fails
<1>7. QED
  BY <1>4, <1>5, <1>6 DEF ScanNumberBase16

\* A symbol goes on, or the character behind it is put back.
LEMMA SymbolTracks == ASSUME IInv, WordInv, ScanSymbol PROVE Tracks
<1> DEFINE n == char_no
<1>1. /\ calling /\ n \in 0 .. Len(line) - 1
      /\ Char = line[n + 1] /\ ~Reference!IsEnd(n + 1)
      /\ \A S : Reference!In(n + 1, S) <=> Char \in S
      /\ Len(line) \in Nat
  BY Taking, LineTyped DEF ScanSymbol
<1>2. PICK i : /\ i \in 1 .. Len(line) /\ i \in start + 1 .. n /\ n \in i .. Len(line)
               /\ Begins(i) /\ Word("SYMBOL", i, n, buffer)
  BY Inside DEF ScanSymbol
<1>3. Symbol(i, n) /\ buffer = Reference!Text(i, n + 1)
  BY <1>2 DEF Word
<1>4. CASE Char \in SymbolChar /\ Take(<<Char>>) /\ Goto("SYMBOL")
  <2>1. char_no' = n + 1 /\ buffer' = Reference!Text(i, char_no' + 1)
    BY <1>1, <1>2, <1>3, <1>4, TextKept DEF Take
  <2>2. Symbol(i, n + 1)
    BY <1>1, <1>2, <1>3, <1>4, RunMore DEF Symbol
  <2>3. Word("SYMBOL", i, char_no', buffer')
    BY <2>1, <2>2 DEF Word
  <2>4. QED
    BY <1>1, <1>2, <1>4, <2>1, <2>3, WordGoesOn
<1>5. CASE Char \notin SymbolChar /\ Untake(<<>>) /\ Accept("SYMBOL")
  <2>1. Reference!NextToken = Reference!Found("SYMBOL", buffer, n)
    BY <1>1, <1>2, <1>3, <1>5, SymbolEnds
  <2>2. char_no' = n /\ buffer' = buffer /\ Return("SYMBOL", "ZERO")
    BY <1>5, BufferTyped DEF Untake, Accept
  <2>3. Token("SYMBOL", buffer, char_no').text = buffer
    BY <1>1, <1>2, <1>3, TextGiven DEF TokenTypes
  <2>4. QED
    BY <1>1, <2>1, <2>2, <2>3, Returns DEF Tracks, TokenTypes
<1>6. QED
  BY <1>4, <1>5 DEF ScanSymbol

\* A character of a string that is not a backslash.
LEMMA StringTracks == ASSUME IInv, WordInv, ScanString PROVE Tracks
<1> DEFINE n == char_no
<1>1. /\ calling /\ n \in 0 .. Len(line) - 1 /\ Char \in Chars
      /\ Char = line[n + 1] /\ ~Reference!IsEnd(n + 1)
      /\ Len(line) \in Nat
  BY Taking, LineTyped DEF ScanString
<1>2. PICK i : /\ i \in 1 .. Len(line) /\ i \in start + 1 .. n /\ n \in i .. Len(line)
               /\ Begins(i) /\ Word("STRING", i, n, buffer)
  BY Inside DEF ScanString
<1>3. /\ Open(i, n)
      /\ \/ ~Reference!Escaped(i, n + 1) /\ Made(i, n, buffer)
         \/ Untranslated(i, n, buffer)
  BY <1>2 DEF Word
<1>4. /\ i \in Nat /\ n \in Nat /\ i <= n /\ n + 1 \in Nat /\ i < n + 1 /\ i <= n + 1
      /\ n + 1 + 1 = n + 2
  BY <1>1, <1>2
<1>5. buffer \in Seq(Chars) /\ buffer \o <<>> = buffer
  BY BufferTyped
<1>6. line[i] # BSLASH
  BY <1>3, Classes DEF Open
<1>7. Untranslated(i, n, buffer) => Char \notin {LF, QUOTE, BSLASH} \cup DOMAIN EscapeCode
  BY <1>1 DEF Untranslated, SelfEscape
<1>8. CASE Char = QUOTE /\ Take(<<>>) /\ Accept("STRING")
  <2>1. Reference!NextToken = Reference!Found("STRING", buffer, n + 1)
    <3>1. ~Reference!Escaped(i, n + 1) /\ Made(i, n, buffer)
      BY <1>3, <1>7, <1>8
    <3>2. line[n + 1] = QUOTE /\ n < Len(line)
      BY <1>1, <1>8
    <3>3. QED
      BY <1>1, <1>2, <1>3, <3>1, <3>2, StringEnds
  <2>2. char_no' = n + 1 /\ buffer' = buffer /\ Return("STRING", "ZERO")
    BY <1>5, <1>8 DEF Take, Accept
  <2>3. CString(buffer) = buffer
    BY <1>1, <1>5 DEF IInv, CString
  <2>4. Token("STRING", buffer, char_no').text = buffer
    BY <2>3 DEF Token
  <2>5. QED
    BY <1>1, <2>1, <2>2, <2>4, Returns DEF Tracks, TokenTypes
<1>9. CASE Char = BSLASH /\ Take(<<>>) /\ Goto("ESCAPE_STRING")
  <2>1. ~Reference!Escaped(i, n + 1) /\ Made(i, n, buffer)
    BY <1>3, <1>7, <1>9
  <2>2. Reference!Escaped(i, n + 2)
    BY <1>1, <1>4, <1>6, <1>9, <2>1, EscapedFlips
  <2>3. Open(i, n + 1)
    BY <1>1, <1>3, <1>4, <1>9, Classes, OpenMore
  <2>4. Reference!Denotes(i, n + 1) = <<>>
    BY <1>1, <1>9, <2>1, SameClasses DEF Reference!Denotes
  <2>5. Made(i, n + 1, buffer \o <<>>)
    <3>1. <<>> \in Seq(Chars)
      OBVIOUS
    <3>2. QED
      BY <1>4, <2>1, <2>4, <3>1, MadeMore
  <2>6. char_no' = n + 1 /\ buffer' = buffer \o <<>>
    BY <1>9 DEF Take
  <2>7. Word("ESCAPE_STRING", i, char_no', buffer')
    BY <1>4, <2>2, <2>3, <2>5, <2>6 DEF Word
  <2>8. QED
    BY <1>1, <1>2, <1>9, <2>6, <2>7, WordGoesOn
<1>10. CASE Char \notin {QUOTE, BSLASH} /\ Take(<<Char>>) /\ Goto("STRING")
  <2>1. ~Reference!Escaped(i, n + 2)
    BY <1>1, <1>4, <1>10, NotEscaped
  <2>2. Open(i, n + 1)
    BY <1>1, <1>3, <1>4, <1>10, OpenMore
  <2>3. Made(i, n + 1, buffer \o <<Char>>)
    <3>1. CASE ~Reference!Escaped(i, n + 1) /\ Made(i, n, buffer)
      <4>1. Reference!Denotes(i, n + 1) = <<Char>>
        BY <1>1, <1>10, <3>1, SameClasses DEF Reference!Denotes
      <4>2. <<Char>> \in Seq(Chars)
        BY <1>1
      <4>3. QED
        BY <1>4, <3>1, <4>1, <4>2, MadeMore
    <3>2. CASE Untranslated(i, n, buffer)
      <4>1. PICK t \in Seq(Chars) : Made(i, n, t) /\ buffer = t \o <<BSLASH>>
        BY <3>2 DEF Untranslated
      <4>2. Reference!Denotes(i, n + 1) = <<BSLASH, Char>>
        <5>1. Reference!Escaped(i, n + 1) /\ Char \notin {LF} \cup SelfEscape \cup DOMAIN EscapeCode
          BY <1>1, <3>2 DEF Untranslated
        <5>2. QED
          BY <1>1, <5>1, SameClasses DEF Reference!Denotes
      <4>3. <<BSLASH, Char>> \in Seq(Chars)
        BY <1>1, MadeUp
      <4>4. Made(i, n + 1, t \o <<BSLASH, Char>>)
        BY <1>4, <4>1, <4>2, <4>3, MadeMore
      <4>5. t \o <<BSLASH, Char>> = buffer \o <<Char>>
        BY <1>1, <4>1, MadeUp
      <4>6. QED
        BY <4>4, <4>5
    <3>3. QED
      BY <1>3, <3>1, <3>2
  <2>4. char_no' = n + 1 /\ buffer' = buffer \o <<Char>>
    BY <1>10 DEF Take
  <2>5. Word("STRING", i, char_no', buffer')
    BY <1>4, <2>1, <2>2, <2>3, <2>4 DEF Word
  <2>6. QED
    BY <1>1, <1>2, <1>10, <2>4, <2>5, WordGoesOn
<1>11. QED
  BY <1>8, <1>9, <1>10 DEF ScanString

\* The character behind the backslash.
LEMMA EscapeTracks == ASSUME IInv, WordInv, ScanEscape PROVE Tracks
<1> DEFINE n == char_no
<1>1. /\ calling /\ n \in 0 .. Len(line) - 1 /\ Char \in Chars
      /\ Char = line[n + 1] /\ ~Reference!IsEnd(n + 1)
      /\ Len(line) \in Nat
  BY Taking, LineTyped DEF ScanEscape
<1>2. PICK i : /\ i \in 1 .. Len(line) /\ i \in start + 1 .. n /\ n \in i .. Len(line)
               /\ Begins(i) /\ Word("ESCAPE_STRING", i, n, buffer)
  BY Inside DEF ScanEscape
<1>3. Open(i, n) /\ Reference!Escaped(i, n + 1) /\ Made(i, n, buffer)
  BY <1>2 DEF Word
<1>4. /\ i \in Nat /\ n \in Nat /\ i <= n /\ n + 1 \in Nat /\ i < n + 1 /\ i <= n + 1
      /\ n + 1 + 1 = n + 2
  BY <1>1, <1>2
<1>5. Open(i, n + 1)
  BY <1>1, <1>3, <1>4, OpenMore
<1>6. ~Reference!Escaped(i, n + 2)
  <2>1. CASE line[n + 1] = BSLASH
    <3>1. line[i] # BSLASH
      BY <1>3, Classes DEF Open
    <3>2. QED
      BY <1>3, <1>4, <2>1, <3>1, EscapedFlips
  <2>2. CASE line[n + 1] # BSLASH
    BY <1>4, <2>2, NotEscaped
  <2>3. QED
    BY <2>1, <2>2
<1>7. ASSUME NEW d \in Seq(Chars), Reference!Denotes(i, n + 1) = d, Take(d), Goto("STRING")
      PROVE  Tracks
  <2>1. char_no' = n + 1 /\ buffer' = buffer \o d
    BY <1>7 DEF Take
  <2>2. Made(i, n + 1, buffer \o d)
    BY <1>3, <1>4, <1>7, MadeMore
  <2>3. Word("STRING", i, char_no', buffer')
    BY <1>4, <1>5, <1>6, <2>1, <2>2 DEF Word
  <2>4. QED
    BY <1>1, <1>2, <1>7, <2>1, <2>3, WordGoesOn
<1>8. LF \notin SelfEscape /\ ({LF} \cup SelfEscape) \cap DOMAIN EscapeCode = {}
  BY DEF LF, SelfEscape, EscapeCode, BSLASH, QUOTE
<1>9. /\ <<>> \in Seq(Chars) /\ <<Char>> \in Seq(Chars)
      /\ Char \in DOMAIN EscapeCode => <<EscapeCode[Char]>> \in Seq(Chars)
  BY <1>1, MadeUp
<1>10. Reference!Denotes(i, n + 1) =
         IF Char = LF THEN <<>>
         ELSE IF Char \in SelfEscape THEN <<Char>>
         ELSE IF Char \in DOMAIN EscapeCode THEN <<EscapeCode[Char]>>
         ELSE <<BSLASH, Char>>
  BY <1>1, <1>3, SameClasses DEF Reference!Denotes
<1>11. CASE Char = LF /\ Take(<<>>) /\ Goto("STRING")
  BY <1>7, <1>9, <1>10, <1>11
<1>12. CASE Char \in SelfEscape /\ Take(<<Char>>) /\ Goto("STRING")
  BY <1>7, <1>8, <1>9, <1>10, <1>12
<1>13. CASE Char \in DOMAIN EscapeCode /\ Take(<<EscapeCode[Char]>>) /\ Goto("STRING")
  <2>1. Reference!Denotes(i, n + 1) = <<EscapeCode[Char]>>
    BY <1>8, <1>10, <1>13
  <2>2. QED
    BY <1>7, <1>9, <1>13, <2>1
<1>14. CASE /\ Char \notin {LF} \cup SelfEscape \cup DOMAIN EscapeCode
            /\ Untake(<<BSLASH>>) /\ Goto("STRING")
  <2>1. char_no' = n /\ buffer' = buffer \o <<BSLASH>>
    BY <1>14 DEF Untake
  <2>2. Untranslated(i, n, buffer \o <<BSLASH>>)
    <3>1. n < Len(line)
      BY <1>1
    <3>2. QED
      BY <1>1, <1>3, <1>14, <3>1, BufferTyped DEF Untranslated
  <2>3. Word("STRING", i, char_no', buffer')
    BY <1>3, <2>1, <2>2 DEF Word
  <2>4. QED
    BY <1>1, <1>2, <1>14, <2>1, <2>3, WordGoesOn
<1>15. QED
  BY <1>11, <1>12, <1>13, <1>14 DEF ScanEscape

\* The input ends: the word is complete in the acceptance states only.
LEMMA EndTracks == ASSUME IInv, WordInv, ScanEnd PROVE Tracks
<1> DEFINE n == char_no
           last == Reference!Through(n + 1)
<1>1. calling /\ n \in 0 .. Len(line) /\ Len(line) \in Nat /\ start \in 0 .. n
  BY LineTyped DEF ScanEnd
<1>2. Reference!IsEnd(n + 1) /\ \A S : ~Reference!In(n + 1, S)
  <2>1. Reference!IsEnd(n + 1)
    BY <1>1, Here DEF ScanEnd, GetcIsEOF, AtEnd, Char
  <2>2. QED
    BY <1>1, <2>1, Here
<1>3. char_no' = last /\ buffer' = buffer /\ last \in start .. Len(line)
  <2>1. last = IF n = Len(line) THEN n ELSE n + 1
    BY <1>1, Here
  <2>2. QED
    BY <1>1, <2>1 DEF ScanEnd, AtEnd
<1> HIDE DEF last
<1>4. ASSUME state # "ZERO"
      PROVE  \E i : /\ i \in 1 .. Len(line) /\ i \in start + 1 .. n /\ n \in i .. Len(line)
                    /\ Begins(i) /\ Word(state, i, n, buffer)
  BY <1>1, <1>4, InWord
<1>5. CASE state = "ZERO" /\ Accept("EOF")
  <2>1. buffer = <<>> /\ Run(start + 1, n, Blank)
    BY <1>1, <1>5 DEF WordInv, SoFar, Word
  <2>2. Reference!NextToken = Reference!Found("EOF", <<>>, last)
    BY <1>1, <1>2, <2>1, NextEnd DEF last
  <2>3. Token("EOF", buffer', char_no').text = <<>>
    BY DEF Token
  <2>4. QED
    BY <1>1, <1>3, <1>5, <2>2, <2>3, Returns DEF Accept, Tracks, TokenTypes
<1>6. CASE state = "NUMBER" /\ Accept("INTEGER")
  <2>1. PICK i : /\ i \in 1 .. Len(line) /\ n \in i .. Len(line) /\ Begins(i)
                 /\ Word("NUMBER", i, n, buffer)
    BY <1>4, <1>6
  <2>2. Decimal(i, n) /\ buffer = Reference!Text(i, n + 1)
    BY <2>1 DEF Word
  <2>3. Reference!NextToken = Reference!Found("INTEGER", buffer, last)
    BY <1>1, <1>2, <2>1, <2>2, DecimalEnds DEF last
  <2>4. n # Len(line)
    <3>1. line[n] # NUL
      <4>1. CASE n = i
        BY <2>1, <4>1, Classes DEF Begins
      <4>2. CASE n # i
        <5>1. n \in i + 1 .. n
          BY <1>1, <2>1, <4>2
        <5>2. line[n] \in Digit
          BY <2>2, <5>1 DEF Decimal, Run, Reference!In
        <5>3. QED
          BY <5>2, Classes
      <4>3. QED
        BY <4>1, <4>2
    <3>2. line # <<>> => line[Len(line)] = NUL
      BY <1>1, LineTyped, LinesAssumption DEF IInv
    <3>3. line # <<>>
      BY <1>1, <2>1
    <3>4. QED
      BY <3>1, <3>2, <3>3
  <2>5. Token("INTEGER", buffer, char_no').text = buffer
    <3>1. CString(buffer) = buffer
      BY <1>1, <2>1, <2>2, <2>4, TextIsString
    <3>2. QED
      BY <3>1 DEF Token
  <2>6. QED
    BY <1>1, <1>3, <1>6, <2>3, <2>5, Returns DEF Accept, Tracks, TokenTypes
<1>7. CASE state = "SYMBOL" /\ Accept("SYMBOL")
  <2>1. PICK i : /\ i \in 1 .. Len(line) /\ n \in i .. Len(line) /\ Begins(i)
                 /\ Word("SYMBOL", i, n, buffer)
    BY <1>4, <1>7
  <2>2. Symbol(i, n) /\ buffer = Reference!Text(i, n + 1)
    BY <2>1 DEF Word
  <2> DEFINE text == IF n = Len(line) THEN Reference!Text(i, n) ELSE Reference!Text(i, n + 1)
  <2>3. Reference!NextToken = Reference!Found("SYMBOL", text, last)
    <3>1. CASE n = Len(line)
      <4>1. last = n
        BY <1>1, <3>1, Here DEF last
      <4>2. QED
        BY <1>1, <2>1, <2>2, <3>1, <4>1, SymbolEndsLine
    <3>2. CASE n # Len(line)
      <4>1. n < Len(line)
        BY <1>1, <3>2
      <4>2. QED
        BY <1>1, <1>2, <2>1, <2>2, <3>2, <4>1, SymbolEnds DEF last
    <3>3. QED
      BY <3>1, <3>2
  <2>4. Token("SYMBOL", buffer, char_no').text = text
    <3>1. CString(buffer) = text
      BY <1>1, <2>1, <2>2, TextIsString
    <3>2. QED
      BY <3>1 DEF Token
  <2> HIDE DEF text
  <2>5. QED
    BY <1>1, <1>3, <1>7, <2>3, <2>4, Returns DEF Accept, Tracks, TokenTypes
<1>8. CASE state \notin {"ZERO", "NUMBER", "SYMBOL"} /\ Return("ERROR", state)
  <2>1. PICK i : /\ i \in 1 .. Len(line) /\ n \in i .. Len(line) /\ Begins(i)
                 /\ Word(state, i, n, buffer)
    BY <1>4, <1>8
  <2>2. \E l : Reference!NextToken = Reference!Error(l)
    <3>1. CASE Dash(i, n)
      BY <1>1, <1>2, <2>1, <3>1, DashEnds DEF Dash
    <3>2. CASE Marked(i, n, "0") \/ Marked(i, n, HASH)
      BY <1>1, <1>2, <2>1, <3>2, MarkedEnds
    <3>3. CASE Hex(i, n)
      BY <1>1, <1>2, <2>1, <3>3, HexEnds
    <3>4. CASE Open(i, n)
      BY <1>1, <1>2, <2>1, <3>4, StringStaysOpen
    <3>5. QED
      BY <1>8, <2>1, <3>1, <3>2, <3>3, <3>4 DEF Word
  <2>3. PICK l : Reference!NextToken = Reference!Found("ERROR", <<>>, Reference!Through(l))
    BY <2>2 DEF Reference!Error
  <2>4. QED
    BY <1>1, <1>3, <1>8, <2>3, Returns DEF Tracks, TokenTypes
<1>9. QED
  BY <1>5, <1>6, <1>7, <1>8 DEF ScanEnd

----------------------------------------------------------------------------
(* The lexer implements TokenStream.                                       *)

\* A step of the loop tracks TokenStream, whatever the state.
LEMMA ScanTracks == ASSUME IInv, WordInv, ScanStep PROVE Tracks
BY ZeroTracks, MinusTracks, IntegerBase16Tracks, NumberPrefixTracks, StringTracks,
   EscapeTracks, NumberTracks, NumberBase16Tracks, SymbolTracks, EndTracks DEF ScanStep

\* A request begins: no word has begun, and the reader has seen nothing of it.
LEMMA TokenGetTracks == ASSUME IInv, WordInv, TokenGet PROVE Tracks
<1>1. /\ calling' = TRUE /\ start' = char_no /\ char_no' = char_no /\ buffer' = <<>>
      /\ line' = line /\ state' = state /\ tok' = tok /\ lineCount' = lineCount
      /\ ~calling /\ lineCount > 0 /\ tok.type \notin {"EOF", "ERROR"}
  BY DEF TokenGet
<1>2. state = "ZERO"
  BY <1>1 DEF IInv, ReadyBetweenTokens
<1>3. char_no + 1 .. char_no = {}
  BY LineTyped
<1>4. WordInv'
  <2>1. SoFar("ZERO", char_no, <<>>)'
    BY <1>1, <1>3 DEF SoFar, Run
  <2>2. QED
    BY <1>1, <1>2, <2>1 DEF WordInv
<1>5. UNCHANGED Reference!vars
  BY <1>1 DEF Reference!vars
<1>6. QED
  BY <1>4, <1>5 DEF Tracks

\* lexer_line_set is LineSet of TokenStream.
LEMMA LineSetTracks == ASSUME IInv, LineSet PROVE WordInv' /\ Reference!LineSet
<1>1. line' \in Seq(Chars)
  BY LinesAssumption DEF LineSet
<1>2. QED
  BY <1>1, SameClasses DEF LineSet, WordInv, Reference!LineSet, NoToken, Reference!NoToken

LEMMA StepTracks ==
  IInv /\ WordInv /\ [Next]_vars => WordInv' /\ [Reference!Next]_(Reference!vars)
<1> SUFFICES ASSUME IInv, WordInv, [Next]_vars
             PROVE  WordInv' /\ [Reference!Next]_(Reference!vars)
  OBVIOUS
<1>1. CASE LineSet
  BY <1>1, LineSetTracks DEF Reference!Next
<1>2. CASE TokenGet
  BY <1>2, TokenGetTracks DEF Reference!Next, Tracks
<1>3. CASE ScanStep
  BY <1>3, ScanTracks DEF Reference!Next, Tracks
<1>4. CASE UNCHANGED vars
  <2>1. UNCHANGED Reference!vars
    BY <1>4 DEF vars, Reference!vars
  <2>2. SoFar(state, char_no, buffer)' <=> SoFar(state, char_no, buffer)
    <3>1. /\ line' = line /\ start' = start /\ state' = state /\ char_no' = char_no
          /\ buffer' = buffer
      BY <1>4 DEF vars
    <3>2. QED
      BY <3>1, SameLine
  <2>3. WordInv'
    BY <1>4, <2>2 DEF vars, WordInv
  <2>4. QED
    BY <2>1, <2>3
<1>5. QED
  BY <1>1, <1>2, <1>3, <1>4 DEF Next

\* The automaton is always in the word it should be in.
THEOREM WordInvHolds == Spec => []WordInv
<1>1. Init => WordInv
  BY DEF Init, WordInv
<1>2. QED
  BY <1>1, StepTracks, IInvHolds, PTL DEF Spec

\* What a request returns is the next word of the line, whole: for every line
\* that fits the buffer, the automaton that takes the characters one by one
\* and puts some back is a reader of whole words.
THEOREM ImplementsReference == Spec => ImplementsTokenStream
<1>1. Init => Reference!Init
  BY DEF Init, Reference!Init, NoToken, Reference!NoToken
<1>2. QED
  BY <1>1, StepTracks, IInvHolds, WordInvHolds, PTL DEF Spec, ImplementsTokenStream, Reference!Spec

----------------------------------------------------------------------------
(* A call ends.                                                            *)

\* What the call has left to do: each character not taken counts two, so that
\* taking one pays for the state behind a dash or a backslash, which may put
\* the next one back once.
Left == 2 * (Len(line) - char_no) + IF state \in {"MINUS", "ESCAPE_STRING"} THEN 1 ELSE 0

LEMMA TakingIsLess ==
  ASSUME IInv, calling, ~AtEnd, NEW kept, Take(kept), NEW s, Goto(s)
  PROVE  Left' \in 0 .. Left - 1
<1>1. char_no \in Nat /\ Len(line) \in Nat /\ char_no < Len(line)
  BY LineTyped DEF AtEnd
<1>2. char_no' = char_no + 1 /\ line' = line
  BY DEF Take, Goto
<1>3. QED
  BY <1>1, <1>2 DEF Left

LEMMA UntakingIsLess ==
  ASSUME IInv, calling, state \in {"MINUS", "ESCAPE_STRING"}, NEW kept, Untake(kept),
         NEW s \in {"SYMBOL", "STRING"}, Goto(s)
  PROVE  Left' \in 0 .. Left - 1
<1>1. char_no \in Nat /\ Len(line) \in Nat /\ char_no <= Len(line)
  BY LineTyped
<1>2. char_no' = char_no /\ line' = line /\ state' = s
  BY DEF Untake, Goto
<1>3. QED
  BY <1>1, <1>2 DEF Left

LEMMA ScanIsLess == ASSUME IInv, ScanStep PROVE calling' => Left' \in 0 .. Left - 1
<1> SUFFICES ASSUME calling' PROVE Left' \in 0 .. Left - 1
  OBVIOUS
<1>1. calling
  BY DEF ScanStep, ScanZero, ScanMinus, ScanIntegerBase16, ScanNumberPrefix, ScanString, ScanEscape,
         ScanNumber, ScanNumberBase16, ScanSymbol, ScanEnd, Scan
<1>2. ~ScanEnd
  BY DEF ScanEnd, Accept, Return
<1>3. ~AtEnd
  BY <1>2 DEF ScanStep, ScanZero, ScanMinus, ScanIntegerBase16, ScanNumberPrefix, ScanString, ScanEscape,
         ScanNumber, ScanNumberBase16, ScanSymbol, Scan, GetcIsEOF
<1>4. \A t : ~Accept(t)
  BY DEF Accept, Return
<1>5. ~Fail
  BY DEF Fail, Return
<1>6. (\E kept, s : Take(kept) /\ Goto(s)) \/ ScanMinus \/ ScanEscape
  BY <1>2, <1>4, <1>5 DEF ScanStep, ScanZero, ScanIntegerBase16, ScanNumberPrefix, ScanString,
         ScanNumber, ScanNumberBase16, ScanSymbol
<1>7. CASE ScanMinus
  BY <1>1, <1>3, <1>4, <1>5, <1>7, TakingIsLess, UntakingIsLess DEF ScanMinus, Scan
<1>8. CASE ScanEscape
  BY <1>1, <1>3, <1>8, TakingIsLess, UntakingIsLess DEF ScanEscape, Scan
<1>9. QED
  BY <1>1, <1>3, <1>6, <1>7, <1>8, TakingIsLess

\* The loop of lexer_token_get runs at most twice for every character it has
\* left and once more, although _ungetc puts characters back inside it.
THEOREM LoopEnds == Spec => [][calling /\ calling' => Left' \in 0 .. Left - 1]_vars
<1>1. IInv /\ [Next]_vars => [calling /\ calling' => Left' \in 0 .. Left - 1]_vars
  BY ScanIsLess DEF Next, LineSet, TokenGet
<1>2. QED
  BY <1>1, IInvHolds, PTL DEF Spec
============================================================================
