---------------------------- MODULE ShellProofs ----------------------------
(***************************************************************************)
(* The shell under the main loop, for every set of lines, every meaning of *)
(* a line, any number of signals and of lines read.  Three inductive       *)
(* invariants: what the line buffer holds; on it, what the history holds;  *)
(* and, apart from both, what the signal and the console are.              *)
(***************************************************************************)
EXTENDS Ssshell, SequenceTheorems, TLAPS

----------------------------------------------------------------------------
(* Memory.                                                                 *)

\* A buffer that has room for a line and its terminator holds them after
\* strcpy, and nothing of the buffer's length is lost.
LEMMA StrcpyFits ==
  ASSUME NEW m \in Seq(Chars), NEW s \in Seq(Chars), Len(s) + 1 <= Len(m)
  PROVE  /\ Strcpy(m, s) \in Seq(Chars)
         /\ Len(Strcpy(m, s)) = Len(m)
         /\ SubSeq(Strcpy(m, s), 1, Len(s) + 1) = Append(s, Nul)
<1> DEFINE c == Strcpy(m, s)
<1>1. Nul \in Chars
  BY DEF Chars
<1>2. /\ c = [i \in 1 .. Len(m) |-> IF i <= Len(s) THEN s[i]
                                  ELSE IF i = Len(s) + 1 THEN Nul ELSE m[i]]
      /\ \A i \in 1 .. Len(m) : c[i] \in Chars
  BY <1>1 DEF Strcpy
<1>3. c \in Seq(Chars) /\ Len(c) = Len(m)
  BY <1>2
<1>4. SubSeq(c, 1, Len(s) + 1) = Append(s, Nul)
  <2> DEFINE d == SubSeq(c, 1, Len(s) + 1)
             e == Append(s, Nul)
  <2>1. /\ d \in Seq(Chars) /\ Len(d) = Len(s) + 1
        /\ \A i \in 1 .. Len(s) + 1 : d[i] = c[i]
    BY <1>3
  <2>2. /\ e \in Seq(Chars) /\ Len(e) = Len(s) + 1
        /\ \A i \in 1 .. Len(s) + 1 : e[i] = IF i <= Len(s) THEN s[i] ELSE Nul
    BY <1>1
  <2>3. \A i \in 1 .. Len(s) + 1 : c[i] = IF i <= Len(s) THEN s[i] ELSE Nul
    BY <1>2
  <2> HIDE DEF c, d, e
  <2>4. QED
    BY <2>1, <2>2, <2>3, SeqEqual
<1>5. QED
  BY <1>3, <1>4

\* realloc has the room that was asked for, or fails.
LEMMA ReallocGives ==
  ASSUME NEW m \in Seq(Chars), NEW n \in Nat, NEW r \in Realloc(m, n), r # <<>>
  PROVE  r \in Seq(Chars) /\ Len(r) = n
<1>1. PICK c \in Chars : r = [i \in 1 .. n |-> IF i <= Len(m) THEN m[i] ELSE c]
  BY DEF Realloc
<1>2. QED
  BY <1>1

----------------------------------------------------------------------------
(* The line buffer.                                                        *)

\* Between the lines a buffer that is not there has the size 0: it is the one that
\* shell_init could not allocate.  After realloc has failed the line is not parsed.
BufferInv ==
  /\ memory \in Seq(Chars) /\ size \in Nat
  /\ editing \in Typed /\ rline \in Typed \cup {NULL}
  /\ pc \in {"IDLE", "EDITING", "READ", "CLEARED"} /\ memory = <<>> => size = 0
  /\ pc = "RAN" => memory # <<>>
  /\ pc \in {"EDITING", "READ", "CLEARED"} => meaning = "NONE"
  /\ pc = "STORED" /\ memory = <<>> => meaning = "NONE"
  /\ BufferFits
  /\ LineIsTyped

LEMMA TypedLines == Typed \subseteq Seq(Chars)
BY TypedAssumption

LEMMA InitBuffer == Init => BufferInv
<1> SUFFICES ASSUME Init PROVE BufferInv
  OBVIOUS
<1>1. \/ memory = <<>>
      \/ \E c \in Chars : memory = <<c>>
  BY DEF Init, ShellInit, Initialised, NotInitialised
<1>2. memory \in Seq(Chars) /\ (memory # <<>> => Len(memory) = 1)
  <2>1. CASE memory = <<>>
    BY <2>1
  <2>2. CASE memory # <<>>
    <3>1. PICK c \in Chars : memory = <<c>>
      BY <1>1, <2>2
    <3>2. QED
      BY <3>1
  <2>3. QED
    BY <2>1, <2>2
<1>3. QED
  BY <1>2, TypedAssumption DEF Init, ShellInit, BufferInv, BufferFits, LineIsTyped

LEMMA StoreBuffer == BufferInv /\ Store /\ UNCHANGED mainVars => BufferInv'
<1> SUFFICES ASSUME BufferInv, Store, UNCHANGED mainVars PROVE BufferInv'
  OBVIOUS
<1> DEFINE rsize == Len(rline) + 1
<1>1. CASE StoreLine
  <2>0. rline # NULL /\ rline # <<>>
    BY <1>1 DEF StoreLine
  <2>1. rline \in Seq(Chars) /\ rsize \in Nat
    BY <2>0, TypedLines DEF BufferInv
  <2>2. PICK m \in IF rsize > size THEN Realloc(memory, rsize) ELSE {memory} :
          memory' = Strcpy(m, rline)
    BY <1>1 DEF StoreLine
  <2>3. size' = rsize /\ pc' = "STORED" /\ rline' = rline /\ editing' = editing
    BY <1>1 DEF StoreLine
  <2>4. CASE m = <<>>
    <3>1. memory' = <<>>
      BY <2>2, <2>4 DEF Strcpy
    <3>2. meaning' = "NONE"
      BY <1>1 DEF BufferInv, StoreLine, mainVars
    <3>3. QED
      BY <2>1, <2>3, <3>1, <3>2 DEF BufferInv, BufferFits, LineIsTyped
  <2>5. CASE m # <<>>
    <3>1. m \in Seq(Chars) /\ rsize <= Len(m)
      BY <2>1, <2>2, <2>5, ReallocGives DEF BufferInv, BufferFits
    <3>2. /\ memory' \in Seq(Chars) /\ Len(memory') = Len(m)
          /\ SubSeq(memory', 1, rsize) = Append(rline, Nul)
      BY <2>1, <2>2, <3>1, StrcpyFits
    <3>3. BufferFits'
      BY <2>1, <2>3, <3>1, <3>2 DEF BufferFits
    <3>4. LineIsTyped'
      BY <2>0, <2>3, <3>2 DEF LineIsTyped, shell_line_get
    <3>5. memory' # <<>>
      BY <2>1, <3>1, <3>2
    <3>6. QED
      BY <2>1, <2>3, <3>2, <3>3, <3>4, <3>5 DEF BufferInv
  <2>6. QED
    BY <2>4, <2>5
<1>2. CASE StoreEmpty /\ memory # <<>>
  <2>1. /\ size' = 0 /\ memory' = [memory EXCEPT ![1] = Nul] /\ rline \in {NULL, <<>>}
        /\ pc' = "STORED" /\ rline' = rline /\ editing' = editing
    BY <1>2 DEF StoreEmpty
  <2>2. Len(memory) >= 1
    BY <1>2 DEF BufferInv, BufferFits
  <2>3. memory' \in Seq(Chars) /\ Len(memory') = Len(memory)
    BY <2>1, <2>2 DEF BufferInv, Chars
  <2>4. SubSeq(memory', 1, 0) = <<>>
    BY <2>3
  <2>5. memory' # <<>>
    BY <2>2, <2>3
  <2>6. QED
    BY <2>1, <2>2, <2>3, <2>4, <2>5 DEF BufferInv, BufferFits, LineIsTyped, shell_line_get
<1>3. CASE StoreEmpty /\ memory = <<>>
  BY <1>3 DEF StoreEmpty, BufferInv, BufferFits, LineIsTyped
<1>4. QED
  BY <1>1, <1>2, <1>3 DEF Store

LEMMA StepBuffer == BufferInv /\ [Next]_vars => BufferInv'
<1> SUFFICES ASSUME BufferInv, [Next]_vars PROVE BufferInv'
  OBVIOUS
<1> USE DEF BufferInv, BufferFits, LineIsTyped, shell_line_get, mainVars
<1>1. CASE Loop
  BY <1>1, TypedAssumption DEF Loop, SignalSet, console
<1>2. CASE SignalClear /\ UNCHANGED mainVars
  BY <1>2 DEF SignalClear, console
<1>3. CASE Store /\ UNCHANGED mainVars
  BY <1>3, StoreBuffer
<1>4. CASE Parse
  BY <1>4 DEF Parse, shellVars
<1>5. CASE Crash
  BY <1>5 DEF Crash
<1>6. CASE Skip
  BY <1>6 DEF Skip, Failures
<1>7. CASE Run \/ Remember
  BY <1>7 DEF Run, Remember
<1>8. CASE Exit
  BY <1>8 DEF Exit, ShellDeinit
<1>9. CASE User
  BY <1>9, TypedAssumption DEF User, Edit, Readline
<1>10. CASE Interrupt
  BY <1>10, TypedAssumption DEF Interrupt, Sigint
<1>11. CASE UNCHANGED vars
  BY <1>11 DEF vars, shellVars
<1>12. QED
  BY <1>1, <1>2, <1>3, <1>4, <1>5, <1>6, <1>7, <1>8, <1>9, <1>10, <1>11 DEF Next, Program

\* The line buffer always has the bytes its size speaks of, for lines of any
\* length in any order.
THEOREM BufferHolds == Spec => []BufferFits
<1>1. BufferInv => BufferFits
  BY DEF BufferInv
<1>2. QED
  BY <1>1, InitBuffer, StepBuffer, PTL DEF Spec

\* The lexer gets what was typed, whatever was in the buffer before.
THEOREM TypedToLexer == Spec => []LineIsTyped
<1>1. BufferInv => LineIsTyped
  BY DEF BufferInv
<1>2. QED
  BY <1>1, InitBuffer, StepBuffer, PTL DEF Spec

----------------------------------------------------------------------------
(* The history.                                                            *)

\* What a line is remembered from is the line that was read.
LEMMA FirstNul ==
  ASSUME NEW m \in Seq(Chars), NEW s \in Seq(Chars \ {Nul}), Len(s) + 1 <= Len(m),
         SubSeq(m, 1, Len(s) + 1) = Append(s, Nul)
  PROVE  CString(m) = s /\ (s # <<>> => m[1] = s[1])
<1>1. \A i \in 1 .. Len(s) : m[i] = s[i] /\ m[i] # Nul
  <2> SUFFICES ASSUME NEW i \in 1 .. Len(s) PROVE m[i] = s[i] /\ s[i] # Nul
    OBVIOUS
  <2>1. SubSeq(m, 1, Len(s) + 1)[i] = m[i]
    OBVIOUS
  <2>2. Append(s, Nul)[i] = s[i]
    OBVIOUS
  <2>3. QED
    BY <2>1, <2>2
<1>2. m[Len(s) + 1] = Nul
  <2>1. SubSeq(m, 1, Len(s) + 1)[Len(s) + 1] = m[Len(s) + 1]
    OBVIOUS
  <2>2. Append(s, Nul)[Len(s) + 1] = Nul
    OBVIOUS
  <2>3. QED
    BY <2>1, <2>2
<1> DEFINE Ends(n) == m[n + 1] = Nul /\ \A i \in 1 .. n : m[i] # Nul
           end == CHOOSE n \in 0 .. Len(m) - 1 : Ends(n)
<1>3. Len(s) \in 0 .. Len(m) - 1 /\ Ends(Len(s))
  BY <1>1, <1>2
<1>4. end \in 0 .. Len(m) - 1 /\ Ends(end)
  BY <1>3
<1>5. end = Len(s)
  <2>1. ~(end < Len(s))
    BY <1>1, <1>4
  <2>2. ~(Len(s) < end)
    BY <1>2, <1>4
  <2> HIDE DEF end
  <2>3. QED
    BY <1>4, <2>1, <2>2
<1>6. CString(m) = SubSeq(m, 1, Len(s))
  BY <1>5 DEF CString
<1>7. SubSeq(m, 1, Len(s)) = s
  <2> DEFINE d == SubSeq(m, 1, Len(s))
  <2>1. d \in Seq(Chars) /\ Len(d) = Len(s) /\ \A i \in 1 .. Len(s) : d[i] = m[i]
    OBVIOUS
  <2>2. s \in Seq(Chars)
    OBVIOUS
  <2> HIDE DEF d
  <2>3. d = s
    BY <1>1, <2>1, <2>2, SeqEqual
  <2>4. QED
    BY <2>3 DEF d
<1>8. QED
  BY <1>1, <1>6, <1>7

\* A line that means something is not empty, so that the buffer holds it before and
\* after its command runs, and the history follows the lines that were run.
HistoryInv ==
  /\ BufferInv
  /\ history \in Seq(Seq(Chars)) /\ ran \in Seq(Seq(Chars))
  /\ pc = "STORED" /\ meaning \notin {"NONE", "EOF"} => size > 0 /\ memory # <<>>
  /\ CASE pc = "RAN" -> /\ Len(ran) > 0
                        /\ CString(memory) = ran[Len(ran)] /\ memory[1] = ran[Len(ran)][1]
                        /\ Remembered(Len(ran) - 1)
       [] pc = "KILLED" -> HistoryOfCommands
       [] OTHER -> Remembered(Len(ran))

LEMMA InitHistory == Init => HistoryInv
<1> SUFFICES ASSUME Init PROVE HistoryInv
  OBVIOUS
<1>1. history = <<>> /\ ran = <<>> /\ pc = "IDLE"
  BY DEF Init, ShellInit
<1> DEFINE line == [i \in 1 .. 0 |-> 0]
<1>2. /\ line \in [1 .. 0 -> 1 .. 0]
      /\ {line[i] : i \in 1 .. 0} = {n \in 1 .. 0 : ran[n][1] # Blank}
  OBVIOUS
<1> HIDE DEF line
<1>3. Remembered(Len(ran))
  <2>1. Len(history) = 0 /\ Len(ran) = 0
    BY <1>1
  <2>2. \A i \in 1 .. 0 : FALSE
    OBVIOUS
  <2>3. QED
    BY <1>2, <2>1, <2>2 DEF Remembered
<1>4. QED
  BY <1>1, <1>3, InitBuffer DEF HistoryInv

\* The line that is run is the one in the buffer, and the lines before it are not
\* changed.
LEMMA RunHistory == HistoryInv /\ Run /\ BufferInv' => HistoryInv'
<1> SUFFICES ASSUME HistoryInv, Run, BufferInv' PROVE HistoryInv'
  OBVIOUS
<1>1. size > 0 /\ memory # <<>> /\ pc = "STORED"
  BY DEF HistoryInv, Run
<1>2. shell_line_get # <<>>
  <2>1. size \in Nat /\ size <= Len(memory) /\ memory \in Seq(Chars)
    BY <1>1 DEF HistoryInv, BufferInv, BufferFits
  <2>2. Len(SubSeq(memory, 1, size)) = size
    BY <2>1
  <2>3. QED
    BY <1>1, <2>1, <2>2 DEF shell_line_get
<1>3. rline # NULL /\ rline # <<>> /\ SubSeq(memory, 1, size) = Append(rline, Nul)
  BY <1>1, <1>2 DEF HistoryInv, BufferInv, LineIsTyped, shell_line_get
<1>4. rline \in Typed
  BY <1>3 DEF HistoryInv, BufferInv
<1>5. rline \in Seq(Chars \ {Nul}) /\ rline \in Seq(Chars)
  BY <1>4, TypedAssumption
<1>6. size = Len(rline) + 1 /\ size <= Len(memory) /\ memory \in Seq(Chars) /\ size \in Nat
  <2>1. size <= Len(memory) /\ memory \in Seq(Chars) /\ size \in Nat
    BY <1>1 DEF HistoryInv, BufferInv, BufferFits
  <2>2. Len(SubSeq(memory, 1, size)) = size
    BY <2>1
  <2>3. Len(Append(rline, Nul)) = Len(rline) + 1
    BY <1>5
  <2>4. QED
    BY <1>3, <2>1, <2>2, <2>3
<1>7. CString(memory) = rline /\ memory[1] = rline[1]
  BY <1>3, <1>5, <1>6, FirstNul
<1>8. ran' = Append(ran, rline) /\ history' = history /\ memory' = memory /\ pc' = "RAN"
  BY DEF Run
<1>9. history \in Seq(Seq(Chars)) /\ ran \in Seq(Seq(Chars))
  BY DEF HistoryInv
<1> PICK r \in Nat : r = Len(ran)
  BY <1>9
<1>10. /\ ran' \in Seq(Seq(Chars)) /\ Len(ran') = r + 1 /\ ran'[r + 1] = rline
       /\ \A n \in 1 .. r : ran'[n] = ran[n]
  BY <1>5, <1>8, <1>9
<1>11. Remembered(r)
  BY <1>1 DEF HistoryInv
<1>12. Remembered(r)'
  <2>1. PICK line \in [1 .. Len(history) -> 1 .. r] :
          /\ \A i, j \in 1 .. Len(history) : i < j => line[i] < line[j]
          /\ {line[i] : i \in 1 .. Len(history)} = {k \in 1 .. r : ran[k][1] # Blank}
          /\ \A i \in 1 .. Len(history) : history[i] = ran[line[i]]
    BY <1>11 DEF Remembered
  <2>2. {k \in 1 .. r : ran'[k][1] # Blank} = {k \in 1 .. r : ran[k][1] # Blank}
    BY <1>10
  <2>3. \A i \in 1 .. Len(history) : history[i] = ran'[line[i]]
    BY <1>10, <2>1
  <2>4. QED
    BY <1>8, <2>1, <2>2, <2>3 DEF Remembered
<1>13. Remembered(Len(ran) - 1)'
  <2>1. Len(ran') - 1 = r
    BY <1>9, <1>10
  <2>2. QED
    BY <1>12, <2>1 DEF Remembered
<1>14. QED
  BY <1>7, <1>8, <1>9, <1>10, <1>13 DEF HistoryInv

\* A line is remembered after its command has run, unless it begins with a blank.
LEMMA RememberHistory ==
  HistoryInv /\ Remember =>
    Remembered(Len(ran))' /\ (history \in Seq(Seq(Chars)))' /\ (ran \in Seq(Seq(Chars)))'
<1> SUFFICES ASSUME HistoryInv, Remember
             PROVE  /\ Remembered(Len(ran))'
                    /\ (history \in Seq(Seq(Chars)))' /\ (ran \in Seq(Seq(Chars)))'
  OBVIOUS
<1> DEFINE h == Len(history)
           r == Len(ran) - 1
           last == ran[r + 1]
<1>1. /\ history \in Seq(Seq(Chars)) /\ ran \in Seq(Seq(Chars))
      /\ pc = "RAN" /\ Len(ran) > 0
  BY DEF HistoryInv, Remember
<1>2. h \in Nat /\ r \in Nat /\ Len(ran) = r + 1 /\ last \in Seq(Chars)
  BY <1>1
<1>3. CString(memory) = last /\ memory[1] = last[1] /\ Remembered(r)
  BY <1>1, <1>2 DEF HistoryInv
<1>4. ran' = ran /\ history' = IF last[1] # Blank THEN Append(history, last) ELSE history
  BY <1>3 DEF Remember, HistoryAdd, mainVars
<1>5. history' \in Seq(Seq(Chars)) /\ ran' \in Seq(Seq(Chars))
  BY <1>1, <1>2, <1>4
<1>6. PICK line \in [1 .. h -> 1 .. r] :
         /\ \A i, j \in 1 .. h : i < j => line[i] < line[j]
         /\ {line[i] : i \in 1 .. h} = {n \in 1 .. r : ran[n][1] # Blank}
         /\ \A i \in 1 .. h : history[i] = ran[line[i]]
  BY <1>3 DEF Remembered
<1> HIDE DEF r
<1>7. CASE last[1] = Blank
  <2>1. history' = history /\ ran' = ran /\ Len(ran) = r + 1
    BY <1>2, <1>4, <1>7
  <2>2. line \in [1 .. h -> 1 .. r + 1]
    BY <1>2
  <2> HIDE DEF h, last
  <2>3. {n \in 1 .. r + 1 : ran[n][1] # Blank} = {n \in 1 .. r : ran[n][1] # Blank}
    <3>1. \A n \in 1 .. r : n \in 1 .. r + 1
      BY <1>2
    <3>2. \A n \in 1 .. r + 1 : n \in 1 .. r \/ ran[n][1] = Blank
      BY <1>2, <1>7 DEF last
    <3>3. QED
      BY <3>1, <3>2
  <2>4. Remembered(Len(ran))'
    BY <1>6, <2>1, <2>2, <2>3 DEF Remembered, h
  <2>5. QED
    BY <1>5, <2>4
<1>8. CASE last[1] # Blank
  <2> DEFINE next == [i \in 1 .. h + 1 |-> IF i = h + 1 THEN r + 1 ELSE line[i]]
  <2>1. /\ Len(history') = h + 1 /\ history'[h + 1] = last
        /\ \A i \in 1 .. h : history'[i] = history[i]
    BY <1>1, <1>2, <1>4, <1>8
  <2> HIDE DEF h
  <2>2. /\ next \in [1 .. h + 1 -> 1 .. r + 1] /\ next[h + 1] = r + 1
        /\ \A i \in 1 .. h : next[i] = line[i] /\ next[i] \in 1 .. r
    <3>1. \A i \in 1 .. h : i \in 1 .. h + 1 /\ i # h + 1 /\ line[i] \in 1 .. r
      BY <1>2
    <3>2. h + 1 \in 1 .. h + 1 /\ r + 1 \in 1 .. r + 1 /\ \A n \in 1 .. r : n \in 1 .. r + 1
      BY <1>2
    <3>3. \A i \in 1 .. h + 1 : i = h + 1 \/ i \in 1 .. h
      BY <1>2
    <3>4. QED
      BY <3>1, <3>2, <3>3
  <2> HIDE DEF next
  <2>3. \A i, j \in 1 .. h + 1 : i < j => next[i] < next[j]
    <3> SUFFICES ASSUME NEW i \in 1 .. h + 1, NEW j \in 1 .. h + 1, i < j
                 PROVE  next[i] < next[j]
      OBVIOUS
    <3>1. i \in 1 .. h
      BY <1>2
    <3>2. CASE j = h + 1
      BY <1>2, <2>2, <3>1, <3>2
    <3>3. CASE j # h + 1
      <4>1. j \in 1 .. h
        BY <1>2, <3>3
      <4>2. QED
        BY <1>6, <2>2, <3>1, <4>1
    <3>4. QED
      BY <3>2, <3>3
  <2>4. {next[i] : i \in 1 .. h + 1} = {n \in 1 .. r + 1 : ran[n][1] # Blank}
    <3>1. \A i \in 1 .. h + 1 : next[i] \in 1 .. r + 1 /\ ran[next[i]][1] # Blank
      <4> SUFFICES ASSUME NEW i \in 1 .. h + 1
                   PROVE  next[i] \in 1 .. r + 1 /\ ran[next[i]][1] # Blank
        OBVIOUS
      <4>1. CASE i = h + 1
        BY <1>2, <1>8, <2>2, <4>1
      <4>2. CASE i # h + 1
        <5>1. i \in 1 .. h
          BY <1>2, <4>2
        <5>2. line[i] \in 1 .. r /\ ran[line[i]][1] # Blank
          BY <1>6, <5>1
        <5>3. QED
          BY <1>2, <2>2, <5>1, <5>2
      <4>3. QED
        BY <4>1, <4>2
    <3>2. \A n \in 1 .. r + 1 : ran[n][1] # Blank => \E i \in 1 .. h + 1 : next[i] = n
      <4> SUFFICES ASSUME NEW n \in 1 .. r + 1, ran[n][1] # Blank
                   PROVE  \E i \in 1 .. h + 1 : next[i] = n
        OBVIOUS
      <4>1. CASE n = r + 1
        BY <1>2, <2>2, <4>1
      <4>2. CASE n # r + 1
        <5>1. n \in 1 .. r
          BY <1>2, <4>2
        <5>2. PICK i \in 1 .. h : line[i] = n
          BY <1>6, <5>1
        <5>3. i \in 1 .. h + 1
          BY <1>2
        <5>4. QED
          BY <2>2, <5>2, <5>3
      <4>3. QED
        BY <4>1, <4>2
    <3>3. QED
      BY <3>1, <3>2
  <2>5. \A i \in 1 .. h + 1 : history'[i] = ran[next[i]]
    <3> SUFFICES ASSUME NEW i \in 1 .. h + 1 PROVE history'[i] = ran[next[i]]
      OBVIOUS
    <3>1. CASE i = h + 1
      BY <2>1, <2>2, <3>1
    <3>2. CASE i # h + 1
      <4>1. i \in 1 .. h
        BY <1>2, <3>2
      <4>2. QED
        BY <1>6, <2>1, <2>2, <4>1
    <3>3. QED
      BY <3>1, <3>2
  <2>6. Len(ran') = r + 1 /\ ran' = ran
    BY <1>2, <1>4
  <2> HIDE DEF last
  <2>7. Remembered(Len(ran))'
    BY <2>1, <2>2, <2>3, <2>4, <2>5, <2>6 DEF Remembered
  <2>8. QED
    BY <1>5, <2>7
<1>9. QED
  BY <1>7, <1>8

LEMMA StepHistory == HistoryInv /\ [Next]_vars => HistoryInv'
<1> SUFFICES ASSUME HistoryInv, [Next]_vars PROVE HistoryInv'
  OBVIOUS
<1>1. BufferInv'
  BY StepBuffer DEF HistoryInv
<1>2. CASE Run
  BY <1>1, <1>2, RunHistory
<1>3. CASE Remember
  BY <1>1, <1>3, RememberHistory DEF HistoryInv, Remember
<1>4. CASE ~Run /\ ~Remember
  <2>1. history' = history /\ ran' = ran
    BY <1>4 DEF Next, Program, Loop, SignalSet, SignalClear, Store, StoreLine, StoreEmpty, Parse,
                Crash, Skip, Exit, ShellDeinit, User, Edit, Readline, Interrupt, Sigint, vars,
                shellVars, mainVars
  <2>2. (history \in Seq(Seq(Chars)))' /\ (ran \in Seq(Seq(Chars)))'
    BY <2>1 DEF HistoryInv
  <2>3. \A n : Remembered(n)' <=> Remembered(n)
    BY <2>1 DEF Remembered
  <2>4. HistoryOfCommands
    BY DEF HistoryInv, HistoryOfCommands
  <2>5. \/ pc' = pc /\ memory' = memory
        \/ pc' = "KILLED" /\ memory' = memory
        \/ pc # "RAN" /\ pc # "KILLED" /\ pc' # "RAN"
    BY <1>4 DEF Next, Program, Loop, SignalSet, SignalClear, Store, StoreLine, StoreEmpty, Parse,
                Crash, Skip, Exit, ShellDeinit, User, Edit, Readline, Interrupt, Sigint, vars,
                shellVars, mainVars
  <2>6. (pc = "STORED" /\ meaning \notin {"NONE", "EOF"} => size > 0 /\ memory # <<>>)'
    <3> USE DEF HistoryInv, BufferInv, mainVars
    <3>1. CASE Parse
      BY <3>1 DEF Parse, shellVars
    <3>2. CASE Store /\ UNCHANGED mainVars
      BY <3>2 DEF Store, StoreLine, StoreEmpty
    <3>3. CASE ~Parse /\ ~(Store /\ UNCHANGED mainVars)
      BY <1>4, <3>3 DEF Next, Program, Loop, SignalSet, SignalClear, Crash, Skip, Exit, User, Edit,
                        Readline, Interrupt, Sigint, vars, shellVars, console, signalVars
    <3>4. QED
      BY <3>1, <3>2, <3>3
  <2>7. CASE pc' = pc /\ memory' = memory
    BY <1>1, <2>1, <2>2, <2>3, <2>4, <2>6, <2>7 DEF HistoryInv, HistoryOfCommands
  <2>8. CASE pc' = "KILLED"
    BY <1>1, <2>1, <2>2, <2>3, <2>4, <2>6, <2>8 DEF HistoryInv, HistoryOfCommands
  <2>9. CASE pc # "RAN" /\ pc # "KILLED" /\ pc' # "RAN"
    BY <1>1, <2>1, <2>2, <2>3, <2>6, <2>9 DEF HistoryInv, HistoryOfCommands
  <2>10. QED
    BY <2>5, <2>7, <2>8, <2>9
<1>5. QED
  BY <1>2, <1>3, <1>4

\* The history is that of the lines that named a command, in order and as they
\* were typed, whatever the buffer is reused for and wherever realloc fails.
THEOREM CommandsRemembered == Spec => []HistoryOfCommands
<1>1. HistoryInv => HistoryOfCommands
  BY DEF HistoryInv, HistoryOfCommands
<1>2. QED
  BY <1>1, InitHistory, StepHistory, PTL DEF Spec

----------------------------------------------------------------------------
(* The signal and the console.                                             *)

\* Between the lines the disposition is the one the program was started with,
\* and while the handler is installed POSIX has put that one aside.
SignalInv ==
  /\ platform \in {"posix", "windows"}
  /\ found.handler \in {"default", "ignored"}
  /\ platform = "windows" => found.handler = "default"
  /\ pc \in {"EDITING", "READ"} /\ platform = "posix" =>
       handler = "_sigint_handler" /\ old = found.handler
  /\ HandlerInstalled

\* The mode remembered is the one found where it could be read, and none where it
\* could not; without a console there is no mode, to read or to set.
ConsoleInv ==
  /\ On(PosixFound, WindowsFound)
  /\ found.console \/ found.mode = {}
  /\ fetched => found.console
  /\ saved = IF fetched THEN found.mode ELSE {}
  /\ ~found.console => mode = found.mode

SystemInv == SignalInv /\ ConsoleInv /\ LeavesAsFound

LEMMA InitSystem == Init => SystemInv
BY PlatformsAssumption
   DEF Init, ShellInit, Initialised, NotInitialised, SystemInv, SignalInv, ConsoleInv,
       HandlerInstalled, LeavesAsFound, On, PosixFound, WindowsFound, PosixInit, WindowsInit

\* Whenever it comes, a signal is caught only while the handler is installed.
LEMMA SigintSystem == SystemInv /\ Interrupt => SystemInv'
BY DEF SystemInv, SignalInv, ConsoleInv, Interrupt, Sigint, HandlerInstalled, LeavesAsFound, On,
       PosixFound, WindowsFound, PosixCatch, WindowsCatch, console, mainVars

LEMMA StepSystem == SystemInv /\ [Next]_vars => SystemInv'
<1> SUFFICES ASSUME SystemInv, [Next]_vars PROVE SystemInv'
  OBVIOUS
<1> USE DEF SystemInv, SignalInv, ConsoleInv, HandlerInstalled, LeavesAsFound, On, PosixFound,
            WindowsFound, console
<1>1. CASE Loop
  BY <1>1 DEF Loop, SignalSet, PosixSignalSet, WindowsSignalSet
<1>2. CASE SignalClear
  BY <1>2 DEF SignalClear, PosixSignalClear, WindowsSignalClear
<1>3. CASE Store
  BY <1>3 DEF Store, StoreLine, StoreEmpty, signalVars
<1>4. CASE Parse \/ Crash \/ Skip
  <2>1. CASE Parse
    <3>1. UNCHANGED <<platform, found, mode, saved, fetched, memory, handler, old, caught, pc>>
      BY <2>1 DEF Parse, shellVars, signalVars
    <3>2. QED
      BY <3>1
  <2>2. CASE Crash \/ Skip
    <3>1. /\ UNCHANGED <<platform, found, mode, saved, fetched, memory, handler, old, caught>>
          /\ pc = "STORED" /\ pc' \in {"CRASHED", "IDLE"}
      BY <2>2 DEF Crash, Skip, signalVars
    <3>2. QED
      BY <3>1
  <2>3. QED
    BY <1>4, <2>1, <2>2
<1>5. CASE Run \/ Remember
  BY <1>5 DEF Run, Remember, signalVars
<1>6. CASE Exit
  BY <1>6 DEF Exit, ShellDeinit, PosixDeinit, WindowsDeinit, signalVars
<1>7. CASE User
  BY <1>7 DEF User, Edit, Readline, signalVars
<1>8. CASE Interrupt
  BY <1>8, SigintSystem
<1>9. CASE UNCHANGED vars
  BY <1>9 DEF vars, shellVars, signalVars
<1>10. QED
  BY <1>1, <1>2, <1>3, <1>4, <1>5, <1>6, <1>7, <1>8, <1>9 DEF Next, Program

\* A signal is caught while a line is edited and ends a command that runs,
\* on both platforms and for any number of signals.
THEOREM HandlerWhileEditing == Spec => []HandlerInstalled
<1>1. SystemInv => HandlerInstalled
  BY DEF SystemInv, SignalInv
<1>2. QED
  BY <1>1, InitSystem, StepSystem, PTL DEF Spec

\* A program that exits has freed the line buffer and put back the disposition of
\* the signal and the console's mode; a mode that it could not read, or never asked
\* for because malloc failed in shell_init, it clears.
THEOREM NothingLeft == Spec => []LeavesAsFound
<1>1. SystemInv => LeavesAsFound
  BY DEF SystemInv
<1>2. QED
  BY <1>1, InitSystem, StepSystem, PTL DEF Spec
=============================================================================
