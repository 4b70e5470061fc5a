------------------------------- MODULE Shell -------------------------------
(***************************************************************************)
(* The shell of shell/shell.c: the line buffer that shell_readline fills   *)
(* and grows, the signal handler it installs while readline edits, and the *)
(* history, over either of shell/platform/shell.c and                      *)
(* shell/platform/windows/shell.c.  The actions are composed with the main *)
(* loop by Ssshell.  readline is external: the user edits a line and ends  *)
(* it, or the input ends, and a signal may arrive at any time.             *)
(***************************************************************************)
EXTENDS Integers, Sequences

CONSTANTS
  Typed,       \* the lines that can be typed, as sequences of characters
  Blank,       \* the character ' '
  Nul,         \* the terminator
  NULL,
  Platforms,   \* the platforms the program is built for
  MaxSignals   \* signals that arrive in one behaviour (a bound of the model)

Chars == {Nul} \cup UNION {{s[i] : i \in 1 .. Len(s)} : s \in Typed}

\* Lines are C strings: the terminator is not among their characters.
ASSUME TypedAssumption == <<>> \in Typed /\ Typed \subseteq Seq(Chars \ {Nul})
ASSUME PlatformsAssumption == Platforms \subseteq {"posix", "windows"}
ASSUME MaxSignalsAssumption == MaxSignals \in Nat

VARIABLES
  platform,    \* the platform of this build
  found,       \* history: the disposition and the console before main()
  mode,        \* the flags of the Windows console
  saved,       \* _dConsoleMode
  fetched,     \* history: GetConsoleMode has told the mode
  memory,      \* the bytes of _line.buffer, <<>> when it is NULL
  size,        \* _line.size
  handler,     \* the disposition of SIGINT, on Windows of SIGBREAK
  old,         \* _sigaction_old
  editing,     \* the line being edited, readline's own
  rline,       \* what readline returned: a line, or NULL at the end of input
  history,     \* what add_history was given
  pc,          \* where the shell is
  caught,      \* history: a signal was caught since the handler was installed
  signals      \* signals so far; bounded by MaxSignals

\* What __shell_init sets and only __shell_deinit changes.
console == <<platform, found, mode, saved, fetched>>
signalVars == <<handler, old, caught, signals>>
shellVars == <<console, memory, size, signalVars, editing, rline, history, pc>>

\* The bytes m after strcpy(m, s), the bytes past its end being lost.
Strcpy(m, s) == [i \in 1 .. Len(m) |-> IF i <= Len(s) THEN s[i]
                                       ELSE IF i = Len(s) + 1 THEN Nul ELSE m[i]]

\* The C string at m.
CString(m) == SubSeq(m, 1, CHOOSE n \in 0 .. Len(m) - 1 :
                             m[n + 1] = Nul /\ \A i \in 1 .. n : m[i] # Nul)

\* realloc: what was there stays, the rest is arbitrary; or it fails.
Realloc(m, n) == {<<>>} \cup {[i \in 1 .. n |-> IF i <= Len(m) THEN m[i] ELSE c] : c \in Chars}

\* shell_line_get, as the lexer reads it: buffer[0 .. size - 1].
shell_line_get == SubSeq(memory, 1, size)

----------------------------------------------------------------------------
(* What the platforms do.                                                  *)

\* The flags of a console's mode that matter: the processing of escape
\* sequences, which __shell_init adds, and one that it must leave alone.
Flags == {"vt", "wrap"}

\* External: what the program finds.  There is a console on Windows only, and
\* only POSIX lets a signal be ignored by inheritance.
PosixFound == ~found.console
WindowsFound == found.handler = "default"

\* GetConsoleMode fails without a console, and may fail with one: then the mode
\* remembered is 0, no flag, and nothing is set.  SetConsoleMode may fail too.
WindowsInit == /\ fetched => found.console
               /\ saved = IF fetched THEN found.mode ELSE {}
               /\ mode \in {found.mode} \cup (IF fetched THEN {found.mode \cup {"vt"}} ELSE {})
PosixInit == ~fetched /\ saved = {} /\ mode = found.mode

WindowsDeinit_ModeKept == UNCHANGED console
\* The mode remembered is set on any console there is; that mode is a valid one,
\* so it is assumed to be accepted.
WindowsDeinit == /\ mode' = IF found.console THEN saved ELSE mode
                 /\ UNCHANGED <<platform, found, saved, fetched>>
PosixDeinit == UNCHANGED console

\* Windows keeps nothing of the disposition, which it puts back to the default.
WindowsSignalSet == handler' = "_sigint_handler" /\ UNCHANGED old
PosixSignalSet == handler' = "_sigint_handler" /\ old' = handler

WindowsSignalClear == handler' = "default"
PosixSignalClear_ToDefault == handler' = "default"
PosixSignalClear == handler' = old

\* A signal is caught: sigaction() without SA_RESETHAND leaves the handler
\* installed; whether signal() does is left to the implementation.
WindowsCatch == handler' \in {handler, "default"}
PosixCatch == UNCHANGED handler

On(posix, windows) == \/ platform = "posix" /\ posix
                      \/ platform = "windows" /\ windows

----------------------------------------------------------------------------
(* shell.c                                                                 *)

\* What shell_init leaves of an allocated byte, and what of none: malloc(1) has
\* failed, it returns before __shell_init, and _dConsoleMode is the loader's 0.
Initialised == memory \in {<<c>> : c \in Chars} /\ On(PosixInit, WindowsInit)
NotInitialised == memory = <<>> /\ ~fetched /\ saved = {} /\ mode = found.mode

\* shell_init, and the variables that the loader sets.
ShellInit == /\ platform \in Platforms
             /\ found \in [handler : {"default", "ignored"}, console : BOOLEAN, mode : SUBSET Flags]
             /\ found.console \/ found.mode = {}
             /\ On(PosixFound, WindowsFound)
             /\ fetched \in BOOLEAN /\ saved \in SUBSET Flags /\ mode \in SUBSET Flags
             /\ Initialised \/ NotInitialised
             /\ size = 0
             /\ handler = found.handler /\ old = "default"
             /\ editing = <<>>
             /\ rline = NULL
             /\ history = <<>>
             /\ pc = "IDLE"
             /\ caught = FALSE /\ signals = 0

\* shell_readline: __shell_signal_set, then readline begins with an empty line.
SignalSet == /\ pc = "IDLE"
             /\ On(PosixSignalSet, WindowsSignalSet)
             /\ caught' = FALSE
             /\ editing' = <<>>
             /\ pc' = "EDITING"
             /\ UNCHANGED <<console, memory, size, rline, history, signals>>

\* External: the user edits the line.
Edit == /\ pc = "EDITING"
        /\ editing' \in Typed \ {editing}
        /\ UNCHANGED <<console, memory, size, signalVars, rline, history, pc>>

\* External: readline returns the line, or NULL if the input ends before it.
Readline == /\ pc = "EDITING"
            /\ rline' \in {editing} \cup (IF editing = <<>> THEN {NULL} ELSE {})
            /\ pc' = "READ"
            /\ UNCHANGED <<console, memory, size, signalVars, editing, history>>

\* __shell_signal_clear
SignalClear == /\ pc = "READ"
               /\ On(PosixSignalClear, WindowsSignalClear)
               /\ pc' = "CLEARED"
               /\ UNCHANGED <<console, memory, size, old, caught, signals, editing, rline, history>>

StoreLine_NoTerminator ==
  /\ pc = "CLEARED" /\ rline \notin {NULL, <<>>}
  /\ size' = Len(rline)
  /\ \E m \in IF Len(rline) > size THEN Realloc(memory, Len(rline)) ELSE {memory} :
       memory' = Strcpy(m, rline)
  /\ pc' = "STORED"
  /\ UNCHANGED <<console, signalVars, editing, rline, history>>
StoreLine_GrowsLate ==
  /\ pc = "CLEARED" /\ rline \notin {NULL, <<>>}
  /\ LET rsize == Len(rline) + 1 IN
       /\ size' = rsize
       /\ \E m \in IF rsize > size + 1 THEN Realloc(memory, rsize) ELSE {memory} :
            memory' = Strcpy(m, rline)
  /\ pc' = "STORED"
  /\ UNCHANGED <<console, signalVars, editing, rline, history>>
\* The rest of shell_readline for a line.  The buffer grows when the line needs
\* more than the size of the one before, which is not the number of bytes it has.
\* When realloc fails the size is that of the line all the same, and
\* shell_readline returns without a buffer.
StoreLine ==
  /\ pc = "CLEARED" /\ rline \notin {NULL, <<>>}
  /\ LET rsize == Len(rline) + 1 IN
       /\ size' = rsize
       /\ \E m \in IF rsize > size THEN Realloc(memory, rsize) ELSE {memory} :
            memory' = Strcpy(m, rline)
  /\ pc' = "STORED"
  /\ UNCHANGED <<console, signalVars, editing, rline, history>>

\* The same for an empty line or the end of input: the terminator is written
\* through the buffer, which is NULL where shell_init could not allocate it.
StoreEmpty ==
  /\ pc = "CLEARED" /\ rline \in {NULL, <<>>}
  /\ IF memory # <<>>
     THEN /\ memory' = [memory EXCEPT ![1] = Nul]
          /\ size' = 0
          /\ pc' = "STORED"
     ELSE pc' = "CRASHED" /\ UNCHANGED <<memory, size>>
  /\ UNCHANGED <<console, signalVars, editing, rline, history>>

Store == StoreLine \/ StoreEmpty

\* shell_history_add
HistoryAdd ==
  history' = IF memory[1] # Blank THEN Append(history, CString(memory)) ELSE history

\* A signal arrives: _sigint_handler empties the line being edited, the default
\* action kills the process.
Sigint ==
  /\ pc # "KILLED" /\ signals < MaxSignals
  /\ signals' = signals + 1
  /\ \/ /\ handler = "_sigint_handler"
        /\ On(PosixCatch, WindowsCatch)
        /\ editing' = <<>> /\ caught' = TRUE
        /\ UNCHANGED pc
     \/ handler = "default" /\ pc' = "KILLED" /\ UNCHANGED <<handler, editing, caught>>
     \/ handler = "ignored" /\ UNCHANGED <<handler, editing, caught, pc>>
  /\ UNCHANGED <<console, memory, size, old, rline, history>>

\* shell_deinit
ShellDeinit == /\ memory' = <<>>
               /\ On(PosixDeinit, WindowsDeinit)
               /\ UNCHANGED <<size, signalVars, editing, rline, history>>

----------------------------------------------------------------------------
(* What must hold.                                                         *)

\* The buffer always has the bytes its size speaks of, and at least one, so
\* that neither strcpy nor the empty line writes past it; size falls and rises
\* from line to line while the memory behind it only changes when size rises.
BufferFits == memory # <<>> => Len(memory) >= size /\ Len(memory) >= 1

\* What the lexer gets is what was typed: nothing for a blank line or the end
\* of input, and otherwise the line and its only terminator, whatever longer
\* line was in the buffer before; where there is no buffer it gets none.  This is
\* what LinesAssumption of Lexer asks.
LineIsTyped ==
  pc = "STORED" /\ memory # <<>> =>
    shell_line_get = IF rline \in {NULL, <<>>} THEN <<>> ELSE Append(rline, Nul)

\* Editing cannot be interrupted and commands can: while readline edits or has
\* just returned the handler is installed, on Windows until it has caught a
\* signal, and at any other time the disposition is the one the program was
\* started with.
HandlerInstalled ==
  IF pc \in {"EDITING", "READ"}
  THEN platform = "posix" \/ ~caught => handler = "_sigint_handler"
  ELSE handler = found.handler \/ pc = "KILLED"

\* A program that ends by itself has freed the line buffer and put back the
\* disposition of the signal and, where it was told the console's mode, that mode:
\* on a console whose mode it could not read, or never asked for because there was
\* no memory, shell_deinit leaves no flag set.
LeavesAsFound ==
  pc = "EXITED" => /\ memory = <<>>
                   /\ handler = found.handler
                   /\ mode = IF fetched \/ ~found.console THEN found.mode ELSE {}
=============================================================================
