------------------------------ MODULE Ssshell ------------------------------
(***************************************************************************)
(* The main loop of ssshell.c around the shell: read a line, parse it, run *)
(* the command and remember the line, until a command has called           *)
(* ssshell_exit.  What parse() makes of a line is a function of the line   *)
(* (FrontEnd shows that it is); what a command does besides is left to     *)
(* Commands.                                                               *)
(***************************************************************************)
EXTENDS Shell

CONSTANTS
  Meaning,     \* of each non-empty line: what parse() returns and, after OK,
               \* the kind of the value its first word is bound to
  MaxReads     \* lines read in one behaviour (a bound of the model)

Failures == {"SYNTAX_ERROR", "UNDEFINED_SYMBOL", "EXPECTED_SYMBOL", "EXCEEDED_ARGS_COUNT"}
\* A command that runs, one called with the wrong number of arguments, quit,
\* and a symbol that is not bound to a command.
Accepted == {"command", "mismatch", "quit", "not a command"}

ASSUME MeaningAssumption ==
  Meaning \in [Typed \ {<<>>} -> {"EOF"} \cup Failures \cup Accepted]
ASSUME MaxReadsAssumption == MaxReads \in Nat

VARIABLES
  running, exit_code,   \* _state
  meaning,              \* what parse() made of the line, "NONE" before it
  ran,                  \* history: the lines that named a command
  reads                 \* lines read so far; bounded by MaxReads

mainVars == <<running, exit_code, meaning, ran, reads>>
vars == <<shellVars, mainVars>>

----------------------------------------------------------------------------

Init == /\ ShellInit
        /\ running = TRUE
        /\ exit_code = 0
        /\ meaning = "NONE"
        /\ ran = <<>>
        /\ reads = 0

Loop_NotChecked ==
  /\ reads < MaxReads
  /\ SignalSet
  /\ reads' = reads + 1
  /\ meaning' = "NONE"
  /\ UNCHANGED <<running, exit_code, ran>>
\* The loop's condition, then shell_readline.
Loop == /\ running /\ reads < MaxReads
        /\ SignalSet
        /\ reads' = reads + 1
        /\ meaning' = "NONE"
        /\ UNCHANGED <<running, exit_code, ran>>

\* parse(parser, shell_line_get())
Parse == /\ pc = "STORED" /\ meaning = "NONE" /\ memory # <<>>
         /\ meaning' = IF size = 0 THEN "EOF" ELSE Meaning[CString(shell_line_get)]
         /\ UNCHANGED <<shellVars, running, exit_code, ran, reads>>

\* The lexer reads a line that has a size and no buffer.
Crash == /\ pc = "STORED" /\ memory = <<>>
         /\ pc' = "CRASHED"
         /\ UNCHANGED <<console, memory, size, signalVars, editing, rline, history, mainVars>>

\* An empty line or an error: back to the loop.
Skip == /\ pc = "STORED" /\ meaning \in {"EOF", "not a command"} \cup Failures
        /\ pc' = "IDLE"
        /\ UNCHANGED <<console, memory, size, signalVars, editing, rline, history, mainVars>>

\* The line names a command, which is run unless the number of arguments is
\* wrong.  quit calls ssshell_exit(0).
Run == /\ pc = "STORED" /\ meaning \in {"command", "mismatch", "quit"}
       /\ running' = (running /\ meaning # "quit")
       /\ exit_code' = IF meaning = "quit" THEN 0 ELSE exit_code
       /\ ran' = Append(ran, rline)
       /\ pc' = "RAN"
       /\ UNCHANGED <<console, memory, size, signalVars, editing, rline, history, meaning, reads>>

Remember_OnlyIfRun ==
  /\ pc = "RAN"
  /\ IF meaning = "mismatch" THEN UNCHANGED history ELSE HistoryAdd
  /\ pc' = "IDLE"
  /\ UNCHANGED <<console, memory, size, signalVars, editing, rline, mainVars>>
\* shell_history_add(&line), whether the command was run or not.
Remember == /\ pc = "RAN"
            /\ HistoryAdd
            /\ pc' = "IDLE"
            /\ UNCHANGED <<console, memory, size, signalVars, editing, rline, mainVars>>

\* The loop has ended: shell_deinit and the rest of main().
Exit == /\ pc = "IDLE" /\ ~running
        /\ pc' = "EXITED"
        /\ ShellDeinit
        /\ UNCHANGED mainVars

Interrupt == pc \notin {"EXITED", "CRASHED"} /\ Sigint /\ UNCHANGED mainVars
User == (Edit \/ Readline) /\ UNCHANGED mainVars
Program == \/ Loop
           \/ (SignalClear \/ Store) /\ UNCHANGED mainVars
           \/ Parse \/ Crash \/ Skip \/ Run \/ Remember \/ Exit

Next == Program \/ User \/ Interrupt

Spec == Init /\ [][Next]_vars

\* The program runs; the user and the signals come when they come.
FairSpec == Spec /\ WF_vars(Program)

----------------------------------------------------------------------------
(* What must hold.                                                         *)

\* The history is made of those of the first n lines that named a command which
\* do not begin with a blank.
Remembered(n) ==
  \E line \in [1 .. Len(history) -> 1 .. n] :
    /\ \A i, j \in 1 .. Len(history) : i < j => line[i] < line[j]
    /\ {line[i] : i \in 1 .. Len(history)} = {k \in 1 .. n : ran[k][1] # Blank}
    /\ \A i \in 1 .. Len(history) : history[i] = ran[line[i]]

\* The history holds the lines that named a command, in order and as they were
\* typed, but for those that begin with a blank: the line is remembered after
\* its command has run, and the buffer it is remembered from is still the one
\* it was read into.  Only the last one is missing while its command runs, or
\* when a signal has killed it.  A line for which there was no memory is neither
\* run nor remembered.
HistoryOfCommands ==
  \/ Remembered(Len(ran))
  \/ pc \in {"RAN", "KILLED"} /\ Remembered(Len(ran) - 1)

\* Once quit has run the program exits, unless a signal kills it first.
QuitExits == ~running ~> pc \in {"EXITED", "KILLED"}
=============================================================================
