------------------------------ MODULE Handlers ------------------------------
(***************************************************************************)
(* What main() does with a line that names a command: the test of the      *)
(* number of arguments, the handler in commands/*.c and what it asks of    *)
(* libssusb, from ssusb_init to ssusb_deinit.  The arguments are those the *)
(* parser may leave in args_obj, which holds NULL behind them.  libssusb   *)
(* and malloc are external: they succeed or fail.                          *)
(***************************************************************************)
EXTENDS Xxd

CONSTANTS
  Arguments,   \* the argument vectors, sequences of objects
  NULL

Types == {"INTEGER", "STRING", "SYMBOL"}
ASSUME ArgumentsAssumption ==
  \A a \in Arguments :
    /\ a \in Seq({a[k] : k \in 1 .. Len(a)})
    /\ \A k \in 1 .. Len(a) :
         a[k].type \in Types /\ (a[k].type = "INTEGER" => a[k].value \in Nat)

\* What libssusb may be asked.
Values == UNION {{a[k].value : k \in 1 .. Len(a)} : a \in Arguments}
Requests ==
  [fn : {"ssusb_file_upload", "ssusb_file_execute"}, path : Values, address : Values]
    \cup [fn : {"ssusb_file_download"}, path : Values, address : Values, size : Values]
    \cup [fn : {"ssusb_download"}, address : Values, size : Values]
    \cup [fn : {"ssusb_drivers_detect_select"}]
ASSUME NullAssumption == NULL \notin Requests

VARIABLES
  pc,                   \* where main() is
  device,               \* libssusb: "off", "open" or "closed"
  running, exit_code,   \* _state
  command, args,        \* the command of the line and its arguments
  status,               \* what the command, or main() for it, reported
  printed,              \* the objects echo printed
  asked                 \* history: what the command asked of libssusb

lineVars == <<command, args, status, printed, asked>>
vars == <<dumpVars, pc, device, running, exit_code, lineVars>>
rest == <<device, running, exit_code, command, args>>

\* arg_count of the commands; -1 is for any number.
arg_count == [help |-> -1, echo |-> -1, clear |-> 0, env |-> 0, dseld |-> 0, quit |-> 0,
              upload |-> 2, exec |-> 2, xxd |-> 2, download |-> 3]

argc == Len(args)

\* The tag of args_obj[k - 1]; behind the arguments there is no object.
Tag(k) == IF k <= argc THEN args[k].type ELSE "none"

\* COMMANDS_STATUS_EXPECTED_...
Expected == [INTEGER |-> "EXPECTED_INTEGER", STRING |-> "EXPECTED_STRING",
             SYMBOL |-> "EXPECTED_SYMBOL"]

----------------------------------------------------------------------------
(* How a handler ends.                                                     *)

\* commands_status_set, or nothing to report, and return to main().
Finish(s) == status' = s /\ pc' = "DONE"

\* The tags of the first arguments are tested in order: the first that is not
\* as it should be is reported, and one that is not there is read through NULL.
Refuse(types) ==
  LET k == CHOOSE k \in 1 .. Len(types) :
             Tag(k) # types[k] /\ \A l \in 1 .. k - 1 : Tag(l) = types[l]
  IN /\ IF Tag(k) = "none" THEN pc' = "CRASHED" /\ UNCHANGED status
                           ELSE Finish(Expected[types[k]])
     /\ UNCHANGED <<rest, asked, printed, dumpVars>>

Fits(types) == \A k \in 1 .. Len(types) : Tag(k) = types[k]

\* libssusb is asked and its failure reported.
Ask(call) == /\ asked' = call
             /\ \E s \in {"NONE", "ERROR"} : Finish(s)
             /\ UNCHANGED <<rest, printed, dumpVars>>

Calls(c) == pc = "CALL" /\ command = c

\* A handler that tests the number of its arguments again, and their tags.
FileHandler(c, types, call) ==
  /\ Calls(c)
  /\ IF argc # Len(types)
     THEN Finish("ARGC_MISMATCH") /\ UNCHANGED <<rest, asked, printed, dumpVars>>
     ELSE IF Fits(types) THEN Ask(call) ELSE Refuse(types)

----------------------------------------------------------------------------
(* The handlers.                                                           *)

Upload == FileHandler("upload", <<"INTEGER", "STRING">>,
            [fn |-> "ssusb_file_upload", path |-> args[2].value, address |-> args[1].value])

Exec == FileHandler("exec", <<"INTEGER", "STRING">>,
          [fn |-> "ssusb_file_execute", path |-> args[2].value, address |-> args[1].value])

Download_Swapped == FileHandler("download", <<"INTEGER", "STRING", "INTEGER">>,
                      [fn |-> "ssusb_file_download", path |-> args[2].value,
                       address |-> args[3].value, size |-> args[1].value])
Download == FileHandler("download", <<"INTEGER", "STRING", "INTEGER">>,
              [fn |-> "ssusb_file_download", path |-> args[2].value,
               address |-> args[1].value, size |-> args[3].value])

Dseld == Calls("dseld") /\ Ask([fn |-> "ssusb_drivers_detect_select"])

\* xxd leaves the number of its arguments to main().  The buffer may not be
\* had, or the download fail; otherwise it is dumped.
Xxd == /\ Calls("xxd")
       /\ IF ~Fits(<<"INTEGER", "INTEGER">>) THEN Refuse(<<"INTEGER", "INTEGER">>)
          ELSE IF args[2].value = 0
          THEN Finish("INVALID_SIZE") /\ UNCHANGED <<rest, asked, printed, dumpVars>>
          ELSE /\ UNCHANGED <<rest, printed>>
               /\ \/ Finish("INSUFFICIENT_MEMORY") /\ UNCHANGED <<asked, dumpVars>>
                  \/ /\ asked' = [fn |-> "ssusb_download", address |-> args[1].value,
                                  size |-> args[2].value]
                     /\ \/ Finish("ERROR") /\ UNCHANGED dumpVars
                        \/ /\ DumpBegin(args[2].value)
                           /\ pc' = "DUMP" /\ UNCHANGED status

XxdDump == /\ pc = "DUMP"
           /\ DumpNewRow \/ DumpByte
           /\ UNCHANGED <<pc, rest, status, printed, asked>>

XxdEnd == /\ pc = "DUMP" /\ Dumped
          /\ Finish("NONE")
          /\ UNCHANGED <<rest, printed, asked, dumpVars>>

EchoArg_SkipsSymbols ==
  /\ Calls("echo") /\ Tag(Len(printed) + 1) # "SYMBOL"
  /\ IF Tag(Len(printed) + 1) = "none" THEN pc' = "CRASHED" /\ UNCHANGED <<status, printed>>
     ELSE /\ printed' = Append(printed, args[Len(printed) + 1])
          /\ IF Len(printed') = argc THEN Finish("NONE") ELSE UNCHANGED <<pc, status>>
  /\ UNCHANGED <<rest, asked, dumpVars>>
\* A turn of echo's loop: the object is printed, then the number is tested.
EchoArg ==
  /\ Calls("echo")
  /\ IF Tag(Len(printed) + 1) = "none" THEN pc' = "CRASHED" /\ UNCHANGED <<status, printed>>
     ELSE /\ printed' = Append(printed, args[Len(printed) + 1])
          /\ IF Len(printed') = argc THEN Finish("NONE") ELSE UNCHANGED <<pc, status>>
  /\ UNCHANGED <<rest, asked, dumpVars>>

\* help lists the commands, or looks for one: Commands says which it finds.
Help == /\ Calls("help")
        /\ IF argc = 1 /\ Tag(1) = "SYMBOL"
           THEN \E s \in {"NONE", "ERROR", "EXPECTED_SYMBOL"} : Finish(s)
           ELSE Finish(CASE argc = 0 -> "NONE" [] argc = 1 -> "EXPECTED_SYMBOL"
                         [] OTHER -> "ARGC_MISMATCH")
        /\ UNCHANGED <<rest, printed, asked, dumpVars>>

\* The handlers that only draw.
Draws(c) == Calls(c) /\ Finish("NONE") /\ UNCHANGED <<rest, printed, asked, dumpVars>>
Env == Draws("env")
Clear == Draws("clear")

\* ssshell_exit(0)
Quit == /\ Calls("quit")
        /\ running' = FALSE /\ exit_code' = 0
        /\ Finish("NONE")
        /\ UNCHANGED <<device, command, args, printed, asked, dumpVars>>

----------------------------------------------------------------------------
(* main().                                                                 *)

Init == /\ pc = "START" /\ device = "off"
        /\ running = FALSE /\ exit_code = 0
        /\ command = NULL /\ args = <<>> /\ status = "NONE" /\ printed = <<>> /\ asked = NULL
        /\ NoDump

\* ssusb_init, and the end of the program when it fails.
Start == /\ pc = "START"
         /\ \/ device' = "open" /\ running' = TRUE /\ pc' = "READY" /\ UNCHANGED exit_code
            \/ device' = "closed" /\ exit_code' = 1 /\ pc' = "ENDED" /\ UNCHANGED running
         /\ UNCHANGED <<lineVars, dumpVars>>

Dispatch_NoCount(c, a) ==
  /\ pc = "READY" /\ running
  /\ command' = c /\ args' = a
  /\ pc' = "CALL"
  /\ UNCHANGED <<device, running, exit_code, status, printed, asked, dumpVars>>
\* parse() found the command c and the arguments a.
Dispatch(c, a) ==
  /\ pc = "READY" /\ running
  /\ command' = c /\ args' = a
  /\ IF arg_count[c] >= 0 /\ arg_count[c] # Len(a)
     THEN Finish("MISMATCH") ELSE pc' = "CALL" /\ UNCHANGED status
  /\ UNCHANGED <<device, running, exit_code, printed, asked, dumpVars>>

\* The loop goes on; what the last command did is forgotten.
NextLine == /\ pc = "DONE"
            /\ pc' = "READY"
            /\ command' = NULL /\ args' = <<>> /\ status' = "NONE"
            /\ printed' = <<>> /\ asked' = NULL
            /\ DumpBegin(0)
            /\ UNCHANGED <<device, running, exit_code>>

Exit_DeviceKept == /\ pc = "READY" /\ ~running
                   /\ pc' = "ENDED"
                   /\ UNCHANGED <<device, running, exit_code, lineVars, dumpVars>>
\* The loop has ended; of what follows it, ssusb_deinit.
Exit == /\ pc = "READY" /\ ~running
        /\ device' = "closed"
        /\ pc' = "ENDED"
        /\ UNCHANGED <<running, exit_code, lineVars, dumpVars>>

Handler == \/ Upload \/ Exec \/ Download \/ Dseld \/ Xxd \/ XxdDump \/ XxdEnd
           \/ EchoArg \/ Help \/ Env \/ Clear \/ Quit

Program == Start \/ Handler \/ NextLine \/ Exit

Next == Program \/ \E c \in DOMAIN arg_count, a \in Arguments : Dispatch(c, a)

Spec == Init /\ [][Next]_vars

\* A handler that is called runs.
FairSpec == Spec /\ WF_vars(Program)

----------------------------------------------------------------------------
(* What must hold.                                                         *)

\* The parameters that the .help of a command names, and the function of
\* libssusb that does what its .description says.
Param(role, type) == [role |-> role, type |-> type]
Documented ==
  [upload   |-> [fn |-> "ssusb_file_upload",
                 params |-> <<Param("address", "INTEGER"), Param("path", "STRING")>>],
   exec     |-> [fn |-> "ssusb_file_execute",
                 params |-> <<Param("address", "INTEGER"), Param("path", "STRING")>>],
   download |-> [fn |-> "ssusb_file_download",
                 params |-> <<Param("address", "INTEGER"), Param("path", "STRING"),
                              Param("size", "INTEGER")>>],
   xxd      |-> [fn |-> "ssusb_download",
                 params |-> <<Param("address", "INTEGER"), Param("size", "INTEGER")>>],
   dseld    |-> [fn |-> "ssusb_drivers_detect_select", params |-> <<>>]]

\* The line is a call of its command as help describes it.
WellCalled == LET params == Documented[command].params IN
              /\ argc = Len(params)
              /\ \A k \in 1 .. argc : args[k].type = params[k].type

\* The device is asked what the user typed and nothing else: a command calls
\* its own function of libssusb exactly if its arguments are those help names,
\* each in its own role, and if xxd has something to read and room for it.
\* Wherever the number and the types are tested, main() or the handler, a line
\* that is not such a call is refused with a report.  And echo prints its
\* arguments, all of them and in order.
CallsAsDocumented ==
  /\ asked # NULL =>
       /\ command \in DOMAIN Documented /\ WellCalled
       /\ asked.fn = Documented[command].fn
       /\ \A k \in 1 .. argc : asked[Documented[command].params[k].role] = args[k].value
  /\ pc = "DONE" /\ command \in DOMAIN Documented /\ asked = NULL =>
       /\ status # "NONE"
       /\ WellCalled => command = "xxd" /\ status \in {"INVALID_SIZE", "INSUFFICIENT_MEMORY"}
  /\ pc = "DONE" /\ command = "echo" => printed = args

\* Every argument a command reads is there, although xxd and echo never look
\* at their number before they read and main() lets echo have any: only echo
\* without arguments reads behind them.
ArgumentsReadExist == pc = "CRASHED" => command = "echo" /\ argc = 0

\* What ssshell.c:91 says, "If the argument count is -1, it's variadic": a
\* command of that count takes any number of arguments, none included.
VariadicTakesAny == pc = "CRASHED" => arg_count[command] >= 0

\* libssusb is asked between ssusb_init and ssusb_deinit only, and on both
\* returns of main() it has been given back; when ssusb_init fails the program
\* ends with an error and runs no command.  A program that crashes in a handler
\* or is killed gives nothing back.
DeviceReleased ==
  /\ asked # NULL => device = "open"
  /\ pc = "ENDED" => device = "closed"
  /\ exit_code # 0 => pc = "ENDED" /\ ~running

\* A command that is called returns to main(), whatever it was called with:
\* the loops of echo and xxd end, and before they have read behind the
\* arguments.  Only echo without arguments does not return.
HandlerReturns == pc = "CALL" /\ ~(command = "echo" /\ argc = 0) ~> pc = "DONE"
=============================================================================
