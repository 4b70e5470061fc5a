----------------------------- MODULE MCCommands -----------------------------
(***************************************************************************)
(* Commands with the table of the program, and with every table of at most *)
(* two commands whose words are few.                                       *)
(***************************************************************************)
EXTENDS Commands, SequencesExt

Command(n, a) == [name |-> n, alias |-> a]

\* commands[] and the names and aliases of commands/*.c.
ProgramTable ==
  <<Command("help", "?"), Command("clear", NULL), Command("env", "e"), Command("echo", NULL),
    Command("dseld", NULL), Command("exec", "."), Command("upload", ">"),
    Command("download", "<"), Command("xxd", "^"), Command("quit", "q")>>

MCVariables == <<"*lwram*", "*hwram*", "*boot*">>

SmallTables ==
  {t \in BoundedSeq([name : {"a", "b", "c"}, alias : {"a", "b", "x", "", NULL}], 3) : WellNamed(t)}

MCTables == {ProgramTable} \cup SmallTables

MCWords == {"help", "?", "clear", "e", "a", "b", "x", "*boot*"}
=============================================================================
