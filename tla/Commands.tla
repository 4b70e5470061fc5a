------------------------------ MODULE Commands ------------------------------
(***************************************************************************)
(* The command table of commands.c and what main() makes of it: an object  *)
(* per command, put in the environment under its name and under its alias, *)
(* an integer object per variable, the lookups while the shell runs, and   *)
(* the end of the program, where the objects are deleted through the       *)
(* environment.  The environment is the one EnvMap promises.               *)
(***************************************************************************)
EXTENDS Integers, Sequences

CONSTANTS
  Tables,     \* the tables, each a sequence of records with a name and an alias
  Variables,  \* the symbols main() puts after the commands, in order
  Words,      \* what a user may type
  NULL

\* The words of a table, each with the place it has there.  An alias that is
\* NULL or empty is none.
Labels(t) == {l \in (1 .. Len(t)) \X {"name", "alias"} : t[l[1]][l[2]] \notin {NULL, ""}}
Word(t, l) == t[l[1]][l[2]]

\* What the code asks of commands[] without saying so: no word stands for two
\* commands, or for a command and a variable, and every command has a name.
WellNamed(t) ==
  /\ \A l, m \in Labels(t) : Word(t, l) = Word(t, m) => l = m
  /\ \A l \in Labels(t) : \A i \in 1 .. Len(Variables) : Word(t, l) # Variables[i]
  /\ \A k \in 1 .. Len(t) : <<k, "name">> \in Labels(t)

ASSUME TablesAssumption == \A t \in Tables : Len(t) \in Nat /\ WellNamed(t)
ASSUME VariablesAssumption ==
  /\ Len(Variables) \in Nat
  /\ \A j, k \in 1 .. Len(Variables) : Variables[j] = Variables[k] => j = k
ASSUME NullAssumption == NULL \notin Nat

VARIABLES
  table,            \* commands[]
  entries, answer,  \* the environment; a value is the number of an object
  heap,             \* the objects made, each with the times it was deleted
  i,                \* the loop variable of commands_init, main and commands_deinit
  pc,               \* where the program is
  last              \* history: the last lookup, its word and the command it found

vars == <<table, entries, answer, heap, i, pc, last>>
rest == <<table, last>>

Environment == INSTANCE EnvMap WITH Symbols <- Words, Values <- Nat

NoCommand == 0
NoLookup == [op |-> "none", word |-> NULL, found |-> NoCommand]

Object(type, k) == [type |-> type, command |-> k, deletes |-> 0]

----------------------------------------------------------------------------
(* The beginning of the program.                                           *)

Init == /\ table \in Tables
        /\ Environment!Init
        /\ heap = <<>>
        /\ i = 1
        /\ pc = "NEW"
        /\ last = NoLookup

\* commands_init: object_new.
ObjectNew ==
  /\ pc = "NEW" /\ i <= Len(table)
  /\ heap' = Append(heap, Object("COMMAND", i))
  /\ pc' = "NAME"
  /\ UNCHANGED <<entries, answer, i, rest>>

PutName ==
  /\ pc = "NAME"
  /\ Environment!Put(table[i].name, Len(heap))
  /\ pc' = "ALIAS"
  /\ UNCHANGED <<heap, i, rest>>

PutAlias_OwnObject ==
  /\ pc = "ALIAS"
  /\ IF table[i].alias \notin {NULL, ""}
     THEN /\ heap' = Append(heap, Object("COMMAND", i))
          /\ Environment!Put(table[i].alias, Len(heap) + 1)
     ELSE UNCHANGED <<entries, answer, heap>>
  /\ i' = i + 1
  /\ pc' = "NEW"
  /\ UNCHANGED rest
PutAlias_NextCommand ==
  /\ pc = "ALIAS"
  /\ IF i < Len(table) /\ table[i + 1].alias \notin {NULL, ""}
     THEN Environment!Put(table[i + 1].alias, Len(heap))
     ELSE UNCHANGED <<entries, answer>>
  /\ i' = i + 1
  /\ pc' = "NEW"
  /\ UNCHANGED <<heap, rest>>
\* The alias is bound to the object of the name.
PutAlias ==
  /\ pc = "ALIAS"
  /\ IF table[i].alias \notin {NULL, ""} THEN Environment!Put(table[i].alias, Len(heap))
                                         ELSE UNCHANGED <<entries, answer>>
  /\ i' = i + 1
  /\ pc' = "NEW"
  /\ UNCHANGED <<heap, rest>>

CommandsInitEnd == /\ pc = "NEW" /\ i > Len(table)
                   /\ pc' = "VARIABLES" /\ i' = 1
                   /\ UNCHANGED <<entries, answer, heap, rest>>

\* main(): env_put(variable, object_integer_new(...))
PutVariable ==
  /\ pc = "VARIABLES" /\ i <= Len(Variables)
  /\ heap' = Append(heap, Object("INTEGER", NoCommand))
  /\ Environment!Put(Variables[i], Len(heap) + 1)
  /\ i' = i + 1
  /\ UNCHANGED <<pc, rest>>

Ready == /\ pc = "VARIABLES" /\ i > Len(Variables)
         /\ pc' = "READY"
         /\ UNCHANGED <<entries, answer, heap, i, rest>>

----------------------------------------------------------------------------
(* Lookups.                                                                *)

\* The command of the object w is bound to, if it is a command's.
Bound(w) == LET p == Environment!Place(w)
            IN IF p # 0 /\ heap[entries[p].value].type = "COMMAND"
               THEN heap[entries[p].value].command ELSE NoCommand

\* commands_find: the first command of that name.
commands_find(w) ==
  IF \E k \in 1 .. Len(table) : table[k].name = w
  THEN CHOOSE k \in 1 .. Len(table) : table[k].name = w /\ \A l \in 1 .. k - 1 : table[l].name # w
  ELSE NoCommand

\* A line that begins with w: parse() and the dispatch in main().
Run(w) ==
  /\ pc = "READY"
  /\ Environment!Get(w)
  /\ last' = [op |-> "run", word |-> w, found |-> Bound(w)]
  /\ UNCHANGED <<table, heap, i, pc>>

Help_NoAlias(w) ==
  /\ pc = "READY"
  /\ UNCHANGED <<entries, answer>>
  /\ last' = [op |-> "help", word |-> w, found |-> commands_find(w)]
  /\ UNCHANGED <<table, heap, i, pc>>
\* help w: the table first, then the environment, for w may be an alias.
Help(w) ==
  /\ pc = "READY"
  /\ IF commands_find(w) # NoCommand THEN UNCHANGED <<entries, answer>>
                                     ELSE Environment!Get(w)
  /\ last' = [op |-> "help", word |-> w,
              found |-> IF commands_find(w) # NoCommand THEN commands_find(w) ELSE Bound(w)]
  /\ UNCHANGED <<table, heap, i, pc>>

----------------------------------------------------------------------------
(* The end of the program.                                                 *)

Quit == /\ pc = "READY"
        /\ pc' = "DEINIT" /\ i' = 1
        /\ UNCHANGED <<entries, answer, heap, rest>>

\* commands_deinit: env_get of the name.
DeinitGet ==
  /\ pc = "DEINIT" /\ i <= Len(table)
  /\ Environment!Get(table[i].name)
  /\ pc' = "DELETE"
  /\ UNCHANGED <<heap, i, rest>>

Deleted(v) == [heap EXCEPT ![v].deletes = @ + 1]

DeinitDelete_AliasToo ==
  /\ pc = "DELETE"
  /\ heap' = [heap EXCEPT ![answer[1].value].deletes =
                IF table[i].alias \notin {NULL, ""} THEN @ + 2 ELSE @ + 1]
  /\ i' = i + 1
  /\ pc' = "DEINIT"
  /\ UNCHANGED <<entries, answer, rest>>
\* object_delete of the value found; the entry keeps pointing to it.
DeinitDelete ==
  /\ pc = "DELETE"
  /\ heap' = IF answer[1].value # NULL THEN Deleted(answer[1].value) ELSE heap
  /\ i' = i + 1
  /\ pc' = "DEINIT"
  /\ UNCHANGED <<entries, answer, rest>>

\* env_deinit frees the entries and none of the values.
EnvDeinit ==
  /\ pc = "DEINIT" /\ i > Len(table)
  /\ Environment!Deinit
  /\ pc' = "ENDED"
  /\ UNCHANGED <<heap, i, rest>>

Next == \/ ObjectNew \/ PutName \/ PutAlias \/ CommandsInitEnd \/ PutVariable \/ Ready
        \/ \E w \in Words : Run(w) \/ Help(w)
        \/ Quit \/ DeinitGet \/ DeinitDelete \/ EnvDeinit

Spec == Init /\ [][Next]_vars

----------------------------------------------------------------------------
(* What must hold.                                                         *)

\* While the shell runs, each command is reached by its name and by its alias
\* and by no other word: no entry has been overwritten by a later one.
WordsReachCommands ==
  pc = "READY" =>
    \A w \in Words \cup {Word(table, l) : l \in Labels(table)} :
      Bound(w) = IF \E l \in Labels(table) : Word(table, l) = w
                 THEN (CHOOSE l \in Labels(table) : Word(table, l) = w)[1]
                 ELSE NoCommand

\* help speaks of the command that typing the same word would run, although it
\* searches the table before the environment and main() only the environment.
HelpAgrees == pc = "READY" /\ last.op = "help" => last.found = Bound(last.word)

\* No object is deleted twice, although the alias of a command is bound to the
\* same object as its name, and what is deleted is the command's own object.
DeletedOnce ==
  /\ \A v \in 1 .. Len(heap) : heap[v].deletes <= 1
  /\ pc = "DELETE" => heap[answer[1].value].command = i

\* When the program ends every object of a command has been deleted; those of
\* the variables, and no other, are left.
OnlyVariablesLeft ==
  pc = "ENDED" => \A v \in 1 .. Len(heap) : heap[v].deletes = 0 <=> heap[v].type = "INTEGER"
=============================================================================
