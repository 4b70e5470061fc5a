------------------------------ MODULE MCParser ------------------------------
(***************************************************************************)
(* Parser with one symbol bound to a command, one bound to something else  *)
(* and one unbound, as words and as strings.                               *)
(***************************************************************************)
EXTENDS Parser, TLC

CONSTANTS Command, Variable, Unbound

MCEnv == (Command :> "a command") @@ (Variable :> "an integer")

MCTokens == [type : {"SYMBOL"}, text : {Command, Variable, Unbound}]
            \cup [type : {"STRING"}, text : {Command}]
            \cup {[type |-> "INTEGER", text |-> "a number"],
                  [type |-> "EOF", text |-> ""], [type |-> "ERROR", text |-> "a word"]}

Symmetry == Permutations(Addr)
=============================================================================
