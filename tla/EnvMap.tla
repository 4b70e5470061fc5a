------------------------------- MODULE EnvMap -------------------------------
(***************************************************************************)
(* What the environment promises: a list of bindings in the order in which *)
(* the symbols were first put, with at most one binding per symbol.  Every *)
(* operation is one step.                                                  *)
(***************************************************************************)
EXTENDS Integers, Sequences

CONSTANTS Symbols, Values, NULL

VARIABLES entries,   \* the bindings, a sequence of [symbol, value]
          answer     \* what the last operation returned

vars == <<entries, answer>>

Pair(s, v) == [symbol |-> s, value |-> v]

\* The place of s, 0 when it is not bound.
Place(s) == IF \E i \in 1 .. Len(entries) : entries[i].symbol = s
            THEN CHOOSE i \in 1 .. Len(entries) : entries[i].symbol = s ELSE 0

Init == entries = <<>> /\ answer = <<>>

\* An operation is called: the answer of the previous one is gone.
Call == answer' = <<>> /\ UNCHANGED entries

\* A symbol that is bound keeps its place.
Put(s, v) ==
  /\ entries' = IF Place(s) = 0 THEN Append(entries, Pair(s, v))
                                ELSE [entries EXCEPT ![Place(s)] = Pair(s, v)]
  /\ answer' = <<>>

\* The answer for an unbound symbol is the symbol itself and no value.
Get(s) ==
  /\ answer' = <<IF Place(s) = 0 THEN Pair(s, NULL) ELSE entries[Place(s)]>>
  /\ UNCHANGED entries

Traverse == answer' = entries /\ UNCHANGED entries

Deinit == entries' = <<>> /\ answer' = <<>>

Next == \/ Call
        \/ \E s \in Symbols : Get(s) \/ \E v \in Values : Put(s, v)
        \/ Traverse
        \/ Deinit

Spec == Init /\ [][Next]_vars
=============================================================================
