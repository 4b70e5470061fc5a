---------------------------- MODULE MCHandlers ----------------------------
(***************************************************************************)
(* Handlers on every argument vector of at most MaxArgs objects: integers  *)
(* up to MaxSize, which as the size of a dump ends it in every column of a *)
(* row, a string and a symbol.                                             *)
(***************************************************************************)
EXTENDS Handlers, SequencesExt

CONSTANTS MaxArgs, MaxSize, Path, Name

Obj(t, v) == [type |-> t, value |-> v]
Objects == {Obj("INTEGER", n) : n \in 0 .. MaxSize}
             \cup {Obj("STRING", Path), Obj("SYMBOL", Name)}
MCArguments == BoundedSeq(Objects, MaxArgs)
============================================================================
