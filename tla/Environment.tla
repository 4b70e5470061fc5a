---------------------------- MODULE Environment ----------------------------
(***************************************************************************)
(* The environment of env.c: a tail queue of sys/queue.h whose entries own *)
(* a copy of their symbol.  The pointers are modelled: an entry is an      *)
(* address, tqh_last and tqe_prev point to a pointer, and each step of a   *)
(* loop over the queue is a step of its own.                               *)
(***************************************************************************)
EXTENDS Integers, Sequences

CONSTANTS
  Symbols, Values,
  Addr,        \* where malloc may place an entry
  NULL,
  HEAD,        \* the address of the queue's head
  MaxCalls     \* operations called in one behaviour (a bound of the model)

ASSUME NullAssumption == NULL \notin Addr /\ HEAD \notin Addr
ASSUME PairsAssumption == NULL \notin [symbol : Symbols, value : Values]
ASSUME MaxCallsAssumption == MaxCalls \in Nat

VARIABLES
  tqh_first,   \* _environment.tqh_first
  tqh_last,    \* what _environment.tqh_last points to: the tqh_first of HEAD,
               \* or the tqe_next of an entry
  tqe_next,    \* of every entry
  tqe_prev,    \* what it points to, as tqh_last
  env_pair,    \* of every entry; NULL where no entry is allocated
  call,        \* the operation running, or None, or Over after env_deinit
  env_np,      \* its loop variable
  next,        \* the local variable of env_deinit, NULL outside of a turn
  turn,        \* where env_deinit is in a turn of its loop, "loop" anywhere else
  seen,        \* the pairs env_traverse has handed out or env_get has found
  list,        \* history: the entries in the order in which they were made
  calls        \* operations called so far; bounded by MaxCalls

queue == <<tqh_first, tqh_last, tqe_next, tqe_prev, env_pair>>
turnVars == <<next, turn>>
vars == <<queue, call, env_np, turnVars, seen, list, calls>>

Pair(s, v) == [symbol |-> s, value |-> v]
Pairs == [symbol : Symbols, value : Values]

None == [op |-> "none"]
Over == [op |-> "over"]
PutCall(s, v) == [op |-> "put", symbol |-> s, value |-> v]
GetCall(s) == [op |-> "get", symbol |-> s]
TraverseCall == [op |-> "traverse"]
DeinitCall == [op |-> "deinit"]
Calls == {PutCall(s, v) : s \in Symbols, v \in Values} \cup {GetCall(s) : s \in Symbols}
         \cup {TraverseCall, DeinitCall}

----------------------------------------------------------------------------

\* env_init.  What memory held before it is allocated is arbitrary.
Init == /\ tqh_first = NULL
        /\ tqh_last = HEAD
        /\ tqe_next \in [Addr -> Addr \cup {NULL}]
        /\ tqe_prev = [a \in Addr |-> NULL]
        /\ env_pair = [a \in Addr |-> NULL]
        /\ call = None
        /\ env_np = NULL
        /\ next = NULL /\ turn = "loop"
        /\ seen = <<>>
        /\ list = <<>>
        /\ calls = 0

\* env_put, env_get, env_traverse or env_deinit is called; each of them begins
\* at the head of the queue.
Call(c) ==
  /\ call = None /\ calls < MaxCalls
  /\ call' = c
  /\ calls' = calls + 1
  /\ env_np' = tqh_first
  /\ seen' = <<>>
  /\ UNCHANGED <<queue, turnVars, list>>

Return == call' = None /\ env_np' = NULL /\ UNCHANGED <<turnVars, calls>>

Finding == call.op \in {"put", "get"}
Here == env_pair[env_np].symbol = call.symbol

Find_FromTheHead ==
  /\ Finding /\ env_np # NULL /\ ~Here
  /\ env_np' = tqe_next[tqh_first]
  /\ UNCHANGED <<queue, call, turnVars, seen, list, calls>>
\* _env_entry_get, one entry further.
Find ==
  /\ Finding /\ env_np # NULL /\ ~Here
  /\ env_np' = tqe_next[env_np]
  /\ UNCHANGED <<queue, call, turnVars, seen, list, calls>>

\* env_put of a symbol that is bound.
PutFound ==
  /\ call.op = "put" /\ env_np # NULL /\ Here
  /\ env_pair' = [env_pair EXCEPT ![env_np].value = call.value]
  /\ Return
  /\ UNCHANGED <<tqh_first, tqh_last, tqe_next, tqe_prev, seen, list>>

InsertTail_LastKept(a) ==
  /\ tqe_prev' = [tqe_prev EXCEPT ![a] = tqh_last]
  /\ tqe_next' = [b \in Addr |-> IF b = a THEN NULL
                                 ELSE IF b = tqh_last THEN a ELSE tqe_next[b]]
  /\ tqh_first' = IF tqh_last = HEAD THEN a ELSE tqh_first
  /\ UNCHANGED tqh_last
\* TAILQ_INSERT_TAIL: *tqh_last = a writes the head or the last entry.
InsertTail(a) ==
  /\ tqe_prev' = [tqe_prev EXCEPT ![a] = tqh_last]
  /\ tqe_next' = [b \in Addr |-> IF b = a THEN NULL
                                 ELSE IF b = tqh_last THEN a ELSE tqe_next[b]]
  /\ tqh_first' = IF tqh_last = HEAD THEN a ELSE tqh_first
  /\ tqh_last' = a

PutNew_NoLookup ==
  /\ call.op = "put"
  /\ \E a \in {b \in Addr : env_pair[b] = NULL} :
       /\ env_pair' = [env_pair EXCEPT ![a] = Pair(call.symbol, call.value)]
       /\ InsertTail(a)
       /\ list' = Append(list, a)
  /\ Return
  /\ UNCHANGED seen
PutNew_NoValue ==
  /\ call.op = "put" /\ env_np = NULL
  /\ \E a \in {b \in Addr : env_pair[b] = NULL} :
       /\ env_pair' = [env_pair EXCEPT ![a] = Pair(call.symbol, NULL)]
       /\ InsertTail(a)
       /\ list' = Append(list, a)
  /\ Return
  /\ UNCHANGED seen
\* env_put of a symbol that is not.
PutNew ==
  /\ call.op = "put" /\ env_np = NULL
  /\ \E a \in {b \in Addr : env_pair[b] = NULL} :
       /\ env_pair' = [env_pair EXCEPT ![a] = Pair(call.symbol, call.value)]
       /\ InsertTail(a)
       /\ list' = Append(list, a)
  /\ Return
  /\ UNCHANGED seen

GetFound_NotCopied ==
  /\ call.op = "get" /\ env_np # NULL /\ Here
  /\ seen' = <<Pair(call.symbol, NULL)>>
  /\ Return
  /\ UNCHANGED <<queue, list>>
\* env_get; when the symbol is not bound the pair is the caller's string and
\* NULL.
GetFound ==
  /\ call.op = "get" /\ env_np # NULL /\ Here
  /\ seen' = <<env_pair[env_np]>>
  /\ Return
  /\ UNCHANGED <<queue, list>>

GetMissing ==
  /\ call.op = "get" /\ env_np = NULL
  /\ seen' = <<Pair(call.symbol, NULL)>>
  /\ Return
  /\ UNCHANGED <<queue, list>>

\* env_traverse calls func for an entry.
Visit ==
  /\ call.op = "traverse" /\ env_np # NULL
  /\ seen' = Append(seen, env_pair[env_np])
  /\ env_np' = tqe_next[env_np]
  /\ UNCHANGED <<queue, call, turnVars, list, calls>>

TraverseEnd ==
  /\ call.op = "traverse" /\ env_np = NULL
  /\ Return
  /\ UNCHANGED <<queue, seen, list>>

\* A turn of env_deinit's loop: it reads the next pointer ...
FreeRead ==
  /\ call.op = "deinit" /\ env_np # NULL /\ turn = "loop"
  /\ next' = tqe_next[env_np]
  /\ turn' = "read"
  /\ UNCHANGED <<queue, call, env_np, seen, list, calls>>

\* ... frees the entry, whose bytes are anyone's from then on (tqe_next is the one
\* that a loop would read) ...
FreeEntry ==
  /\ turn = "read"
  /\ env_pair' = [env_pair EXCEPT ![env_np] = NULL]
  /\ \E b \in Addr \cup {NULL} : tqe_next' = [tqe_next EXCEPT ![env_np] = b]
  /\ turn' = "freed"
  /\ UNCHANGED <<tqh_first, tqh_last, tqe_prev, call, env_np, next, seen, list, calls>>

FreeNext_ReadLate ==
  /\ turn = "freed"
  /\ env_np' = tqe_next[env_np] /\ next' = NULL
  /\ turn' = "loop"
  /\ UNCHANGED <<queue, call, seen, list, calls>>
\* ... and goes on to the one it has read.
FreeNext ==
  /\ turn = "freed"
  /\ env_np' = next /\ next' = NULL
  /\ turn' = "loop"
  /\ UNCHANGED <<queue, call, seen, list, calls>>

\* The head is not reset: the environment cannot be used again.
DeinitEnd ==
  /\ call.op = "deinit" /\ env_np = NULL
  /\ call' = Over
  /\ UNCHANGED <<queue, env_np, turnVars, seen, list, calls>>

Step == \/ Find \/ PutFound \/ PutNew \/ GetFound \/ GetMissing
        \/ Visit \/ TraverseEnd \/ FreeRead \/ FreeEntry \/ FreeNext \/ DeinitEnd

Next == Step \/ \E c \in Calls : Call(c)

Spec == Init /\ [][Next]_vars

\* The operations are function calls: once called, they run.
FairSpec == Spec /\ WF_vars(Step)

----------------------------------------------------------------------------
(* What must hold.                                                         *)

Live == {a \in Addr : env_pair[a] # NULL}
Listed == {list[i] : i \in 1 .. Len(list)}
Ending == call.op \in {"deinit", "over"}

TypeOK ==
  /\ tqh_first \in Addr \cup {NULL}
  /\ tqh_last \in Addr \cup {HEAD}
  /\ tqe_next \in [Addr -> Addr \cup {NULL}]
  /\ tqe_prev \in [Addr -> Addr \cup {NULL, HEAD}]
  /\ env_pair \in [Addr -> Pairs \cup {NULL}]
  /\ call \in Calls \cup {None, Over}
  /\ env_np \in Addr \cup {NULL}
  /\ next \in Addr \cup {NULL} /\ turn \in {"loop", "read", "freed"}
  /\ seen \in Seq(Pairs \cup [symbol : Symbols, value : {NULL}])
  /\ list \in Seq(Addr)
  /\ calls \in 0 .. MaxCalls

\* The pointers are a queue of the entries made, in order: following tqe_next
\* from the head reaches each of them once and then NULL, tqh_last points to
\* the pointer that is NULL and each tqe_prev to the pointer before; of the
\* entries that env_deinit has freed nothing is said.
QueueLinked ==
  LET n == Len(list) IN
  /\ \A i, j \in 1 .. n : list[i] = list[j] => i = j
  /\ tqh_first = IF n = 0 THEN NULL ELSE list[1]
  /\ tqh_last = IF n = 0 THEN HEAD ELSE list[n]
  /\ \A i \in 1 .. n : list[i] \in Live =>
       /\ tqe_next[list[i]] = IF i = n THEN NULL ELSE list[i + 1]
       /\ tqe_prev[list[i]] = IF i = 1 THEN HEAD ELSE list[i - 1]

\* Until env_deinit every entry of the queue is allocated and every allocated
\* entry is in the queue; env_deinit has freed all of them when it returns, and
\* no loop stands on a freed entry, but env_deinit between freeing it and going
\* on to the next, which it must know by then.
EntriesOwned ==
  /\ ~Ending => Live = Listed
  /\ call = Over => Live = {}
  /\ env_np # NULL /\ turn # "freed" => env_np \in Live

\* At most one entry has a given symbol, so it does not matter that a search
\* stops at the first.
SymbolsUnique ==
  \A a, b \in Live : env_pair[a].symbol = env_pair[b].symbol => a = b

\* Every operation returns: the queue has no cycle.
CallReturns == call # None ~> call \in {None, Over}

\* The queue is the list of bindings of EnvMap; an operation takes effect when
\* it returns, env_deinit when it is called.
Abstract ==
  INSTANCE EnvMap
    WITH entries <- IF Ending THEN <<>> ELSE [i \in 1 .. Len(list) |-> env_pair[list[i]]],
         answer  <- IF call = None THEN seen ELSE <<>>

ImplementsEnvMap == Abstract!Spec
=============================================================================
