------------------------- MODULE EnvironmentProofs -------------------------
(***************************************************************************)
(* The environment for any symbols and values, any number of entries and   *)
(* of calls.  The inductive invariant IInv adds to the invariants of the   *)
(* run where the loop variable stands in the queue, and what that says of  *)
(* the entries behind it: a search has not found its symbol in them,       *)
(* env_deinit has freed them.                                              *)
(***************************************************************************)
EXTENDS Environment, SequenceTheorems, TLAPS

----------------------------------------------------------------------------

\* The loop variable has passed the entry in place k.
Passed(k) == env_np = NULL \/ \E j \in k + 1 .. Len(list) : list[j] = env_np

\* The loop variable stands on an entry of the queue while an operation runs.
OnTheQueue == /\ env_np # NULL => env_np \in Listed
              /\ call \in {None, Over} => env_np = NULL

\* The symbol that is searched is in no entry that has been passed.
NotFoundYet ==
  Finding => \A k \in 1 .. Len(list) : Passed(k) => env_pair[list[k]].symbol # call.symbol

\* env_deinit has freed the entries it has passed, and no other but the one on
\* which it stands when it has freed that.
FreedSoFar ==
  Ending => /\ Live \subseteq Listed
            /\ \A k \in 1 .. Len(list) :
                 list[k] \in Live <=> ~Passed(k) /\ ~(turn = "freed" /\ list[k] = env_np)

\* The entry behind the one in place p.
Follower(p) == IF p = Len(list) THEN NULL ELSE list[p + 1]

\* Inside a turn env_deinit knows the entry it goes on to.
NextKnown ==
  turn # "loop" => /\ call.op = "deinit" /\ env_np # NULL
                   /\ \E p \in 1 .. Len(list) : list[p] = env_np /\ next = Follower(p)

IInv == /\ TypeOK /\ QueueLinked
        /\ ~Ending => Live = Listed
        /\ SymbolsUnique
        /\ OnTheQueue /\ NotFoundYet /\ FreedSoFar /\ NextKnown

LEMMA OwnedOfInv == IInv => EntriesOwned
<1> SUFFICES ASSUME IInv PROVE EntriesOwned
  OBVIOUS
<1>1. ASSUME call = Over PROVE Live = {}
  <2>1. Ending /\ env_np = NULL
    BY <1>1 DEF Ending, Over, IInv, OnTheQueue
  <2>2. \A k \in 1 .. Len(list) : list[k] \notin Live
    BY <2>1 DEF IInv, FreedSoFar, Passed
  <2>3. Live \subseteq Listed
    BY <2>1 DEF IInv, FreedSoFar
  <2>4. QED
    BY <2>2, <2>3 DEF Listed
<1>2. ASSUME env_np # NULL, turn # "freed" PROVE env_np \in Live
  <2>1. PICK p \in 1 .. Len(list) : list[p] = env_np
    BY <1>2 DEF IInv, OnTheQueue, Listed
  <2>2. CASE ~Ending
    BY <2>1, <2>2 DEF IInv, Listed
  <2>3. CASE Ending
    <3>1. ~Passed(p)
      BY <1>2, <2>1 DEF Passed, IInv, QueueLinked, TypeOK
    <3>2. QED
      BY <1>2, <2>1, <2>3, <3>1 DEF IInv, FreedSoFar
  <2>4. QED
    BY <2>2, <2>3
<1>3. QED
  BY <1>1, <1>2 DEF IInv, EntriesOwned

----------------------------------------------------------------------------
(* The loop variable.                                                      *)

\* At the head of the queue no entry has been passed.
LEMMA AtTheHead ==
  ASSUME TypeOK, QueueLinked, env_np' = tqh_first, list' = list
  PROVE  /\ env_np' # NULL => env_np' \in Listed'
         /\ \A k \in 1 .. Len(list) : ~Passed(k)'
<1>1. list \in Seq(Addr) /\ Len(list) \in Nat
  BY DEF TypeOK
<1>2. CASE Len(list) = 0
  BY <1>1, <1>2 DEF QueueLinked
<1>3. CASE Len(list) # 0
  <2>1. env_np' = list[1] /\ list[1] \in Addr /\ 1 \in 1 .. Len(list)
    BY <1>1, <1>3 DEF QueueLinked
  <2>2. env_np' # NULL /\ env_np' \in Listed'
    BY <2>1, NullAssumption DEF Listed
  <2>3. \A k \in 1 .. Len(list) : ~Passed(k)'
    BY <1>1, <2>1, <2>2 DEF Passed, QueueLinked
  <2>4. QED
    BY <2>2, <2>3
<1>4. QED
  BY <1>2, <1>3

\* One entry further, that entry has been passed too.
LEMMA OneFurther ==
  ASSUME TypeOK, QueueLinked, NEW p \in 1 .. Len(list), list[p] = env_np,
         env_np' = Follower(p), list' = list
  PROVE  /\ env_np' # NULL => env_np' \in Listed'
         /\ \A k \in 1 .. Len(list) : (Passed(k)' <=> Passed(k) \/ k = p)
<1>1. list \in Seq(Addr) /\ Len(list) \in Nat /\ p \in Nat /\ env_np \in Addr /\ env_np # NULL
  BY NullAssumption DEF TypeOK
<1>2. \A i, j \in 1 .. Len(list) : list[i] = list[j] => i = j
  BY DEF QueueLinked
<1>3. \A k \in 1 .. Len(list) : Passed(k) <=> k < p
  BY <1>1, <1>2 DEF Passed
<1>4. CASE p = Len(list)
  <2>1. env_np' = NULL
    BY <1>4 DEF Follower
  <2>2. QED
    BY <1>1, <1>3, <1>4, <2>1 DEF Passed
<1>5. CASE p # Len(list)
  <2>1. /\ env_np' = list[p + 1] /\ p + 1 \in 1 .. Len(list)
    BY <1>1, <1>5 DEF Follower
  <2>2. env_np' \in Addr /\ env_np' # NULL /\ env_np' \in Listed'
    BY <1>1, <2>1, NullAssumption DEF Listed
  <2>3. \A k \in 1 .. Len(list) : Passed(k)' <=> k < p + 1
    BY <1>1, <1>2, <2>1, <2>2 DEF Passed
  <2>4. QED
    BY <1>1, <1>3, <2>2, <2>3
<1>6. QED
  BY <1>4, <1>5

----------------------------------------------------------------------------
(* What the steps have in common.                                          *)

\* A step that leaves the queue alone.
LEMMA SameQueue ==
  ASSUME IInv, UNCHANGED <<queue, list>>
  PROVE  QueueLinked' /\ SymbolsUnique' /\ Live' = Live /\ Listed' = Listed
BY DEF IInv, queue, QueueLinked, SymbolsUnique, Live, Listed

\* An operation returns that frees nothing: no loop runs then.
LEMMA Returned ==
  ASSUME Return, turn = "loop", TypeOK', QueueLinked', SymbolsUnique', Live' = Listed'
  PROVE  IInv'
BY DEF Return, turnVars, None, IInv, OnTheQueue, NotFoundYet, FreedSoFar, NextKnown, Finding, Ending

\* Only env_deinit is ever inside a turn of its loop.
LEMMA NoTurn ==
  ASSUME IInv, call.op # "deinit"
  PROVE  turn = "loop"
BY DEF IInv, NextKnown

\* The loop variable stands on an allocated entry, in some place of the queue, and
\* the entry points to the one behind it.
LEMMA Standing ==
  ASSUME IInv, env_np # NULL, turn # "freed"
  PROVE  /\ env_np \in Addr /\ env_pair[env_np] \in Pairs
         /\ \E p \in 1 .. Len(list) : list[p] = env_np /\ tqe_next[env_np] = Follower(p)
<1>1. env_np \in Live
  BY OwnedOfInv DEF EntriesOwned
<1>2. env_np \in Addr /\ env_pair[env_np] \in Pairs
  BY <1>1 DEF Live, IInv, TypeOK
<1>3. QED
  BY <1>1, <1>2 DEF IInv, OnTheQueue, Listed, QueueLinked, Follower

----------------------------------------------------------------------------

LEMMA InitInv == Init => IInv
<1> SUFFICES ASSUME Init PROVE IInv
  OBVIOUS
<1>1. TypeOK
  BY MaxCallsAssumption DEF Init, TypeOK
<1>2. Len(list) = 0 /\ Live = {} /\ Listed = {}
  BY DEF Init, Live, Listed
<1>3. QueueLinked /\ SymbolsUnique
  BY <1>2 DEF Init, QueueLinked, SymbolsUnique
<1>4. QED
  BY <1>1, <1>2, <1>3
     DEF Init, None, IInv, OnTheQueue, NotFoundYet, FreedSoFar, NextKnown, Finding, Ending

LEMMA CallInv ==
  ASSUME IInv, NEW c \in Calls, Call(c)
  PROVE  IInv'
<1>1. TypeOK'
  <2>1. calls' \in 0 .. MaxCalls
    BY MaxCallsAssumption DEF Call, IInv, TypeOK
  <2>2. QED
    BY <2>1 DEF Call, queue, turnVars, IInv, TypeOK
<1>2. QueueLinked' /\ SymbolsUnique' /\ Live' = Live /\ Listed' = Listed
  BY SameQueue DEF Call
<1>3. Live = Listed
  BY DEF Call, None, IInv, Ending
<1>4. /\ env_np' # NULL => env_np' \in Listed'
      /\ \A k \in 1 .. Len(list) : ~Passed(k)'
  BY AtTheHead DEF Call, IInv
<1>5. c # None /\ c # Over
  BY DEF Calls, PutCall, GetCall, TraverseCall, DeinitCall, None, Over
<1>6. OnTheQueue'
  BY <1>4, <1>5 DEF Call, OnTheQueue
<1>7. turn = "loop" /\ turn' = "loop"
  BY NoTurn DEF Call, turnVars, None
<1>8. NotFoundYet' /\ FreedSoFar'
  BY <1>2, <1>3, <1>4, <1>7 DEF Call, NotFoundYet, FreedSoFar, Listed
<1>9. QED
  BY <1>1, <1>2, <1>3, <1>6, <1>7, <1>8 DEF IInv, NextKnown

LEMMA FindInv ==
  ASSUME IInv, Find
  PROVE  IInv'
<1>1. turn = "loop" /\ turn' = "loop"
  BY NoTurn DEF Find, Finding, turnVars
<1>2. PICK p \in 1 .. Len(list) : list[p] = env_np /\ tqe_next[env_np] = Follower(p)
  BY <1>1, Standing DEF Find
<1>3. env_np \in Addr
  BY <1>1, Standing DEF Find
<1>4. TypeOK'
  BY <1>3 DEF Find, queue, turnVars, IInv, TypeOK
<1>5. QueueLinked' /\ SymbolsUnique' /\ Live' = Live /\ Listed' = Listed
  BY SameQueue DEF Find
<1>6. /\ env_np' # NULL => env_np' \in Listed'
      /\ \A k \in 1 .. Len(list) : (Passed(k)' <=> Passed(k) \/ k = p)
  BY <1>2, OneFurther DEF Find, IInv
<1>7. ~Ending /\ ~Ending' /\ Live = Listed
  BY DEF Find, Finding, Ending, IInv
<1>8. NotFoundYet'
  BY <1>2, <1>6 DEF Find, Here, NotFoundYet, Finding, IInv, queue
<1>9. OnTheQueue'
  BY <1>6 DEF Find, Finding, OnTheQueue, None, Over
<1>10. QED
  BY <1>1, <1>4, <1>5, <1>7, <1>8, <1>9 DEF IInv, FreedSoFar, NextKnown

LEMMA PutFoundInv ==
  ASSUME IInv, PutFound
  PROVE  IInv'
<1>1. env_np \in Addr /\ env_pair[env_np] \in Pairs
  BY NoTurn, Standing DEF PutFound
<1>2. call.value \in Values
  BY DEF PutFound, IInv, TypeOK, Calls, PutCall, GetCall, TraverseCall, DeinitCall, None, Over
<1>3. /\ env_pair' \in [Addr -> Pairs \cup {NULL}]
      /\ \A a \in Addr : /\ env_pair'[a] # NULL <=> env_pair[a] # NULL
                         /\ env_pair'[a].symbol = env_pair[a].symbol
  <2>1. /\ [env_pair[env_np] EXCEPT !.value = call.value] \in Pairs
        /\ [env_pair[env_np] EXCEPT !.value = call.value].symbol = env_pair[env_np].symbol
    BY <1>1, <1>2 DEF Pairs
  <2>2. env_pair' = [env_pair EXCEPT ![env_np] = [env_pair[env_np] EXCEPT !.value = call.value]]
    BY DEF PutFound
  <2>3. \A q \in Pairs : q # NULL
    BY PairsAssumption DEF Pairs
  <2>4. QED
    BY <1>1, <2>1, <2>2, <2>3 DEF IInv, TypeOK
<1>4. TypeOK'
  BY <1>3 DEF PutFound, Return, turnVars, IInv, TypeOK
<1>5. Live' = Live /\ Listed' = Listed
  BY <1>3 DEF PutFound, Live, Listed
<1>6. QueueLinked'
  BY <1>5 DEF PutFound, IInv, QueueLinked
<1>7. SymbolsUnique'
  BY <1>3, <1>5 DEF IInv, SymbolsUnique, Live
<1>8. Live = Listed
  BY DEF PutFound, Ending, IInv
<1>9. QED
  BY <1>4, <1>5, <1>6, <1>7, <1>8, NoTurn, Returned DEF PutFound

\* TAILQ_INSERT_TAIL of an entry that is not in the queue.
LEMMA InsertTailLinks ==
  ASSUME TypeOK, QueueLinked, Live = Listed, NEW a \in Addr \ Listed,
         InsertTail(a), list' = Append(list, a)
  PROVE  QueueLinked' /\ Listed' = Listed \cup {a}
<1>1. PICK n \in Nat : n = Len(list)
  BY DEF TypeOK
<1>2. /\ list \in Seq(Addr) /\ Len(list') = n + 1 /\ list'[n + 1] = a
      /\ \A i \in 1 .. n : list'[i] = list[i] /\ list[i] \in Addr /\ list[i] # a
  BY <1>1, AppendProperties, ElementOfSeq DEF TypeOK, Listed
<1>3. /\ \A i, j \in 1 .. n : list[i] = list[j] => i = j
      /\ tqh_first = IF n = 0 THEN NULL ELSE list[1]
      /\ tqh_last = IF n = 0 THEN HEAD ELSE list[n]
      /\ \A i \in 1 .. n : /\ tqe_next[list[i]] = IF i = n THEN NULL ELSE list[i + 1]
                           /\ tqe_prev[list[i]] = IF i = 1 THEN HEAD ELSE list[i - 1]
  BY <1>1 DEF QueueLinked, Listed
<1>4. \A i, j \in 1 .. n + 1 : list'[i] = list'[j] => i = j
  BY <1>2, <1>3
<1>5. tqh_first' = list'[1]
  <2>1. CASE n = 0
    BY <1>2, <1>3, <2>1 DEF InsertTail
  <2>2. CASE n # 0
    BY <1>2, <1>3, <2>2, NullAssumption DEF InsertTail
  <2>3. QED
    BY <2>1, <2>2
<1>6. \A i \in 1 .. n + 1 : tqe_prev'[list'[i]] = IF i = 1 THEN HEAD ELSE list'[i - 1]
  <2>1. TAKE i \in 1 .. n + 1
  <2>2. CASE i = n + 1
    BY <1>2, <1>3, <2>2 DEF InsertTail, TypeOK
  <2>3. CASE i # n + 1
    <3>1. tqe_prev'[list[i]] = tqe_prev[list[i]]
      BY <1>2, <2>3 DEF InsertTail, TypeOK
    <3>2. QED
      BY <1>2, <1>3, <2>3, <3>1
  <2>4. QED
    BY <2>2, <2>3
<1>7. \A i \in 1 .. n + 1 : tqe_next'[list'[i]] = IF i = n + 1 THEN NULL ELSE list'[i + 1]
  <2>1. TAKE i \in 1 .. n + 1
  <2>2. CASE i = n + 1
    BY <1>2, <2>2 DEF InsertTail
  <2>3. CASE i = n
    <3>1. tqe_next'[list[n]] = a
      BY <1>2, <1>3, <2>3 DEF InsertTail
    <3>2. QED
      BY <1>2, <2>3, <3>1
  <2>4. CASE i # n /\ i # n + 1
    <3>1. list[i] # tqh_last
      BY <1>3, <2>4
    <3>2. tqe_next'[list[i]] = tqe_next[list[i]]
      BY <1>2, <2>4, <3>1 DEF InsertTail
    <3>3. QED
      BY <1>2, <1>3, <2>4, <3>2
  <2>5. QED
    BY <2>2, <2>3, <2>4
<1>8. tqh_last' = list'[n + 1]
  BY <1>2 DEF InsertTail
<1>9. QueueLinked'
  BY <1>2, <1>4, <1>5, <1>6, <1>7, <1>8 DEF QueueLinked
<1>10. Listed' = Listed \cup {a}
  <2>1. Listed' = {list'[i] : i \in 1 .. n + 1} /\ Listed = {list[i] : i \in 1 .. n}
    BY <1>1, <1>2 DEF Listed
  <2>2. QED
    BY <1>2, <2>1
<1>11. QED
  BY <1>9, <1>10

LEMMA PutNewInv ==
  ASSUME IInv, PutNew
  PROVE  IInv'
<1>1. PICK a \in Addr :
        /\ env_pair[a] = NULL
        /\ env_pair' = [env_pair EXCEPT ![a] = Pair(call.symbol, call.value)]
        /\ InsertTail(a)
        /\ list' = Append(list, a)
  BY DEF PutNew
<1>2. call.symbol \in Symbols /\ call.value \in Values
  BY DEF PutNew, IInv, TypeOK, Calls, PutCall, GetCall, TraverseCall, DeinitCall, None, Over
<1>3. Pair(call.symbol, call.value) \in Pairs /\ Pair(call.symbol, call.value) # NULL
  BY <1>2, PairsAssumption DEF Pair, Pairs
<1>4. Live = Listed /\ a \notin Listed
  BY <1>1 DEF PutNew, Ending, IInv, Live
<1>5. QueueLinked' /\ Listed' = Listed \cup {a}
  BY <1>1, <1>4, InsertTailLinks DEF IInv
<1>6. /\ env_pair' \in [Addr -> Pairs \cup {NULL}]
      /\ env_pair'[a] = Pair(call.symbol, call.value)
      /\ \A b \in Addr : b # a => env_pair'[b] = env_pair[b]
  BY <1>1, <1>3 DEF IInv, TypeOK
<1>7. Live' = Live \cup {a}
  BY <1>3, <1>6 DEF Live
<1>8. TypeOK'
  <2>1. list' \in Seq(Addr)
    BY <1>1, AppendProperties DEF IInv, TypeOK
  <2>2. tqh_first' \in Addr \cup {NULL} /\ tqh_last' \in Addr \cup {HEAD}
    BY <1>1 DEF InsertTail, IInv, TypeOK
  <2>3. tqe_next' \in [Addr -> Addr \cup {NULL}]
    BY <1>1 DEF InsertTail, IInv, TypeOK
  <2>4. tqe_prev' \in [Addr -> Addr \cup {NULL, HEAD}]
    BY <1>1 DEF InsertTail, IInv, TypeOK
  <2>5. QED
    BY <1>6, <2>1, <2>2, <2>3, <2>4 DEF PutNew, Return, turnVars, IInv, TypeOK
<1>9. \A b \in Live : env_pair[b].symbol # call.symbol
  <2>1. \A k \in 1 .. Len(list) : env_pair[list[k]].symbol # call.symbol
    BY DEF PutNew, IInv, NotFoundYet, Finding, Passed
  <2>2. QED
    BY <1>4, <2>1 DEF Listed
<1>10. SymbolsUnique'
  <2>1. Pair(call.symbol, call.value).symbol = call.symbol
    BY DEF Pair
  <2>2. Live \subseteq Addr /\ a \notin Live
    BY <1>4 DEF Live
  <2>3. QED
    BY <1>6, <1>7, <1>9, <2>1, <2>2 DEF IInv, SymbolsUnique
<1>11. QED
  BY <1>4, <1>5, <1>7, <1>8, <1>10, NoTurn, Returned DEF PutNew

LEMMA GetFoundInv ==
  ASSUME IInv, GetFound
  PROVE  IInv'
<1>1. env_pair[env_np] \in Pairs
  BY NoTurn, Standing DEF GetFound
<1>2. TypeOK'
  <2>1. seen' \in Seq(Pairs \cup [symbol : Symbols, value : {NULL}])
    BY <1>1 DEF GetFound
  <2>2. QED
    BY <2>1 DEF GetFound, Return, queue, turnVars, IInv, TypeOK
<1>3. QueueLinked' /\ SymbolsUnique' /\ Live' = Live /\ Listed' = Listed
  BY SameQueue DEF GetFound
<1>4. Live = Listed
  BY DEF GetFound, Ending, IInv
<1>5. QED
  BY <1>2, <1>3, <1>4, NoTurn, Returned DEF GetFound

LEMMA GetMissingInv ==
  ASSUME IInv, GetMissing
  PROVE  IInv'
<1>1. call.symbol \in Symbols
  BY DEF GetMissing, IInv, TypeOK, Calls, PutCall, GetCall, TraverseCall, DeinitCall, None, Over
<1>2. TypeOK'
  <2>1. Pair(call.symbol, NULL) \in [symbol : Symbols, value : {NULL}]
    BY <1>1 DEF Pair
  <2>2. seen' \in Seq(Pairs \cup [symbol : Symbols, value : {NULL}])
    BY <2>1 DEF GetMissing
  <2>3. QED
    BY <2>2 DEF GetMissing, Return, queue, turnVars, IInv, TypeOK
<1>3. QueueLinked' /\ SymbolsUnique' /\ Live' = Live /\ Listed' = Listed
  BY SameQueue DEF GetMissing
<1>4. Live = Listed
  BY DEF GetMissing, Ending, IInv
<1>5. QED
  BY <1>2, <1>3, <1>4, NoTurn, Returned DEF GetMissing

LEMMA VisitInv ==
  ASSUME IInv, Visit
  PROVE  IInv'
<1>0. turn = "loop" /\ turn' = "loop"
  BY NoTurn DEF Visit, turnVars
<1>1. PICK p \in 1 .. Len(list) : list[p] = env_np /\ tqe_next[env_np] = Follower(p)
  BY <1>0, Standing DEF Visit
<1>2. env_np \in Addr /\ env_pair[env_np] \in Pairs
  BY <1>0, Standing DEF Visit
<1>3. TypeOK'
  <2>1. seen' \in Seq(Pairs \cup [symbol : Symbols, value : {NULL}])
    BY <1>2, AppendProperties DEF Visit, IInv, TypeOK
  <2>2. QED
    BY <1>2, <2>1 DEF Visit, queue, turnVars, IInv, TypeOK
<1>4. QueueLinked' /\ SymbolsUnique' /\ Live' = Live /\ Listed' = Listed
  BY SameQueue DEF Visit
<1>5. env_np' # NULL => env_np' \in Listed'
  BY <1>1, OneFurther DEF Visit, IInv
<1>6. OnTheQueue'
  BY <1>5 DEF Visit, OnTheQueue, None, Over
<1>7. Live = Listed /\ ~Finding' /\ ~Ending'
  BY DEF Visit, Finding, Ending, IInv
<1>8. QED
  BY <1>0, <1>3, <1>4, <1>6, <1>7 DEF IInv, NotFoundYet, FreedSoFar, NextKnown

LEMMA TraverseEndInv ==
  ASSUME IInv, TraverseEnd
  PROVE  IInv'
<1>1. TypeOK'
  BY DEF TraverseEnd, Return, queue, turnVars, IInv, TypeOK
<1>2. QueueLinked' /\ SymbolsUnique' /\ Live' = Live /\ Listed' = Listed
  BY SameQueue DEF TraverseEnd
<1>3. Live = Listed
  BY DEF TraverseEnd, Ending, IInv
<1>4. QED
  BY <1>1, <1>2, <1>3, NoTurn, Returned DEF TraverseEnd

LEMMA FreeReadInv ==
  ASSUME IInv, FreeRead
  PROVE  IInv'
<1>1. PICK p \in 1 .. Len(list) : list[p] = env_np /\ tqe_next[env_np] = Follower(p)
  BY Standing DEF FreeRead
<1>2. env_np \in Addr
  BY Standing DEF FreeRead
<1>3. TypeOK'
  BY <1>2 DEF FreeRead, queue, IInv, TypeOK
<1>4. QueueLinked' /\ SymbolsUnique' /\ Live' = Live /\ Listed' = Listed
  BY SameQueue DEF FreeRead
<1>5. NextKnown'
  BY <1>1 DEF FreeRead, NextKnown, Follower
<1>6. OnTheQueue' /\ ~Finding' /\ Ending /\ Ending'
  BY <1>4 DEF FreeRead, IInv, OnTheQueue, Finding, Ending
<1>7. FreedSoFar'
  BY <1>4, <1>6 DEF FreeRead, IInv, FreedSoFar, Passed
<1>8. QED
  BY <1>3, <1>4, <1>5, <1>6, <1>7 DEF IInv, NotFoundYet

LEMMA FreeEntryInv ==
  ASSUME IInv, FreeEntry
  PROVE  IInv'
<1>1. call.op = "deinit" /\ env_np # NULL
  BY DEF FreeEntry, IInv, NextKnown
<1>2. PICK p \in 1 .. Len(list) : list[p] = env_np
  BY <1>1, Standing DEF FreeEntry
<1>3. env_np \in Addr
  BY <1>1, Standing DEF FreeEntry
<1>4. /\ env_pair' = [env_pair EXCEPT ![env_np] = NULL]
      /\ tqe_next' \in [Addr -> Addr \cup {NULL}]
      /\ \A a \in Addr : a # env_np => tqe_next'[a] = tqe_next[a]
      /\ UNCHANGED <<tqh_first, tqh_last, tqe_prev, call, env_np, next, seen, list, calls>>
      /\ turn = "read" /\ turn' = "freed"
  BY <1>3 DEF FreeEntry, IInv, TypeOK
<1>5. TypeOK'
  BY <1>3, <1>4 DEF IInv, TypeOK
<1>6. /\ Live' = Live \ {env_np} /\ Listed' = Listed
      /\ \A a \in Live' : env_pair'[a] = env_pair[a]
  BY <1>3, <1>4 DEF IInv, TypeOK, Live, Listed
<1>7. SymbolsUnique'
  BY <1>6 DEF IInv, SymbolsUnique
<1>8. QueueLinked'
  <2>1. \A i \in 1 .. Len(list) : list[i] \in Addr
    BY ElementOfSeq DEF IInv, TypeOK
  <2>2. \A i \in 1 .. Len(list) : list[i] \in Live' =>
          tqe_next'[list[i]] = tqe_next[list[i]] /\ list[i] \in Live
    BY <1>4, <1>6, <2>1
  <2>3. QED
    BY <1>4, <2>2 DEF IInv, QueueLinked
<1>9. FreedSoFar'
  <2>1. \A k \in 1 .. Len(list) : (Passed(k)' <=> Passed(k))
    BY <1>4 DEF Passed
  <2>2. /\ Live \subseteq Listed
        /\ \A k \in 1 .. Len(list) : list[k] \in Live <=> ~Passed(k)
    BY <1>1, <1>4 DEF Ending, IInv, FreedSoFar
  <2>3. \A k \in 1 .. Len(list) :
          list[k] \in Live' <=> ~Passed(k)' /\ ~(turn' = "freed" /\ list'[k] = env_np')
    BY <1>4, <1>6, <2>1, <2>2
  <2>4. QED
    BY <1>4, <1>6, <2>2, <2>3 DEF FreedSoFar
<1>10. NextKnown' /\ OnTheQueue'
  BY <1>4, <1>6 DEF IInv, NextKnown, Follower, OnTheQueue
<1>11. Ending' /\ ~Finding'
  BY <1>1, <1>4 DEF Ending, Finding
<1>12. QED
  BY <1>5, <1>7, <1>8, <1>9, <1>10, <1>11 DEF IInv, NotFoundYet

LEMMA FreeNextInv ==
  ASSUME IInv, FreeNext
  PROVE  IInv'
<1>1. PICK p \in 1 .. Len(list) : list[p] = env_np /\ next = Follower(p)
  BY DEF FreeNext, IInv, NextKnown
<1>2. call.op = "deinit" /\ env_np # NULL
  BY DEF FreeNext, IInv, NextKnown
<1>3. TypeOK'
  BY DEF FreeNext, queue, IInv, TypeOK
<1>4. QueueLinked' /\ SymbolsUnique' /\ Live' = Live /\ Listed' = Listed
  BY SameQueue DEF FreeNext
<1>5. /\ env_np' # NULL => env_np' \in Listed'
      /\ \A k \in 1 .. Len(list) : (Passed(k)' <=> Passed(k) \/ k = p)
  BY <1>1, OneFurther DEF FreeNext, IInv
<1>6. OnTheQueue'
  BY <1>2, <1>5 DEF FreeNext, OnTheQueue, None, Over
<1>7. FreedSoFar'
  <2>1. \A k \in 1 .. Len(list) : list[k] = env_np <=> k = p
    BY <1>1 DEF IInv, QueueLinked
  <2>2. /\ Live \subseteq Listed
        /\ \A k \in 1 .. Len(list) : list[k] \in Live <=> ~Passed(k) /\ list[k] # env_np
    BY <1>2 DEF FreeNext, Ending, IInv, FreedSoFar
  <2>3. \A k \in 1 .. Len(list) : list[k] \in Live' <=> ~Passed(k)'
    BY <1>4, <1>5, <2>1, <2>2
  <2>4. QED
    BY <1>4, <2>2, <2>3 DEF FreeNext, FreedSoFar
<1>8. Ending' /\ ~Finding' /\ turn' = "loop"
  BY <1>2 DEF FreeNext, Ending, Finding
<1>9. QED
  BY <1>3, <1>4, <1>6, <1>7, <1>8 DEF IInv, NotFoundYet, NextKnown

LEMMA DeinitEndInv ==
  ASSUME IInv, DeinitEnd
  PROVE  IInv'
<1>1. TypeOK'
  BY DEF DeinitEnd, queue, turnVars, IInv, TypeOK
<1>2. QueueLinked' /\ SymbolsUnique' /\ Live' = Live /\ Listed' = Listed
  BY SameQueue DEF DeinitEnd
<1>3. Ending /\ Ending' /\ ~Finding' /\ env_np' = NULL
  BY DEF DeinitEnd, Ending, Finding, Over
<1>4. OnTheQueue'
  BY <1>3 DEF OnTheQueue
<1>5. turn = "loop" /\ turn' = "loop"
  BY DEF DeinitEnd, turnVars, IInv, NextKnown
<1>6. FreedSoFar'
  BY <1>2, <1>3, <1>5 DEF DeinitEnd, IInv, FreedSoFar, Passed
<1>7. QED
  BY <1>1, <1>2, <1>3, <1>4, <1>5, <1>6 DEF IInv, NotFoundYet, NextKnown

LEMMA StutterInv ==
  ASSUME IInv, UNCHANGED vars
  PROVE  IInv'
<1>1. TypeOK'
  BY DEF vars, queue, turnVars, IInv, TypeOK
<1>2. QueueLinked' /\ SymbolsUnique' /\ Live' = Live /\ Listed' = Listed
  BY SameQueue DEF vars
<1>3. OnTheQueue' /\ NotFoundYet' /\ FreedSoFar' /\ (Ending' <=> Ending)
  BY <1>2 DEF vars, queue, turnVars, IInv, OnTheQueue, NotFoundYet, FreedSoFar, Finding, Ending,
              Passed
<1>4. NextKnown'
  BY DEF vars, turnVars, IInv, NextKnown, Follower
<1>5. QED
  BY <1>1, <1>2, <1>3, <1>4 DEF IInv

LEMMA StepInv == IInv /\ [Next]_vars => IInv'
<1> SUFFICES ASSUME IInv, [Next]_vars PROVE IInv'
  OBVIOUS
<1>1. CASE \E c \in Calls : Call(c)
  BY <1>1, CallInv
<1>2. CASE Find
  BY <1>2, FindInv
<1>3. CASE PutFound
  BY <1>3, PutFoundInv
<1>4. CASE PutNew
  BY <1>4, PutNewInv
<1>5. CASE GetFound
  BY <1>5, GetFoundInv
<1>6. CASE GetMissing
  BY <1>6, GetMissingInv
<1>7. CASE Visit
  BY <1>7, VisitInv
<1>8. CASE TraverseEnd
  BY <1>8, TraverseEndInv
<1>9. CASE FreeRead \/ FreeEntry \/ FreeNext
  BY <1>9, FreeReadInv, FreeEntryInv, FreeNextInv
<1>10. CASE DeinitEnd
  BY <1>10, DeinitEndInv
<1>11. CASE UNCHANGED vars
  BY <1>11, StutterInv
<1>12. QED
  BY <1>1, <1>2, <1>3, <1>4, <1>5, <1>6, <1>7, <1>8, <1>9, <1>10, <1>11 DEF Next, Step

----------------------------------------------------------------------------
(* The theorems.                                                           *)

LEMMA Inductive == Spec => []IInv
BY InitInv, StepInv, PTL DEF Spec

\* The variables have their types.
THEOREM TypeCorrect == Spec => []TypeOK
<1>1. IInv => TypeOK
  BY DEF IInv
<1>2. QED
  BY <1>1, Inductive, PTL

\* The pointers of the queue always link the entries env_put has made, each
\* once and in order, and tqh_last is where the next one belongs.
THEOREM Linked == Spec => []QueueLinked
<1>1. IInv => QueueLinked
  BY DEF IInv
<1>2. QED
  BY <1>1, Inductive, PTL

\* No entry is lost, no loop reads one that is freed, and env_deinit frees them
\* all, knowing the next one by the time it has freed one.
THEOREM EntriesFreedOnce == Spec => []EntriesOwned
<1>1. QED
  BY OwnedOfInv, Inductive, PTL

\* env_put never makes a second entry for a symbol.
THEOREM OneEntryPerSymbol == Spec => []SymbolsUnique
<1>1. IInv => SymbolsUnique
  BY DEF IInv
<1>2. QED
  BY <1>1, Inductive, PTL

----------------------------------------------------------------------------
(* The environment implements EnvMap.                                      *)

\* What EnvMap's variables are in Environment.
Bindings == IF Ending THEN <<>> ELSE [k \in 1 .. Len(list) |-> env_pair[list[k]]]
Answer == IF call = None THEN seen ELSE <<>>

\* env_traverse has handed out the pairs of the entries it has passed.
SeenSoFar ==
  /\ call.op = "put" => seen = <<>>
  /\ call.op = "traverse" =>
       /\ \A k \in 1 .. Len(list) : Passed(k) <=> k <= Len(seen)
       /\ Len(seen) <= Len(list)
       /\ \A k \in 1 .. Len(seen) : seen[k] = env_pair[list[k]]

LEMMA VisitSeen ==
  ASSUME IInv, SeenSoFar, Visit
  PROVE  SeenSoFar'
<1>0. turn = "loop"
  BY NoTurn DEF Visit
<1>1. PICK p \in 1 .. Len(list) : list[p] = env_np /\ tqe_next[env_np] = Follower(p)
  BY <1>0, Standing DEF Visit
<1>2. PICK n \in Nat : n = Len(list)
  BY DEF IInv, TypeOK
<1>3. PICK m \in Nat : m = Len(seen)
  BY DEF IInv, TypeOK
<1>4. \A k \in 1 .. n : (Passed(k)' <=> Passed(k) \/ k = p)
  BY <1>1, <1>2, OneFurther DEF Visit, IInv
<1>5. \A k \in 1 .. n : Passed(k) <=> k <= m
  BY <1>2, <1>3 DEF Visit, SeenSoFar
<1>6. /\ Len(seen') = m + 1 /\ seen'[m + 1] = env_pair[list[p]]
      /\ \A k \in 1 .. m : seen'[k] = seen[k]
  <2>1. seen' = Append(seen, env_pair[list[p]]) /\ seen \in Seq(Pairs \cup [symbol : Symbols, value : {NULL}])
    BY <1>1 DEF Visit, IInv, TypeOK
  <2>2. env_pair[list[p]] \in Pairs
    BY <1>0, <1>1, Standing DEF Visit
  <2>3. QED
    BY <1>3, <2>1, <2>2, AppendProperties
<1>7. p = m + 1
  <2>1. ~Passed(p)
    <3>1. env_np # NULL
      BY DEF Visit
    <3>2. QED
      BY <1>1, <3>1 DEF Passed, IInv, QueueLinked, TypeOK
  <2>2. p > m
    BY <1>2, <1>5, <2>1
  <2>3. p - 1 \in 1 .. n => Passed(p - 1)
    BY <1>1, <1>2 DEF Passed
  <2>4. QED
    BY <1>2, <1>5, <2>2, <2>3
<1>8. \A k \in 1 .. m + 1 : seen'[k] = env_pair[list[k]]
  BY <1>3, <1>6, <1>7 DEF Visit, SeenSoFar
<1>9. \A k \in 1 .. n : Passed(k)' <=> k <= m + 1
  BY <1>4, <1>5, <1>7
<1>10. m + 1 <= n
  BY <1>2, <1>7
<1>11. list' = list /\ env_pair' = env_pair /\ call' = call
  BY DEF Visit, queue
<1>12. QED
  BY <1>2, <1>6, <1>8, <1>9, <1>10, <1>11 DEF Visit, SeenSoFar

LEMMA SeenInv ==
  ASSUME IInv, SeenSoFar, [Next]_vars
  PROVE  SeenSoFar'
<1>1. ASSUME NEW c \in Calls, Call(c) PROVE SeenSoFar'
  <2>1. \A k \in 1 .. Len(list) : ~Passed(k)'
    BY <1>1, AtTheHead DEF Call, IInv
  <2>2. seen' = <<>> /\ list' = list /\ Len(seen') = 0 /\ Len(list) \in Nat
    BY <1>1 DEF Call, IInv, TypeOK
  <2>3. QED
    BY <2>1, <2>2 DEF SeenSoFar
<1>2. CASE Visit
  BY <1>2, VisitSeen
<1>3. CASE Return
  BY <1>3 DEF Return, None, SeenSoFar
<1>4. CASE Find
  BY <1>4 DEF Find, Finding, SeenSoFar
<1>5. CASE FreeRead \/ FreeEntry \/ FreeNext
  <2>1. call' = call /\ call.op = "deinit"
    BY <1>5 DEF FreeRead, FreeEntry, FreeNext, IInv, NextKnown
  <2>2. QED
    BY <2>1 DEF SeenSoFar
<1>6. CASE DeinitEnd
  BY <1>6 DEF DeinitEnd, Over, SeenSoFar
<1>7. CASE UNCHANGED vars
  BY <1>7 DEF vars, queue, SeenSoFar, Passed
<1>8. QED
  BY <1>1, <1>2, <1>3, <1>4, <1>5, <1>6, <1>7
     DEF Next, Step, PutFound, PutNew, GetFound, GetMissing, TraverseEnd

\* The place of a symbol among the bindings.
LEMMA PlaceFound ==
  ASSUME IInv, ~Ending, NEW p \in 1 .. Len(list), NEW s, env_pair[list[p]].symbol = s
  PROVE  Abstract!Place(s) = p
<1>1. /\ Len(Bindings) = Len(list)
      /\ \A k \in 1 .. Len(list) : Bindings[k] = env_pair[list[k]]
  BY DEF Bindings, IInv, TypeOK
<1>2. \A k \in 1 .. Len(list) : list[k] \in Live
  BY DEF IInv, Listed
<1>3. \A k \in 1 .. Len(list) : Bindings[k].symbol = s => k = p
  BY <1>1, <1>2 DEF IInv, SymbolsUnique, QueueLinked
<1>4. p \in 1 .. Len(Bindings) /\ Bindings[p].symbol = s
  BY <1>1
<1>5. Abstract!Place(s) = IF \E k \in 1 .. Len(Bindings) : Bindings[k].symbol = s
                          THEN CHOOSE k \in 1 .. Len(Bindings) : Bindings[k].symbol = s ELSE 0
  BY DEF Abstract!Place, Bindings
<1>6. QED
  BY <1>1, <1>3, <1>4, <1>5

LEMMA PlaceMissing ==
  ASSUME IInv, ~Ending, Finding, env_np = NULL
  PROVE  Abstract!Place(call.symbol) = 0
<1>1. /\ Len(Bindings) = Len(list)
      /\ \A k \in 1 .. Len(list) : Bindings[k] = env_pair[list[k]]
  BY DEF Bindings, IInv, TypeOK
<1>2. \A k \in 1 .. Len(list) : Bindings[k].symbol # call.symbol
  BY <1>1 DEF IInv, NotFoundYet, Passed
<1>3. Abstract!Place(call.symbol) =
        IF \E k \in 1 .. Len(Bindings) : Bindings[k].symbol = call.symbol
        THEN CHOOSE k \in 1 .. Len(Bindings) : Bindings[k].symbol = call.symbol ELSE 0
  BY DEF Abstract!Place, Bindings
<1>4. QED
  BY <1>1, <1>2, <1>3

\* A step that leaves the bindings alone.
LEMMA SameBindings ==
  ASSUME UNCHANGED <<env_pair, list>>, Ending' <=> Ending
  PROVE  Bindings' = Bindings
BY DEF Bindings

LEMMA CallRefines ==
  ASSUME IInv, NEW c \in Calls, Call(c)
  PROVE  Abstract!Call \/ Abstract!Deinit
<1>1. c # None /\ call = None /\ ~Ending /\ Answer' = <<>>
  BY DEF Call, Calls, PutCall, GetCall, TraverseCall, DeinitCall, None, Ending, Answer
<1>2. CASE c.op = "deinit"
  <2>1. Bindings' = <<>>
    BY <1>2 DEF Call, Ending, Bindings
  <2>2. QED
    BY <1>1, <2>1 DEF Abstract!Deinit, Bindings, Answer
<1>3. CASE c.op # "deinit"
  <2>1. ~Ending'
    BY <1>3 DEF Call, Calls, PutCall, GetCall, TraverseCall, DeinitCall, Ending
  <2>2. Bindings' = Bindings
    BY <1>1, <2>1, SameBindings DEF Call, queue
  <2>3. QED
    BY <1>1, <2>2 DEF Abstract!Call, Bindings, Answer
<1>4. QED
  BY <1>2, <1>3

LEMMA PutFoundRefines ==
  ASSUME IInv, SeenSoFar, PutFound, NEW s \in Symbols, NEW v \in Values,
         call.symbol = s, call.value = v
  PROVE  Abstract!Put(s, v)
<1>1. PICK p \in 1 .. Len(list) : list[p] = env_np
  BY NoTurn, Standing DEF PutFound
<1>2. env_np \in Addr /\ env_pair[env_np] \in Pairs
  BY NoTurn, Standing DEF PutFound
<1>3. /\ ~Ending /\ ~Ending' /\ Answer' = <<>> /\ list' = list /\ list \in Seq(Addr)
      /\ env_pair[list[p]].symbol = s
  BY <1>1 DEF PutFound, Return, Ending, None, Answer, SeenSoFar, Here, IInv, TypeOK
<1>4. Abstract!Place(s) = p
  BY <1>3, PlaceFound
<1>5. [env_pair[env_np] EXCEPT !.value = call.value] = Abstract!Pair(s, v)
  BY <1>1, <1>2, <1>3 DEF Pairs, Abstract!Pair
<1>6. /\ env_pair'[env_np] = Abstract!Pair(s, v)
      /\ \A a \in Addr : a # env_np => env_pair'[a] = env_pair[a]
  BY <1>2, <1>5 DEF PutFound, IInv, TypeOK
<1>7. \A k \in 1 .. Len(list) : list[k] \in Addr /\ (list[k] = env_np <=> k = p)
  BY <1>1, <1>3, ElementOfSeq DEF IInv, QueueLinked
<1>8. Bindings' = [Bindings EXCEPT ![p] = Abstract!Pair(s, v)]
  BY <1>3, <1>6, <1>7 DEF Bindings
<1>9. p # 0
  OBVIOUS
<1>10. QED
  BY <1>3, <1>4, <1>8, <1>9 DEF Abstract!Put, Bindings, Answer

LEMMA PutNewRefines ==
  ASSUME IInv, SeenSoFar, PutNew, NEW s \in Symbols, NEW v \in Values,
         call.symbol = s, call.value = v
  PROVE  Abstract!Put(s, v)
<1>1. PICK a \in Addr :
        /\ env_pair[a] = NULL
        /\ env_pair' = [env_pair EXCEPT ![a] = Pair(call.symbol, call.value)]
        /\ list' = Append(list, a)
  BY DEF PutNew
<1>2. ~Ending /\ ~Ending' /\ Finding /\ Answer' = <<>> /\ list \in Seq(Addr)
  BY DEF PutNew, Return, Ending, Finding, None, Answer, SeenSoFar, IInv, TypeOK
<1>3. Abstract!Place(s) = 0
  BY <1>2, PlaceMissing DEF PutNew
<1>4. a \notin Listed
  BY <1>1, <1>2 DEF IInv, Live
<1>5. PICK n \in Nat : n = Len(list)
  BY <1>2
<1>6. /\ Len(list') = n + 1 /\ list'[n + 1] = a
      /\ \A k \in 1 .. n : list'[k] = list[k] /\ list[k] \in Addr /\ list[k] # a
  BY <1>1, <1>2, <1>4, <1>5, AppendProperties, ElementOfSeq DEF Listed
<1>7. /\ env_pair'[a] = Abstract!Pair(s, v)
      /\ \A b \in Addr : b # a => env_pair'[b] = env_pair[b]
  BY <1>1 DEF IInv, TypeOK, Pair, Abstract!Pair
<1>8. /\ Bindings = [k \in 1 .. n |-> env_pair[list[k]]]
      /\ Bindings' = [k \in 1 .. n + 1 |-> env_pair'[list'[k]]]
  BY <1>2, <1>5, <1>6 DEF Bindings
<1>9. Bindings' = Append(Bindings, Abstract!Pair(s, v))
  <2> DEFINE Q == Pairs \cup {NULL}
  <2>1. Bindings \in Seq(Q) /\ Len(Bindings) = n /\ Abstract!Pair(s, v) \in Q
    <3>1. \A k \in 1 .. n : env_pair[list[k]] \in Q
      BY <1>6 DEF IInv, TypeOK
    <3>2. QED
      BY <1>8, <3>1 DEF Pairs, Abstract!Pair
  <2>2. \A k \in 1 .. n : Bindings'[k] = Bindings[k]
    BY <1>6, <1>7, <1>8
  <2>3. Bindings'[n + 1] = Abstract!Pair(s, v)
    BY <1>6, <1>7, <1>8
  <2>4. Bindings' \in Seq(Q) /\ Len(Bindings') = n + 1
    <3>1. \A k \in 1 .. n + 1 : Bindings'[k] \in Q
      BY <2>1, <2>2, <2>3, ElementOfSeq
    <3>2. QED
      BY <1>8, <3>1
  <2> HIDE DEF Q
  <2>5. QED
    BY <2>1, <2>2, <2>3, <2>4, AppendProperties, SeqEqual
<1>10. QED
  BY <1>2, <1>3, <1>9 DEF Abstract!Put, Bindings, Answer

LEMMA GetFoundRefines ==
  ASSUME IInv, GetFound
  PROVE  Abstract!Get(call.symbol)
<1>1. PICK p \in 1 .. Len(list) : list[p] = env_np
  BY NoTurn, Standing DEF GetFound
<1>2. /\ ~Ending /\ ~Ending' /\ Answer' = <<env_pair[env_np]>>
      /\ env_pair[list[p]].symbol = call.symbol
  BY <1>1 DEF GetFound, Return, Ending, None, Answer, Here
<1>3. Abstract!Place(call.symbol) = p /\ p # 0
  BY <1>2, PlaceFound
<1>4. Bindings' = Bindings /\ Bindings[p] = env_pair[env_np]
  BY <1>1, <1>2, SameBindings DEF GetFound, queue, Bindings
<1>5. QED
  BY <1>2, <1>3, <1>4 DEF Abstract!Get, Bindings, Answer

LEMMA GetMissingRefines ==
  ASSUME IInv, GetMissing
  PROVE  Abstract!Get(call.symbol)
<1>1. ~Ending /\ ~Ending' /\ Finding /\ Answer' = <<Abstract!Pair(call.symbol, NULL)>>
  BY DEF GetMissing, Return, Ending, Finding, None, Answer, Pair, Abstract!Pair
<1>2. Abstract!Place(call.symbol) = 0
  BY <1>1, PlaceMissing DEF GetMissing
<1>3. Bindings' = Bindings
  BY <1>1, SameBindings DEF GetMissing, queue
<1>4. QED
  BY <1>1, <1>2, <1>3 DEF Abstract!Get, Bindings, Answer

LEMMA TraverseEndRefines ==
  ASSUME IInv, SeenSoFar, TraverseEnd
  PROVE  Abstract!Traverse
<1>1. ~Ending /\ ~Ending' /\ Answer' = seen
  BY DEF TraverseEnd, Return, Ending, None, Answer
<1>2. Bindings' = Bindings
  BY <1>1, SameBindings DEF TraverseEnd, queue
<1>3. PICK n \in Nat : n = Len(list)
  BY DEF IInv, TypeOK
<1>4. PICK m \in Nat : m = Len(seen)
  BY DEF IInv, TypeOK
<1>5. m = n
  BY <1>3, <1>4 DEF TraverseEnd, SeenSoFar, Passed
<1>6. \A k \in 1 .. n : seen[k] = env_pair[list[k]]
  BY <1>4, <1>5 DEF TraverseEnd, SeenSoFar
<1>7. Bindings = [k \in 1 .. n |-> env_pair[list[k]]]
  BY <1>1, <1>3 DEF Bindings
<1>8. seen = Bindings
  <2> DEFINE Q == Pairs \cup [symbol : Symbols, value : {NULL}]
  <2>1. seen \in Seq(Q)
    BY DEF IInv, TypeOK
  <2>2. \A k \in 1 .. n : seen[k] \in Q
    BY <1>4, <1>5, <2>1, ElementOfSeq
  <2>3. Bindings \in Seq(Q) /\ Len(Bindings) = n
    BY <1>6, <1>7, <2>2
  <2> HIDE DEF Q
  <2>4. QED
    BY <1>4, <1>5, <1>6, <1>7, <2>1, <2>3, SeqEqual
<1>9. QED
  BY <1>1, <1>2, <1>8 DEF Abstract!Traverse, Bindings, Answer

\* Every step is a step of EnvMap or changes nothing there.
LEMMA StepRefines ==
  ASSUME IInv, SeenSoFar, [Next]_vars
  PROVE  [Abstract!Next]_(Abstract!vars)
<1>1. ASSUME NEW c \in Calls, Call(c) PROVE Abstract!Next
  BY <1>1, CallRefines DEF Abstract!Next
<1>2. ASSUME UNCHANGED <<env_pair, list>>, Ending' <=> Ending, call # None, call' # None
      PROVE  UNCHANGED Abstract!vars
  <2>1. Bindings' = Bindings /\ Answer' = Answer
    BY <1>2, SameBindings DEF Answer
  <2>2. QED
    BY <2>1 DEF Abstract!vars, Bindings, Answer
<1>3. CASE Find \/ Visit
  <2>1. /\ UNCHANGED <<env_pair, list>> /\ (Ending' <=> Ending)
        /\ call # None /\ call' # None
    BY <1>3 DEF Find, Visit, queue, Finding, Ending, None
  <2>2. QED
    BY <1>2, <2>1
<1>4. CASE PutFound \/ PutNew
  <2>1. PICK s \in Symbols, v \in Values : call.symbol = s /\ call.value = v
    BY <1>4 DEF PutFound, PutNew, IInv, TypeOK, Calls, PutCall, GetCall, TraverseCall,
                DeinitCall, None, Over
  <2>2. Abstract!Put(s, v)
    BY <1>4, <2>1, PutFoundRefines, PutNewRefines
  <2>3. Abstract!Next
    BY <2>2 DEF Abstract!Next
  <2>4. QED
    BY <2>3
<1>5. CASE GetFound \/ GetMissing
  <2>1. call.symbol \in Symbols
    BY <1>5 DEF GetFound, GetMissing, IInv, TypeOK, Calls, PutCall, GetCall, TraverseCall,
                DeinitCall, None, Over
  <2>2. Abstract!Get(call.symbol)
    BY <1>5, GetFoundRefines, GetMissingRefines
  <2>3. Abstract!Next
    BY <2>1, <2>2 DEF Abstract!Next
  <2>4. QED
    BY <2>3
<1>6. CASE TraverseEnd
  BY <1>6, TraverseEndRefines DEF Abstract!Next
<1>7. CASE FreeRead \/ FreeEntry \/ FreeNext \/ DeinitEnd
  <2>1. Ending /\ Ending' /\ call # None /\ call' # None
    BY <1>7 DEF FreeRead, FreeEntry, FreeNext, DeinitEnd, IInv, NextKnown, Ending, None, Over
  <2>2. Bindings' = Bindings /\ Answer' = Answer
    BY <2>1 DEF Bindings, Answer
  <2>3. QED
    BY <2>2 DEF Abstract!vars, Bindings, Answer
<1>8. CASE UNCHANGED vars
  <2>1. Bindings' = Bindings /\ Answer' = Answer
    BY <1>8 DEF vars, queue, Bindings, Answer, Ending
  <2>2. QED
    BY <2>1 DEF Abstract!vars, Bindings, Answer
<1>9. QED
  BY <1>1, <1>3, <1>4, <1>5, <1>6, <1>7, <1>8 DEF Next, Step

\* The queue and its loops are the list of bindings EnvMap says: every
\* operation of env.c takes effect at one moment, and what env_get answers and
\* env_traverse hands out is what the list holds.
THEOREM Refines == Spec => ImplementsEnvMap
<1>1. Init => Abstract!Init /\ SeenSoFar
  <2> SUFFICES ASSUME Init PROVE Abstract!Init /\ SeenSoFar
    OBVIOUS
  <2>1. Bindings = <<>> /\ Answer = <<>>
    BY DEF Init, Bindings, Answer, None, Ending
  <2>2. QED
    BY <2>1 DEF Init, None, Abstract!Init, Bindings, Answer, SeenSoFar
<1>2. IInv /\ SeenSoFar /\ [Next]_vars => SeenSoFar' /\ [Abstract!Next]_(Abstract!vars)
  BY SeenInv, StepRefines
<1>3. QED
  BY <1>1, <1>2, Inductive, PTL DEF Spec, ImplementsEnvMap, Abstract!Spec

----------------------------------------------------------------------------
(* A call ends.                                                            *)

Running == call \notin {None, Over}

\* The entries the loop variable has not passed, and the steps that are left of a
\* turn of env_deinit.
Ahead == {k \in 1 .. Len(list) : ~Passed(k)}
TurnLeft == CASE turn = "loop" -> 2 [] turn = "read" -> 1 [] turn = "freed" -> 0

\* A step that stays in the loop passes one of them or is inside a turn, and no
\* entry is added.
Shorter == /\ list' = list
           /\ \/ \E p \in Ahead : Ahead' = Ahead \ {p}
              \/ Ahead' = Ahead /\ TurnLeft' < TurnLeft

LEMMA StepIsShorter ==
  ASSUME IInv, Find \/ Visit \/ FreeNext
  PROVE  Shorter
<1>1. env_np # NULL /\ list' = list
  BY DEF Find, Visit, FreeNext, IInv, NextKnown
<1>2. PICK p \in 1 .. Len(list) : list[p] = env_np /\ env_np' = Follower(p)
  <2>1. CASE Find \/ Visit
    BY <1>1, <2>1, NoTurn, Standing DEF Find, Finding, Visit
  <2>2. CASE FreeNext
    BY <2>2 DEF FreeNext, IInv, NextKnown
  <2>3. QED
    BY <2>1, <2>2
<1>3. \A k \in 1 .. Len(list) : (Passed(k)' <=> Passed(k) \/ k = p)
  BY <1>1, <1>2, OneFurther DEF IInv
<1>4. ~Passed(p)
  BY <1>1, <1>2 DEF Passed, IInv, QueueLinked, TypeOK
<1>5. Ahead' = {k \in 1 .. Len(list) : ~(Passed(k)')}
  BY <1>1 DEF Ahead
<1>6. QED
  BY <1>1, <1>2, <1>3, <1>4, <1>5 DEF Ahead, Shorter

LEMMA TurnIsShorter ==
  ASSUME FreeRead \/ FreeEntry
  PROVE  Shorter
<1>1. list' = list /\ env_np' = env_np
  BY DEF FreeRead, FreeEntry
<1>2. Ahead' = Ahead
  BY <1>1 DEF Ahead, Passed
<1>3. TurnLeft' < TurnLeft
  BY DEF FreeRead, FreeEntry, TurnLeft
<1>4. QED
  BY <1>1, <1>2, <1>3 DEF Shorter

\* Every operation ends after as many turns of its loop as there are entries at
\* most: each turn leaves another one of them behind, and none is added.
THEOREM CallEnds == Spec => [][Running /\ Running' => Shorter]_vars
<1>1. IInv /\ [Next]_vars => [Running /\ Running' => Shorter]_vars
  <2> SUFFICES ASSUME IInv, Next, Running, Running' PROVE Shorter
    OBVIOUS
  <2>1. ~PutFound /\ ~PutNew /\ ~GetFound /\ ~GetMissing /\ ~TraverseEnd /\ ~DeinitEnd
    BY DEF PutFound, PutNew, GetFound, GetMissing, TraverseEnd, DeinitEnd, Return, Running
  <2>2. \A c \in Calls : ~Call(c)
    BY DEF Call, Running
  <2>3. QED
    BY <2>1, <2>2, StepIsShorter, TurnIsShorter DEF Next, Step
<1>2. QED
  BY <1>1, Inductive, PTL DEF Spec
=============================================================================
