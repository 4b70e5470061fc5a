---------------------------- MODULE ParserProofs ----------------------------
(***************************************************************************)
(* Parser for every limit, every set of tokens, every environment and      *)
(* every heap.  The inductive invariant IInv adds to the invariants of the *)
(* runs what _rule_arg has done so far: the arguments stored are the       *)
(* tokens taken after the command.                                         *)
(***************************************************************************)
EXTENDS Parser, TLAPS

----------------------------------------------------------------------------
(* Memory.                                                                 *)

\* _parser_cleanup leaves no object, no copy and no pointer behind: whatever
\* the vector holds is all there is.
LEMMA CleanedUp ==
  ASSUME TypeOK, ArgumentsOwned, ParserCleanup
  PROVE  /\ heap' = [a \in Addr |-> NULL]
         /\ copies' = {}
         /\ args_obj' = [i \in Indices |-> NULL]
         /\ argc' = 0
<1> DEFINE held == {args_obj[i] : i \in Indices} \ {NULL}
<1>1. \A a \in Addr : heap[a] # NULL => a \in held
  BY NullAssumption DEF ArgumentsOwned, Stored, TypeOK
<1>2. heap' = [a \in Addr |-> NULL]
  BY <1>1 DEF ParserCleanup, ObjectsDelete, TypeOK
<1>3. copies' = {}
  BY <1>1 DEF ParserCleanup, ObjectsDelete, ArgumentsOwned, Copied, Destructors
<1>4. QED
  BY <1>2, <1>3 DEF ParserCleanup

\* An empty vector and an empty heap belong together.
LEMMA EmptyOwned ==
  ASSUME heap = [a \in Addr |-> NULL], copies = {},
         args_obj = [i \in Indices |-> NULL], argc = 0
  PROVE  /\ args_obj \in [Indices -> Addr \cup {NULL}]
         /\ argc \in 0 .. ArgsMax
         /\ heap \in [Addr -> Objects \cup {NULL}]
         /\ ArgumentsOwned
<1>1. Stored = {}
  BY DEF Stored, Indices
<1>2. QED
  BY <1>1, ArgsMaxAssumption DEF ArgumentsOwned, Indices

----------------------------------------------------------------------------
(* One lemma per action.                                                   *)

LEMMA InitInv == Init => IInv
<1> SUFFICES ASSUME Init PROVE IInv
  OBVIOUS
<1>1. /\ args_obj \in [Indices -> Addr \cup {NULL}]
      /\ argc \in 0 .. ArgsMax
      /\ heap \in [Addr -> Objects \cup {NULL}]
      /\ ArgumentsOwned
  BY EmptyOwned DEF Init
<1>2. seen \in Seq(Tokens) /\ Len(seen) = 0
  BY DEF Init
<1>3. TypeOK
  BY <1>1, <1>2, MaxParsesAssumption DEF Init, TypeOK
<1>4. StopsAtLast
  BY <1>2, ArgsMaxAssumption DEF Init, StopsAtLast
<1>5. QED
  BY <1>1, <1>3, <1>4 DEF Init, IInv, InStart, InArgument, Parsing, ParsesGrammar,
     CommandValueUsable, OnlyArgumentTokensKept, Returned

LEMMA ParseInv == IInv /\ Parse => IInv'
<1> SUFFICES ASSUME IInv, Parse PROVE IInv'
  OBVIOUS
<1>1. /\ heap' = [a \in Addr |-> NULL] /\ copies' = {}
      /\ args_obj' = [i \in Indices |-> NULL] /\ argc' = 0
  BY CleanedUp DEF IInv, Parse
<1>2. /\ args_obj' \in [Indices -> Addr \cup {NULL}]
      /\ argc' \in 0 .. ArgsMax
      /\ heap' \in [Addr -> Objects \cup {NULL}]
      /\ ArgumentsOwned'
  <2>1. Stored' = {}
    BY <1>1 DEF Stored, Indices
  <2>2. QED
    BY <1>1, <2>1, ArgsMaxAssumption DEF ArgumentsOwned, Indices
<1>3. seen' \in Seq(Tokens) /\ Len(seen') = 0 /\ seen' = <<>>
  BY DEF Parse
<1>4. TypeOK'
  BY <1>1, <1>2, <1>3, MaxParsesAssumption DEF IInv, Parse, TypeOK
<1>5. StopsAtLast'
  BY <1>3, ArgsMaxAssumption DEF Parse, StopsAtLast
<1>6. QED
  BY <1>1, <1>2, <1>3, <1>4, <1>5 DEF Parse, IInv, InStart, InArgument, Parsing,
     ParsesGrammar, CommandValueUsable, OnlyArgumentTokensKept, Returned

LEMMA ParserDeleteInv == IInv /\ ParserDelete => IInv'
<1> SUFFICES ASSUME IInv, ParserDelete PROVE IInv'
  OBVIOUS
<1>1. /\ heap' = [a \in Addr |-> NULL] /\ copies' = {}
      /\ args_obj' = [i \in Indices |-> NULL] /\ argc' = 0
  BY CleanedUp DEF IInv, ParserDelete
<1>2. /\ args_obj' \in [Indices -> Addr \cup {NULL}]
      /\ argc' \in 0 .. ArgsMax
      /\ heap' \in [Addr -> Objects \cup {NULL}]
      /\ ArgumentsOwned'
  <2>1. Stored' = {}
    BY <1>1 DEF Stored, Indices
  <2>2. QED
    BY <1>1, <2>1, ArgsMaxAssumption DEF ArgumentsOwned, Indices
<1>3. TypeOK'
  BY <1>1, <1>2 DEF IInv, ParserDelete, TypeOK
<1>4. QED
  BY <1>2, <1>3 DEF ParserDelete, IInv, InStart, InArgument, Parsing, ParsesGrammar,
     CommandValueUsable, OnlyArgumentTokensKept, Returned, StopsAtLast

\* parse() returns from _rule_start: the line is its first token.
LEMMA RuleStartReturnInv ==
  ASSUME IInv, NEW t \in Tokens, NEW r \in Rets \ {"OK", "EXCEEDED_ARGS_COUNT"},
         pc = "START", seen' = <<t>>, Return(r, FirstTaken),
         r = "EOF" <=> t.type = "EOF",
         r = "SYNTAX_ERROR" <=> t.type = "ERROR"
  PROVE  IInv'
<1>1. argc = 0
  BY DEF IInv, InStart
<1>2. seen' \in Seq(Tokens) /\ Len(seen') = 1 /\ seen'[1] = t
  OBVIOUS
<1>0. deletions' \in Seq(Nat) /\ Len(deletions') = 1 /\ deletions'[1] = 1
  BY DEF Return, FirstTaken
<1>3. TypeOK'
  BY <1>0, <1>1, <1>2 DEF IInv, TypeOK, Return, stream, memory, Rets
<1>4. ArgumentsOwned'
  BY DEF IInv, ArgumentsOwned, Stored, Return, stream, memory
<1>5. StopsAtLast'
  BY <1>2, ArgsMaxAssumption DEF StopsAtLast, Return
<1>6. ParsesGrammar'
  BY <1>2 DEF ParsesGrammar, Returned, Sentence, Return
<1>7. OnlyArgumentTokensKept'
  BY <1>0, <1>1, <1>2 DEF OnlyArgumentTokensKept, Return, stream
<1>8. QED
  BY <1>3, <1>4, <1>5, <1>6, <1>7 DEF IInv, InStart, InArgument, Parsing,
     CommandValueUsable, Return

LEMMA RuleStartInv == ASSUME NEW t \in Tokens, IInv, RuleStart(t) PROVE IInv'
<1>1. pc = "START" /\ seen' = <<t>>
  BY DEF RuleStart
<1>2. CASE t.type = "EOF" /\ Return("EOF", FirstTaken)
  BY <1>1, <1>2, RuleStartReturnInv DEF Rets
<1>3. CASE t.type = "ERROR" /\ Return("SYNTAX_ERROR", FirstTaken)
  BY <1>1, <1>3, RuleStartReturnInv DEF Rets
<1>4. CASE t.type \in {"STRING", "INTEGER"} /\ Return("EXPECTED_SYMBOL", FirstTaken)
  BY <1>1, <1>4, RuleStartReturnInv DEF Rets
<1>5. CASE t.type = "SYMBOL" /\ Return("UNDEFINED_SYMBOL", FirstTaken)
  BY <1>1, <1>5, RuleStartReturnInv DEF Rets
<1>6. CASE /\ IsCommand(t)
           /\ command_value' = [owner |-> "env", symbol |-> t.text, value |-> Env[t.text]]
           /\ pc' = "ARG" /\ deletions' = FirstTaken
           /\ UNCHANGED <<stream, memory, ret, parses>>
  <2>1. argc = 0 /\ ret = "NONE" /\ UNCHANGED <<args_obj, argc, heap, copies, ret, parses>>
    BY <1>1, <1>6 DEF IInv, InStart, Parsing, stream, memory
  <2>2. seen' \in Seq(Tokens) /\ Len(seen') = 1 /\ seen'[1] = t
    BY <1>1
  <2>9. deletions' \in Seq(Nat) /\ Len(deletions') = 1 /\ deletions'[1] = 0
    BY <1>6 DEF FirstTaken
  <2>3. TypeOK'
    BY <1>6, <2>9, <2>1, <2>2 DEF IInv, TypeOK
  <2>4. ArgumentsOwned' /\ Stored' = {}
    BY <2>1 DEF IInv, ArgumentsOwned, Stored, Indices
  <2>5. t.type \in ArgTypes /\ t.type \notin {"EOF", "ERROR"}
    BY <1>6 DEF IsCommand, ArgTypes
  <2>6. StopsAtLast'
    BY <2>2, <2>5, ArgsMaxAssumption DEF StopsAtLast
  <2>7. InArgument'
    BY <1>6, <2>9, <2>1, <2>2, <2>4, <2>5 DEF InArgument
  <2>8. QED
    BY <1>6, <2>1, <2>3, <2>4, <2>6, <2>7 DEF IInv, InStart, Parsing, ParsesGrammar,
       CommandValueUsable, OnlyArgumentTokensKept, Returned
<1>7. QED
  BY <1>2, <1>3, <1>4, <1>5, <1>6 DEF RuleStart

\* parse() returns from _rule_arg: the line is its command, the arguments
\* stored and the last token.
LEMMA RuleArgReturnInv ==
  ASSUME IInv, NEW t \in Tokens, NEW r \in {"OK", "SYNTAX_ERROR", "EXCEEDED_ARGS_COUNT"},
         pc = "ARG", seen' = Append(seen, t), UNCHANGED command_value,
         Return(r, Append(deletions, 1)),
         r = "OK" <=> t.type = "EOF",
         r = "SYNTAX_ERROR" <=> t.type = "ERROR",
         r = "EXCEEDED_ARGS_COUNT" => argc = ArgsMax /\ t.type \in ArgTypes
  PROVE  IInv'
<1>1. /\ Len(seen) = argc + 1 /\ IsCommand(seen[1])
      /\ command_value = [owner |-> "env", symbol |-> seen[1].text, value |-> Env[seen[1].text]]
      /\ \A i \in 1 .. Len(seen) : seen[i].type \in ArgTypes
      /\ \A i \in Stored : heap[args_obj[i]] = Object(seen[i + 2])
      /\ \A i \in 1 .. Len(seen) : deletions[i] = 0
  BY DEF IInv, InArgument
<1>2. /\ argc \in 0 .. ArgsMax /\ seen \in Seq(Tokens)
      /\ deletions \in Seq(Nat) /\ Len(deletions) = Len(seen)
  BY DEF IInv, TypeOK
<1>3. /\ seen' \in Seq(Tokens)
      /\ Len(seen') = argc + 2
      /\ seen'[Len(seen')] = t
      /\ \A i \in 1 .. argc + 1 : seen'[i] = seen[i]
  BY <1>1, <1>2
<1>0. /\ deletions' \in Seq(Nat) /\ Len(deletions') = argc + 2
      /\ \A i \in 1 .. argc + 2 : deletions'[i] = IF i \in 2 .. argc + 1 THEN 0 ELSE 1
  <2> DEFINE ds == Append(deletions, 1)
  <2>1. ds \in Seq(Nat) /\ Len(ds) = argc + 2
    BY <1>1, <1>2
  <2>2. \A i \in 1 .. argc + 2 : ds[i] = IF i = argc + 2 THEN 1 ELSE 0
    BY <1>1, <1>2
  <2>3. deletions' = [ds EXCEPT ![1] = @ + 1]
    BY DEF Return
  <2> HIDE DEF ds
  <2>4. QED
    BY <1>2, <2>1, <2>2, <2>3
<1>4. TypeOK'
  BY <1>0, <1>1, <1>2, <1>3 DEF IInv, TypeOK, Return, stream, memory, Rets
<1>5. ArgumentsOwned'
  BY DEF IInv, ArgumentsOwned, Stored, Return, stream, memory
<1>6. StopsAtLast'
  <2>1. pc' = "IDLE"
    BY DEF Return
  <2>2. \A i \in 1 .. argc + 1 : seen'[i].type \notin {"EOF", "ERROR"}
    BY <1>1, <1>3 DEF ArgTypes
  <2>3. QED
    BY <1>2, <1>3, <2>1, <2>2, ArgsMaxAssumption DEF StopsAtLast
<1>7. OnlyArgumentTokensKept'
  BY <1>0, <1>2, <1>3 DEF OnlyArgumentTokensKept, Return, stream
<1>8. CommandValueUsable'
  BY <1>1, <1>2, <1>3 DEF CommandValueUsable
<1>9. ParsesGrammar'
  <2>1. pc' = "IDLE" /\ ret' = r /\ UNCHANGED <<args_obj, argc, heap>>
    BY DEF Return, stream, memory
  <2>2. Sentence(seen') <=> t.type = "EOF"
    BY <1>1, <1>2, <1>3, ArgsMaxAssumption DEF Sentence, IsCommand, ArgTypes
  <2>3. [i \in 1 .. argc' |-> heap'[args_obj'[i - 1]]]
        = [i \in 1 .. Len(seen') - 2 |-> Object(seen'[i + 1])]
    <3>1. Len(seen') - 2 = argc
      BY <1>2, <1>3
    <3>2. \A i \in 1 .. argc : i - 1 \in Stored /\ (i - 1) + 2 = i + 1 /\ i + 1 \in 1 .. argc + 1
      BY <1>2, ArgsMaxAssumption DEF Stored, Indices
    <3>3. \A i \in 1 .. argc : heap[args_obj[i - 1]] = Object(seen'[i + 1])
      BY <1>1, <1>3, <3>2
    <3>4. QED
      BY <2>1, <3>1, <3>3
  <2>4. r = "EXCEEDED_ARGS_COUNT" =>
          Len(seen') = ArgsMax + 2 /\ \A i \in 2 .. Len(seen') : seen'[i].type \in ArgTypes
    BY <1>1, <1>2, <1>3, ArgsMaxAssumption
  <2>5. ~ (Len(seen') = 1) /\ r # "EOF"
    BY <1>2, <1>3
  <2>6. QED
    BY <1>3, <2>1, <2>2, <2>3, <2>4, <2>5 DEF ParsesGrammar
<1>10. QED
  BY <1>4, <1>5, <1>6, <1>7, <1>8, <1>9 DEF IInv, InStart, InArgument, Parsing, Return

\* An argument is stored where the vector has a place left.
LEMMA ArgumentInv ==
  ASSUME IInv, NEW t \in Tokens, pc = "ARG", seen' = Append(seen, t),
         UNCHANGED command_value, t.type \in ArgTypes, argc # ArgsMax, Argument(t)
  PROVE  IInv'
<1>1. PICK a \in Addr :
        /\ heap[a] = NULL
        /\ heap' = [heap EXCEPT ![a] = Object(t)]
        /\ copies' = IF t.type \in Copied THEN copies \cup {a} ELSE copies
        /\ args_obj' = [args_obj EXCEPT ![argc] = a]
  BY DEF Argument
<1>2. /\ argc' = argc + 1 /\ deletions' = Append(deletions, 0)
      /\ UNCHANGED <<pc, ret, parses>>
  BY DEF Argument
<1>3. /\ argc \in Nat /\ argc < ArgsMax /\ argc \in Indices /\ Len(seen) = argc + 1
      /\ \A i \in 1 .. Len(seen) : seen[i].type \in ArgTypes
      /\ \A i \in 1 .. Len(seen) : deletions[i] = 0
  BY ArgsMaxAssumption DEF IInv, TypeOK, InArgument, Indices
<1>4. /\ heap \in [Addr -> Objects \cup {NULL}] /\ args_obj \in [Indices -> Addr \cup {NULL}]
      /\ seen \in Seq(Tokens) /\ copies \subseteq Addr
      /\ deletions \in Seq(Nat) /\ Len(deletions) = Len(seen)
  BY DEF IInv, TypeOK
<1>5. Object(t) \in Objects /\ Object(t) # NULL /\ a # NULL /\ Object(t).type = t.type
  BY NullAssumption DEF Objects, Object
<1>6. /\ seen' \in Seq(Tokens) /\ Len(seen') = argc + 2 /\ seen'[argc + 2] = t
      /\ \A i \in 1 .. argc + 1 : seen'[i] = seen[i]
  BY <1>3, <1>4
<1>0. /\ deletions' \in Seq(Nat) /\ Len(deletions') = argc + 2
      /\ \A i \in 1 .. argc + 2 : deletions'[i] = 0
  BY <1>2, <1>3, <1>4
<1>7. Stored' = Stored \cup {argc} /\ argc \notin Stored
  BY <1>2, <1>3, ArgsMaxAssumption DEF Stored, Indices
<1>8. TypeOK'
  BY <1>0, <1>1, <1>2, <1>3, <1>4, <1>5, <1>6, ArgsMaxAssumption DEF IInv, TypeOK, Indices
<1>9. \A i \in Stored : args_obj[i] \in Addr /\ args_obj[i] # a /\ args_obj'[i] = args_obj[i]
  BY <1>1, <1>4, <1>7 DEF IInv, ArgumentsOwned, Stored
<1>10. args_obj'[argc] = a /\ heap'[a] = Object(t) /\ \A b \in Addr \ {a} : heap'[b] = heap[b]
  BY <1>1, <1>3, <1>4
<1>11. ArgumentsOwned'
  <2>1. \A i \in Indices : (args_obj'[i] # NULL) <=> (i < argc')
    BY <1>1, <1>2, <1>3, <1>4, <1>5, ArgsMaxAssumption DEF IInv, ArgumentsOwned, Indices
  <2>2. \A i, j \in Stored' : args_obj'[i] = args_obj'[j] => i = j
    BY <1>7, <1>9, <1>10 DEF IInv, ArgumentsOwned
  <2>3. {b \in Addr : heap'[b] # NULL} = {args_obj'[i] : i \in Stored'}
    <3>1. {b \in Addr : heap'[b] # NULL} = {b \in Addr : heap[b] # NULL} \cup {a}
      BY <1>5, <1>10
    <3>2. {args_obj'[i] : i \in Stored'} = {args_obj[i] : i \in Stored} \cup {a}
      BY <1>7, <1>9, <1>10
    <3>3. QED
      BY <3>1, <3>2 DEF IInv, ArgumentsOwned
  <2>4. copies' = {b \in Addr : heap'[b] # NULL /\ heap'[b].type \in Copied}
    <3>1. copies = {b \in Addr : heap[b] # NULL /\ heap[b].type \in Copied}
      BY DEF IInv, ArgumentsOwned
    <3>2. a \notin copies
      BY <1>1, <3>1
    <3>3. QED
      BY <1>1, <1>5, <1>10, <3>1, <3>2
  <2>5. QED
    BY <2>1, <2>2, <2>3, <2>4 DEF ArgumentsOwned
<1>12. InArgument'
  <2>1. \A i \in Stored' : heap'[args_obj'[i]] = Object(seen'[i + 2])
    <3>1. ASSUME NEW i \in Stored PROVE heap'[args_obj'[i]] = Object(seen'[i + 2])
      <4>1. i + 2 \in 1 .. argc + 1
        BY <1>3, ArgsMaxAssumption DEF Stored, Indices
      <4>2. heap[args_obj[i]] = Object(seen[i + 2])
        BY DEF IInv, InArgument
      <4>3. QED
        BY <1>6, <1>9, <1>10, <4>1, <4>2
    <3>2. heap'[args_obj'[argc]] = Object(seen'[argc + 2])
      BY <1>6, <1>10
    <3>3. QED
      BY <1>7, <3>1, <3>2
  <2>2. \A i \in 1 .. Len(seen') : deletions'[i] = 0
    BY <1>0, <1>6
  <2>3. \A i \in 1 .. Len(seen') : seen'[i].type \in ArgTypes
    BY <1>3, <1>6
  <2>4. /\ IsCommand(seen[1])
        /\ command_value' = [owner |-> "env", symbol |-> seen[1].text, value |-> Env[seen[1].text]]
    BY DEF IInv, InArgument
  <2>5. seen'[1] = seen[1] /\ Len(seen') = argc' + 1
    BY <1>2, <1>3, <1>6
  <2>6. QED
    BY <1>2, <2>1, <2>2, <2>3, <2>4, <2>5 DEF InArgument
<1>13. StopsAtLast'
  <2>1. \A i \in 1 .. argc + 2 : seen'[i].type \in ArgTypes
    BY <1>3, <1>6
  <2>2. \A i \in 1 .. argc + 2 : seen'[i].type \notin {"EOF", "ERROR"}
    BY <2>1 DEF ArgTypes
  <2>3. QED
    BY <1>3, <1>6, <2>1, <2>2, ArgsMaxAssumption DEF StopsAtLast
<1>14. QED
  BY <1>2, <1>8, <1>11, <1>12, <1>13 DEF IInv, InStart, Parsing, ParsesGrammar,
     CommandValueUsable, OnlyArgumentTokensKept, Returned

LEMMA RuleArgInv == ASSUME NEW t \in Tokens, IInv, RuleArg(t) PROVE IInv'
<1>1. pc = "ARG" /\ seen' = Append(seen, t) /\ UNCHANGED command_value
  BY DEF RuleArg
<1>2. CASE t.type = "EOF" /\ ReturnArg("OK")
  BY <1>1, <1>2, RuleArgReturnInv DEF ReturnArg
<1>3. CASE t.type = "ERROR" /\ ReturnArg("SYNTAX_ERROR")
  BY <1>1, <1>3, RuleArgReturnInv DEF ReturnArg
<1>4. CASE t.type \in ArgTypes /\ argc = ArgsMax /\ ReturnArg("EXCEEDED_ARGS_COUNT")
  BY <1>1, <1>4, RuleArgReturnInv DEF ArgTypes, ReturnArg
<1>5. CASE t.type \in ArgTypes /\ argc # ArgsMax /\ Argument(t)
  BY <1>1, <1>5, ArgumentInv
<1>6. QED
  BY <1>2, <1>3, <1>4, <1>5 DEF RuleArg

----------------------------------------------------------------------------

THEOREM IInvHolds == Spec => []IInv
<1>1. IInv /\ [Next]_vars => IInv'
  <2> SUFFICES ASSUME IInv, [Next]_vars PROVE IInv'
    OBVIOUS
  <2>1. CASE Parse
    BY <2>1, ParseInv
  <2>2. CASE Rule
    BY <2>2, RuleStartInv, RuleArgInv DEF Rule
  <2>3. CASE ParserDelete
    BY <2>3, ParserDeleteInv
  <2>4. CASE UNCHANGED vars
    BY <2>4 DEF vars, IInv, TypeOK, ArgumentsOwned, Stored, InStart, InArgument, Parsing,
       ParsesGrammar, Returned, CommandValueUsable, OnlyArgumentTokensKept, StopsAtLast
  <2>5. QED
    BY <2>1, <2>2, <2>3, <2>4 DEF Next
<1>2. QED
  BY <1>1, InitInv, PTL DEF Spec

\* The stream and the heap keep their types (parser.h:31-35).
THEOREM TypeCorrect == Spec => []TypeOK
<1>1. IInv => TypeOK
  BY DEF IInv
<1>2. QED
  BY <1>1, IInvHolds, PTL

\* The argument vector and the heap agree, so every object is deleted once
\* and none is lost (parser.c:92-110), for every limit and every heap.
THEOREM Owned == Spec => []ArgumentsOwned
<1>1. IInv => ArgumentsOwned
  BY DEF IInv
<1>2. QED
  BY <1>1, IInvHolds, PTL

\* parse() accepts the sentences of its grammar and no other line, and hands
\* over the arguments of the line in order (parser.c:9-98).
THEOREM Grammar == Spec => []ParsesGrammar
<1>1. IInv => ParsesGrammar
  BY DEF IInv
<1>2. QED
  BY <1>1, IInvHolds, PTL

\* After OK, command_value is the environment's (parser.c:33-48, env.c:81-88).
THEOREM CommandUsable == Spec => []CommandValueUsable
<1>1. IInv => CommandValueUsable
  BY DEF IInv
<1>2. QED
  BY <1>1, IInvHolds, PTL

\* The tokens that outlive a parse are those of its arguments, and the others
\* are deleted once each (parser.c:51-52, 63-73, 94-97).
THEOREM TokensKept == Spec => []OnlyArgumentTokensKept
<1>1. IInv => OnlyArgumentTokensKept
  BY DEF IInv
<1>2. QED
  BY <1>1, IInvHolds, PTL

\* The recursion of _rule_arg is bounded by the limit (parser.c:72, 97).
THEOREM Stops == Spec => []StopsAtLast
<1>1. IInv => StopsAtLast
  BY DEF IInv
<1>2. QED
  BY <1>1, IInvHolds, PTL
=============================================================================
