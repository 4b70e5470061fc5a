------------------------------- MODULE Parser -------------------------------
(***************************************************************************)
(* The parser of shell/parser.c: parse() empties the argument vector of    *)
(* the previous line, takes the tokens of a line one by one and makes an   *)
(* object of every argument.  The tokens are those the lexer could return, *)
(* in any order; the objects live in a heap, because what can go wrong     *)
(* here is who deletes what, and when.                                     *)
(***************************************************************************)
EXTENDS Integers, Sequences, FiniteSets

CONSTANTS
  ArgsMax,     \* COMMANDS_ARGS_MAX, 256 in the code
  Tokens,      \* the tokens the lexer may return
  Env,         \* the environment: what each defined symbol is bound to
  Addr,        \* where malloc may place an object
  NULL,
  MaxParses    \* how many lines are parsed in one behaviour (a bound of the model)

ArgTypes   == {"SYMBOL", "STRING", "INTEGER"}
TokenTypes == ArgTypes \cup {"EOF", "ERROR"}

ASSUME ArgsMaxAssumption == ArgsMax \in Nat
ASSUME TokensAssumption == \A t \in Tokens : t.type \in TokenTypes
ASSUME MaxParsesAssumption == MaxParses \in Nat

VARIABLES
  args_obj,       \* stream->args_obj
  argc,           \* stream->argc
  command_value,  \* stream->command_value, and who owns the string it points to
  heap,           \* the objects: heap[a] is NULL where none is allocated
  copies,         \* the objects whose string copy is allocated
  deletions,      \* how often each token of this line has been deleted, by position
  seen,           \* history: the tokens taken from this line
  pc,             \* where parse() is: in no rule, in _rule_start or in _rule_arg
  ret,            \* what the last parse() returned
  parses          \* lines parsed so far; bounded by MaxParses

stream == <<args_obj, argc>>
memory == <<heap, copies>>
vars == <<args_obj, argc, command_value, heap, copies, deletions, seen, pc, ret, parses>>

Indices == 0 .. ArgsMax - 1
Rets == {"OK", "EOF", "SYNTAX_ERROR", "UNDEFINED_SYMBOL", "EXPECTED_SYMBOL",
         "EXCEEDED_ARGS_COUNT"}

Object(t) == [type |-> t.type, text |-> t.text]
Objects == {Object(t) : t \in {u \in Tokens : u.type \in ArgTypes}}

ASSUME NullAssumption == NULL \notin Addr \cup Objects

\* object_symbol_copy_new and object_string_copy_new strdup the text.
Copied == {"SYMBOL", "STRING"}

----------------------------------------------------------------------------
(* Memory.                                                                 *)

\* The object types parser_new sets a destructor for.
Destructors == {"SYMBOL", "STRING"}

\* object_delete of every object of the set.
ObjectsDelete(as) ==
  /\ heap' = [a \in Addr |-> IF a \in as THEN NULL ELSE heap[a]]
  /\ copies' = {a \in copies : a \in as => heap[a].type \notin Destructors}

ParserCleanup_UpToArgc ==
  /\ ObjectsDelete({args_obj[i] : i \in {j \in Indices : j < argc - 1}} \ {NULL})
  /\ args_obj' = [i \in Indices |-> NULL]
  /\ argc' = 0
\* _parser_cleanup
ParserCleanup ==
  /\ ObjectsDelete({args_obj[i] : i \in Indices} \ {NULL})
  /\ args_obj' = [i \in Indices |-> NULL]
  /\ argc' = 0

----------------------------------------------------------------------------
(* The rules.                                                              *)

\* How often the tokens are deleted when _rule_start has taken the first.
FirstTaken == <<0>>

\* parse() returns r through the exit of _rule_start, which deletes the first
\* token of the line.  ds says how often each one was deleted before.
Return_LastTokenToo(r, ds) ==
  /\ pc' = "IDLE" /\ ret' = r
  /\ deletions' = [ds EXCEPT ![1] = @ + 1, ![Len(ds)] = @ + 1]
  /\ UNCHANGED <<stream, memory, parses>>
Return(r, ds) ==
  /\ pc' = "IDLE" /\ ret' = r
  /\ deletions' = [ds EXCEPT ![1] = @ + 1]
  /\ UNCHANGED <<stream, memory, parses>>
\* _rule_arg returns, having deleted the token it took.
ReturnArg(r) == Return(r, Append(deletions, 1))

\* parse() is called: lexer_line_set, then _parser_cleanup.
Parse ==
  /\ pc = "IDLE" /\ parses < MaxParses
  /\ parses' = parses + 1
  /\ pc' = "START" /\ ret' = "NONE"
  /\ seen' = <<>> /\ deletions' = <<>>
  /\ ParserCleanup
  /\ UNCHANGED command_value

IsCommand(t) == t.type = "SYMBOL" /\ t.text \in DOMAIN Env

RuleStart_AnyWord(t) ==
  /\ pc = "START"
  /\ seen' = <<t>>
  /\ \/ t.type = "EOF"   /\ Return("EOF", FirstTaken)
                         /\ UNCHANGED command_value
     \/ t.type = "ERROR" /\ Return("SYNTAX_ERROR", FirstTaken)
                         /\ UNCHANGED command_value
     \/ t.type \in {"STRING", "INTEGER"} /\ Return("EXPECTED_SYMBOL", FirstTaken)
                         /\ UNCHANGED command_value
     \/ /\ t.type = "SYMBOL"
        /\ command_value' = [owner |-> "env", symbol |-> t.text, value |-> t.text]
        /\ pc' = "ARG" /\ deletions' = FirstTaken
        /\ UNCHANGED <<stream, memory, ret, parses>>
\* _rule_start with t for its token.  env_get makes the pair point into the
\* token when the symbol is not defined, and the token is deleted on the way
\* out.
RuleStart(t) ==
  /\ pc = "START"
  /\ seen' = <<t>>
  /\ \/ t.type = "EOF"   /\ Return("EOF", FirstTaken)
                         /\ UNCHANGED command_value
     \/ t.type = "ERROR" /\ Return("SYNTAX_ERROR", FirstTaken)
                         /\ UNCHANGED command_value
     \/ t.type \in {"STRING", "INTEGER"} /\ Return("EXPECTED_SYMBOL", FirstTaken)
                         /\ UNCHANGED command_value
     \/ /\ t.type = "SYMBOL" /\ ~IsCommand(t)
        /\ command_value' = [owner |-> "deleted token", symbol |-> t.text, value |-> NULL]
        /\ Return("UNDEFINED_SYMBOL", FirstTaken)
     \/ /\ IsCommand(t)
        /\ command_value' = [owner |-> "env", symbol |-> t.text, value |-> Env[t.text]]
        /\ pc' = "ARG" /\ deletions' = FirstTaken
        /\ UNCHANGED <<stream, memory, ret, parses>>

\* The object of an argument is made and stored.  Nobody deletes the token.
Argument(t) ==
  /\ \E a \in {b \in Addr : heap[b] = NULL} :
       /\ heap' = [heap EXCEPT ![a] = Object(t)]
       /\ copies' = IF t.type \in Copied THEN copies \cup {a} ELSE copies
       /\ args_obj' = [args_obj EXCEPT ![argc] = a]
  /\ argc' = argc + 1
  /\ deletions' = Append(deletions, 0)
  /\ UNCHANGED <<pc, ret, parses>>

RuleArg_OffByOne(t) ==
  /\ pc = "ARG"
  /\ seen' = Append(seen, t)
  /\ UNCHANGED command_value
  /\ \/ t.type = "EOF"   /\ ReturnArg("OK")
     \/ t.type = "ERROR" /\ ReturnArg("SYNTAX_ERROR")
     \/ t.type \in ArgTypes /\ argc + 1 >= ArgsMax /\ ReturnArg("EXCEEDED_ARGS_COUNT")
     \/ t.type \in ArgTypes /\ argc + 1 < ArgsMax /\ Argument(t)
RuleArg_NoLimit(t) ==
  /\ pc = "ARG"
  /\ seen' = Append(seen, t)
  /\ UNCHANGED command_value
  /\ \/ t.type = "EOF"   /\ ReturnArg("OK")
     \/ t.type = "ERROR" /\ ReturnArg("SYNTAX_ERROR")
     \/ t.type \in ArgTypes /\ Argument(t)
RuleArg_EndNotSeen(t) ==
  /\ pc = "ARG"
  /\ seen' = Append(seen, t)
  /\ UNCHANGED command_value
  /\ \/ t.type = "EOF"   /\ ReturnArg("OK")
     \/ argc = ArgsMax  /\ ReturnArg("EXCEEDED_ARGS_COUNT")
     \/ /\ t.type = "ERROR" /\ argc # ArgsMax
        /\ deletions' = Append(deletions, 0)
        /\ UNCHANGED <<stream, memory, pc, ret, parses>>
     \/ t.type \in ArgTypes /\ argc # ArgsMax /\ Argument(t)
\* _rule_arg with t for its token; its tail call is the next step.
RuleArg(t) ==
  /\ pc = "ARG"
  /\ seen' = Append(seen, t)
  /\ UNCHANGED command_value
  /\ \/ t.type = "EOF"   /\ ReturnArg("OK")
     \/ t.type = "ERROR" /\ ReturnArg("SYNTAX_ERROR")
     \/ t.type \in ArgTypes /\ argc = ArgsMax /\ ReturnArg("EXCEEDED_ARGS_COUNT")
     \/ t.type \in ArgTypes /\ argc # ArgsMax /\ Argument(t)

\* parser_delete; the lexer and the stream go with it.
ParserDelete ==
  /\ pc = "IDLE"
  /\ pc' = "DELETED"
  /\ ParserCleanup
  /\ UNCHANGED <<command_value, deletions, seen, ret, parses>>

Rule == \E t \in Tokens : RuleStart(t) \/ RuleArg(t)

\* parser_new
Init == /\ args_obj = [i \in Indices |-> NULL]
        /\ argc = 0
        /\ command_value = [owner |-> "none", symbol |-> NULL, value |-> NULL]
        /\ heap = [a \in Addr |-> NULL]
        /\ copies = {}
        /\ deletions = <<>>
        /\ seen = <<>>
        /\ pc = "IDLE"
        /\ ret = "NONE"
        /\ parses = 0

Next == Parse \/ Rule \/ ParserDelete

Spec == Init /\ [][Next]_vars
----------------------------------------------------------------------------
(* What must hold.                                                         *)

Stored == {i \in Indices : i < argc}

TypeOK ==
  /\ args_obj \in [Indices -> Addr \cup {NULL}]
  /\ argc \in 0 .. ArgsMax
  /\ heap \in [Addr -> Objects \cup {NULL}]
  /\ copies \subseteq Addr
  /\ seen \in Seq(Tokens)
  /\ deletions \in Seq(Nat) /\ Len(deletions) = Len(seen)
  /\ pc \in {"IDLE", "START", "ARG", "DELETED"}
  /\ ret \in Rets \cup {"NONE"}
  /\ parses \in 0 .. MaxParses

\* The vector holds exactly the objects that exist: the first argc elements
\* point to different live objects and the others are NULL, no object is out of
\* the vector's reach (leaked), and a string copy lives as long as its object.
\* So _parser_cleanup, which passes all ArgsMax elements to object_delete,
\* deletes every object once, whatever the previous line left behind.
ArgumentsOwned ==
  /\ \A i \in Indices : (args_obj[i] # NULL) <=> (i < argc)
  /\ \A i, j \in Stored : args_obj[i] = args_obj[j] => i = j
  /\ {a \in Addr : heap[a] # NULL} = {args_obj[i] : i \in Stored}
  /\ copies = {a \in Addr : heap[a] # NULL /\ heap[a].type \in Copied}

\* parser.c:9-12, the grammar: a line is a command and its arguments.
Sentence(s) ==
  /\ Len(s) \in 2 .. ArgsMax + 2
  /\ IsCommand(s[1])
  /\ \A i \in 2 .. Len(s) - 1 : s[i].type \in ArgTypes
  /\ s[Len(s)].type = "EOF"

Returned == pc = "IDLE" /\ ret # "NONE"

\* parse() says what the line was: OK exactly for the sentences of the
\* grammar that fit the vector, and the arguments are then the line's, in
\* order and none lost; SYNTAX_ERROR exactly where the lexer failed; EOF only
\* for a blank line.  A limit that is reached is reported only when one more
\* argument was there.
ParsesGrammar ==
  Returned =>
    /\ ret = "OK" <=> Sentence(seen)
    /\ ret = "OK" => [i \in 1 .. argc |-> heap[args_obj[i - 1]]]
                      = [i \in 1 .. Len(seen) - 2 |-> Object(seen[i + 1])]
    /\ ret = "EOF" <=> Len(seen) = 1 /\ seen[1].type = "EOF"
    /\ ret = "SYNTAX_ERROR" <=> seen[Len(seen)].type = "ERROR"
    /\ ret = "EXCEEDED_ARGS_COUNT" =>
         Len(seen) = ArgsMax + 2 /\ \A i \in 2 .. Len(seen) : seen[i].type \in ArgTypes

\* main() reads command_value after OK only, and then its string is the
\* environment's and not that of a token parse() has deleted (env_get leaves
\* such a pair behind when the symbol is not defined), and its value is the
\* one bound to the word the line began with.
CommandValueUsable ==
  Returned /\ ret = "OK" =>
    command_value = [owner |-> "env", symbol |-> seen[1].text, value |-> Env[seen[1].text]]

\* Of the tokens of a line, parse() leaves the arguments' behind, however it
\* returns; the command's token, the last one and a rejected one are deleted
\* once and not twice, although two functions share the work and the one that
\* deletes the last token returns through the one that deletes the first.
OnlyArgumentTokensKept ==
  Returned => \A i \in 1 .. Len(seen) : deletions[i] = IF i \in 2 .. argc + 1 THEN 0 ELSE 1

\* The lexer is not asked for a token after EOF or ERROR, nor after the vector
\* overflowed: the recursion of _rule_arg is at most ArgsMax + 1 deep.
StopsAtLast ==
  /\ Len(seen) <= ArgsMax + 2
  /\ \A i \in 1 .. Len(seen) : seen[i].type \in {"EOF", "ERROR"} => i = Len(seen)
  /\ pc = "ARG" => \A i \in 1 .. Len(seen) : seen[i].type \in ArgTypes

\* The strengthening of the above that is inductive: while _rule_arg runs, the
\* arguments stored so far are the tokens taken after the command.
InArgument ==
  pc = "ARG" =>
    /\ Len(seen) = argc + 1
    /\ IsCommand(seen[1])
    /\ command_value = [owner |-> "env", symbol |-> seen[1].text, value |-> Env[seen[1].text]]
    /\ \A i \in 1 .. Len(seen) : seen[i].type \in ArgTypes
    /\ \A i \in Stored : heap[args_obj[i]] = Object(seen[i + 2])
    /\ \A i \in 1 .. Len(seen) : deletions[i] = 0
InStart == pc = "START" => seen = <<>> /\ deletions = <<>> /\ argc = 0
Parsing == pc \in {"START", "ARG"} => ret = "NONE"

IInv == /\ TypeOK
        /\ ArgumentsOwned
        /\ InStart
        /\ InArgument
        /\ Parsing
        /\ ParsesGrammar
        /\ CommandValueUsable
        /\ OnlyArgumentTokensKept
        /\ StopsAtLast
============================================================================
