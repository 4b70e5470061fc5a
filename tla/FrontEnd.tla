------------------------------ MODULE FrontEnd ------------------------------
(***************************************************************************)
(* The lexer and the parser together, as main() calls them: parse() sets a *)
(* line, and each rule asks the lexer for a token, waits while the lexer   *)
(* scans and then acts on it.  Both keep state from one line to the next.  *)
(***************************************************************************)
EXTENDS Integers, Sequences, Characters

CONSTANTS Lines, MaxLines, BufferSize, CharIsSigned, \* of the lexer
          ArgsMax, Env, Addr, NULL                   \* of the parser

ASSUME LinesAssumption == Lines \subseteq Seq(Chars)
ASSUME ArgsMaxAssumption == ArgsMax \in Nat

VARIABLES
  line, char_no, state, buffer, calling, start, tok, lineCount,
  args_obj, argc, command_value, heap, copies, deletions, seen, pc, ret, parses,
  outcome     \* history: what parse() made of each line, the last time

lexerVars  == <<line, char_no, state, buffer, calling, start, tok, lineCount>>
parserVars == <<args_obj, argc, command_value, heap, copies, deletions, seen, pc, ret, parses>>
vars == <<lexerVars, parserVars, outcome>>

L == INSTANCE Lexer
P == INSTANCE Parser WITH Tokens <- [type : L!TokenTypes, text : Seq(Chars)],
                          MaxParses <- MaxLines

\* malloc returns no null pointer here, and an object is none.
ASSUME NullAssumption == NULL \notin Addr \cup [type : L!TokenTypes, text : Seq(Chars)]

----------------------------------------------------------------------------

\* What main() and the command can see of a parse: the value returned, the
\* command and the arguments.
Seen == [ret     |-> ret,
         command |-> IF ret = "OK" THEN command_value.symbol ELSE <<>>,
         args    |-> IF ret = "OK" THEN [i \in 1 .. argc |-> heap[args_obj[i - 1]]] ELSE <<>>]

\* The token of the call that returns in this step, as the parser sees it.
Received == [type |-> tok'.type, text |-> tok'.text]

\* parse(parser, line)
ParseLine == L!LineSet /\ P!Parse /\ UNCHANGED outcome

\* A rule calls lexer_token_get.
Ask == /\ pc \in {"START", "ARG"}
       /\ L!TokenGet
       /\ UNCHANGED <<parserVars, outcome>>

\* The lexer goes on.
Scan == L!ScanStep /\ calling' /\ UNCHANGED <<parserVars, outcome>>

\* The lexer returns, and the rule that asked acts on the token.
Answer ==
  /\ L!ScanStep /\ ~calling'
  /\ P!RuleStart(Received) \/ P!RuleArg(Received)
  /\ outcome' = IF pc' = "IDLE"
                THEN [l \in DOMAIN outcome \cup {line} |-> IF l = line THEN Seen' ELSE outcome[l]]
                ELSE outcome

ParserDelete == ~calling /\ P!ParserDelete /\ UNCHANGED <<lexerVars, outcome>>

Init == L!Init /\ P!Init /\ outcome = [l \in {} |-> NULL]

Next == ParseLine \/ Ask \/ Scan \/ Answer \/ ParserDelete

Spec == Init /\ [][Next]_vars

\* parse() is a function call: once it is entered it runs.
FairSpec == Spec /\ WF_vars(Ask \/ Scan \/ Answer)

----------------------------------------------------------------------------
(* What must hold.                                                         *)

\* No character the user typed is silently ignored: a line that is accepted
\* has been taken to its end, or to the byte 0xFF that _getc cannot tell from
\* EOF.
AcceptedToTheEnd ==
  pc = "IDLE" /\ ret \in {"OK", "EOF"} =>
    char_no = Len(line) \/ (CharIsSigned /\ line[char_no] = XFF)

\* Nothing is left over from the lines before: when a line is typed again, the
\* parser returns the same and the command gets the same arguments, although
\* the automaton, the vector, the heap and command_value all survive a line
\* and an error leaves them half way.
SameLineSameOutcome ==
  [][\A l \in DOMAIN outcome : outcome'[l] = outcome[l]]_outcome

\* A parse of a line of n characters asks for at most n + 1 tokens, so the
\* vector never overflows on a line of at most ArgsMax + 1 characters.
ShortLinesFit ==
  /\ pc \in {"START", "ARG", "IDLE"} => Len(seen) <= Len(line) + 1
  /\ ret = "EXCEEDED_ARGS_COUNT" => Len(line) > ArgsMax + 1

\* parse() returns, whatever was typed: the lexer's calls end and the parser
\* never asks for a token once the line is finished.
ParseReturns == pc = "START" ~> pc = "IDLE"
=============================================================================
