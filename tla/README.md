# A TLA+ development of ssshell

`ssshell` is an interactive shell that talks to a Sega Saturn over USB. It reads
a line with readline, cuts it into tokens, parses it into a command and its
arguments, looks the command up in an environment of symbols and runs it. The
program is single-threaded C; what interrupts it is a signal (SIGINT, on Windows
SIGBREAK). The modules here
model the program's own logic from its source, check it with TLC and prove with
TLAPS, for every value of their constants, all of the safety properties the
passing runs check, the two refinements among them: the lexer's automaton reads
whole words, and the environment's tail queue is a list of bindings.

## Inventory

| component | source | state | operations | talks to |
|---|---|---|---|---|
| lexer | `shell/lexer.c` | the line, `char_no`, `state`; per call a local `buffer` | `lexer_line_set`, `lexer_token_get` (a loop over `_getc`, with `_ungetc`), `lexer_token_delete` | asked by the parser; reads the shell's buffer |
| parser | `shell/parser.c` | `stream`: `args_obj`, `argc`, `command_value` | `parse` = set line, clean up, `_rule_start`, `_rule_arg` (recursive) | lexer, environment, objects |
| objects | `object.c` | the heap, a destructor per type | `object_*_new`, `object_delete` | made by parser, commands and main |
| environment | `env.c`, `support/sys/queue.h` | a tail queue of entries that own their symbol | `env_put`, `env_get`, `env_traverse`, `env_deinit` | parser, commands, help, env |
| command table | `commands.c` | `commands[]`, constant | `commands_init`, `commands_find`, `commands_deinit` | environment, objects |
| command handlers | `commands/*.c` | the status of the last command; locals: the loops of `echo` and of the dump of `xxd` | one function per command | parser's vector, libssusb, shell |
| shell | `shell/shell.c` | `_line`, the prompt, the history | `shell_init`, `shell_deinit`, `shell_readline`, `shell_line_get`, `shell_history_add`, `_sigint_handler` | platform shell, readline, main |
| platform shell | `shell/platform/shell.c`, `shell/platform/windows/shell.c` | POSIX: the disposition of SIGINT and the one before; Windows: that of SIGBREAK, the mode of the console and the one before | `__shell_init`, `__shell_deinit`, `__shell_signal_set`, `__shell_signal_clear` | shell, the system |
| main loop | `ssshell.c` | `running`, `exit_code`, the device between `ssusb_init` and `ssusb_deinit` | `main` with the dispatch of a line, `ssshell_exit` | all of the above |

External: readline and its history, libssusb, libc, the console. Not compiled:
`commands/redirect-log.c`. Not modelled: the build files.

What is hard in it, and what makes each part correct:

* **lexer**: a hand-written automaton that puts characters back, keeps its state
  between calls, writes a fixed buffer without a bound check, and cannot tell
  the byte 0xFF from the end. It is correct when its tokens are those of a
  definition by words, every call ends, the buffer suffices and nothing is left
  over from the token or the line before.
* **parser**: a vector of 256 objects that outlives the line, returns in the
  middle of a line, tokens deleted in two places, and a pair that may point into
  a deleted token. It is correct when the answer is that of the grammar and the
  vector owns exactly the objects that exist.
* **environment**: pointer surgery on a tail queue and a walk that frees what it
  walks. It is correct when it behaves as a list of bindings.
* **command table**: one object under two names, two different lookups, and a
  deinitialisation in which the order matters.
* **command handlers**: the number of arguments is tested in `main()` for most
  commands, again in some handlers, and for `echo` in neither place before it
  reads; the types are tested one after the other; the arguments are passed to
  libssusb in an order that is not the one they are typed in; the dump ends a row
  with the first byte of the next one. They are correct when a handler reads only
  arguments that exist, asks of the device what help documents and nothing else,
  and the dump shows every byte in its place.
* **shell**: a buffer that is reused and grows by the size of the previous line
  instead of its capacity, and that a failing `malloc` or `realloc` takes away; a
  signal handler installed for a part of the time, by two platforms with different
  rules; a console mode that is set at the exit, whether it could be read or not. It
  is correct when the lexer reads the line typed, the handler is installed only while
  readline edits, and what was found is put back where it is known.
* **main loop**: what is remembered and when, and that the two returns of `main()`
  give back the device, and the one at its end the console and the disposition of
  the signal.

## Modules

| module | models | its actions, in the code |
|---|---|---|
| `Characters` | the character classes of the lexer | |
| `TokenStream` | *abstract*: the tokens of a line, each found in one step from the word it is read from | `Get`, `LineSet` |
| `Lexer` | `shell/lexer.c` | `LineSet`, `TokenGet` (the call), one `Scan...` per `lexer_state_t`, each step a turn of the loop; `ScanEnd` is the code after the loop |
| `LexerClaims` | what a comment of `lexer.c` says and the code does not do | |
| `TokenInteger`, `LexerIntegers` | the conversion in `_token_make`; what literals denote, over the tokens `Lexer` makes | |
| `Parser` | `shell/parser.c` with the part of `object.c` it uses | `Parse`, `RuleStart`, `RuleArg`, `ParserDelete` |
| `FrontEnd` | lexer and parser composed | `ParseLine`, `Ask` (a rule calls the lexer), `Scan`, `Answer` (the token arrives) |
| `EnvMap` | *abstract*: the environment as a list of bindings | `Put`, `Get`, `Traverse`, `Deinit` |
| `Environment` | `env.c` and the macros of `queue.h`, pointer by pointer | `Call`, then a step per loop iteration: `Find`, `PutNew`, `Visit`, ...; a turn of `env_deinit`'s loop is `FreeRead`, `FreeEntry`, `FreeNext` |
| `Commands` | `commands.c`, the setup and the end of `main`, help's lookup, over `EnvMap` | `ObjectNew`, `PutName`, `PutAlias`, ..., `DeinitGet`, `DeinitDelete`, `EnvDeinit` |
| `Xxd` | the dump of `commands/xxd.c` | `DumpBegin`, then a turn of the loop each: `DumpNewRow` (the byte begins a row), `DumpByte` |
| `Handlers` | `main`'s dispatch, the functions of `commands/*.c` and the life of libssusb, with `Xxd` | `Start`, `Dispatch`, one action per handler (`EchoArg` and `XxdDump` are turns of loops), `NextLine`, `Exit` |
| `Shell` | `shell/shell.c` and both platforms, chosen by `platform` | `ShellInit` (`Initialised`, or `NotInitialised` when its `malloc` fails); `SignalSet`, `Readline`, `SignalClear`, `StoreLine`, `StoreEmpty` are `shell_readline`; `Sigint`, `HistoryAdd`, `ShellDeinit` |
| `Ssshell` | `main`'s loop around the shell | `Loop`, `Parse`, `Skip`, `Run` and then `Remember`, `Exit`; `Crash` where the lexer has no buffer |
| `LexerProofs`, `IntegerProofs`, `ParserProofs`, `FrontEndProofs`, `EnvironmentProofs`, `CommandsProofs`, `HandlersProofs`, `ShellProofs` | the theorems about the module of that name; `IntegerProofs` is about `LexerIntegers` and `ShellProofs` about `Ssshell` | |
| `MC...` | values of the constants for TLC | |

An operator whose name has a suffix after an underscore, such as
`Untake_Lost`, is a deliberately wrong variant of the definition below it. With
the variant in the place of the definition, the property paired with it in
`PROJECT.json` fails: that is how we know that the property says something.

### How the models abstract the code

* Memory is a set of addresses (`Addr`) where an object or an entry may be
  placed; a freed cell is `NULL` and may be taken again, and the next pointer of a
  freed entry of the environment becomes any address. An allocation may fail where
  the code tests it and goes on: the `malloc` of `shell_init`, the `realloc` of
  `shell_readline` and the `malloc` of `xxd`. The others succeed: the code asserts
  them, some of them after it has written through the pointer (`object_new`,
  `parser_new`), or does not test them at all (the tokens, the copies of strings).
* A token is deleted a number of times (`deletions`), not removed from a set: a second
  `lexer_token_delete` of the same token would show.
* A byte of a dump is its index in the buffer, so that `Xxd` tells which byte each
  cell of the dump was read from; what the bytes are does not matter to it.
* libssusb succeeds or fails, whenever it is asked. What a handler prints is left
  out but for the objects of `echo` and the dump; what it reports with
  `commands_status_set` is `status`. What `help` finds is in `Commands`, and
  `Handlers` lets it find anything.
* A platform is two sets of operators, joined by `On`. Whether `signal()` of
  Windows resets the disposition when the handler runs is left open
  (`WindowsCatch`), as the C standard leaves it to the implementation. A signal
  that is ignored when the program starts is inherited on POSIX; a console is
  there or not, and its mode is a set of two flags (`found`): the one `__shell_init`
  adds, and one that stands for those it must leave alone. `GetConsoleMode` may fail
  (it does without a console) and so may the `SetConsoleMode` of `__shell_init`. That
  of `__shell_deinit` is assumed to succeed on a console: it sets a mode that was
  read from it, or 0.
* Texts are sequences of characters in `Lexer` and `FrontEnd`, and opaque values
  in the other modules. In `Parser` a token is a type and a text; the parser
  takes any tokens in any order, and `FrontEnd` shows which the lexer gives it.
* The 0xFF of `Characters` stands for the byte that, as a signed `char`, equals
  `EOF`. `CharIsSigned` chooses the target; both are checked.
* `Ssshell` takes what `parse()` makes of a line as a function of the line.
  `SameLineSameOutcome` of `FrontEnd`, which is proved, is the justification.
* `Lexer` assumes lines that are empty, or end with their only NUL, and fit the
  buffer (`LinesAssumption`). `LineIsTyped` of `Shell` discharges the first two;
  **nothing in the code discharges the third**: readline returns lines of any
  length, and a token of more than 1024 characters overruns `buffer`.
* `Commands` assumes of the table that no word is used twice (`WellNamed`); TLC
  evaluates that assumption on the table of the program. What a duplicate word would
  do (rebind the command of another) is therefore excluded and not modelled.
* `start` in `Lexer`, `seen` in `Parser`, `outcome` in `FrontEnd`, `list` in
  `Environment`, `last` in `Commands`, `asked` in `Handlers`, `found`,
  `fetched` and `caught` in `Shell` and `ran` in `Ssshell` are history variables. `MaxLines`, `MaxParses`, `MaxCalls`, `MaxReads` and `MaxSignals`
  bound a behaviour and are in the guards of one action each.

## Runs

| run | instance | shows |
|---|---|---|
| `lexer_words` | all lines of <= 4 characters over 16, one of each class, of <= 5 over quote, backslash, `n`, dash, LF, and of <= 5 over the characters of numbers; an int of 6 bits and a long of 10 | the buffer never overflows and is terminated, NUL is kept last, every token takes something, literals denote their value modulo the int's width (too large ones are clamped), and the automaton **implements `TokenStream`** |
| `lexer_lines` | two lines of <= 3 characters over 7, unsigned char | the state is reset, every call returns, the second line is read as the first |
| `parser` | two lines of any tokens, vector of 3, 4 addresses | grammar, ownership of objects, how often each token is deleted, `command_value`, termination of the recursion |
| `frontend` | 3 of 32 lines that fail and succeed in every way, vector of 2 | `parse()` returns; an accepted line was read to its end; a line's outcome does not depend on the lines before; short lines never overflow the vector |
| `environment` | 6 calls, 3 symbols, 2 values, 3 addresses | the queue is linked, no freed entry is read, calls return, and it **implements `EnvMap`** |
| `commands` | the program's table and all well-named tables of <= 3 commands with few words | words reach their commands, help agrees, objects are deleted once |
| `ssshell` | 3 reads of lines of <= 3 characters, 2 signals, both platforms, consoles with any of two flags, and `malloc`, `realloc`, `GetConsoleMode` and `SetConsoleMode` that may fail | the buffer fits, the lexer gets what was typed, when the handler is installed, the history, quit, and what the exit leaves |
| `handlers` | every command with every vector of <= 3 of 9 integers, a string and a symbol; rows of 3 bytes | arguments read exist, the device is asked what is documented, the dump shows memory, the device is released on both returns of `main`, handlers return (all but `echo` without arguments) |
| `lexer_escapes`, `echo_nothing`, `xxd_gutter` | small instances | violations, see Findings |

**Why the bounds suffice.** Four characters reach every transition of the
automaton from every state and back (no word needs more than two characters to
be in a state, one more to leave it, and the terminator); five distinguish runs
of one, two and three backslashes inside a string. `BufferSize` is exactly the
longest line, so one character too many would be seen. Two lines are what it
takes to see a state left over from the first, three to see a line's outcome
change between two readings with another in between. A vector of 3 has an empty,
a partial, a full and an overflowing line, and 4 addresses allow each object of
a line to take the place of any freed one. Three entries are a first, an inner
and a last one; as many addresses as symbols, so that a lost entry or a second
entry for one symbol is missed at once. Lines of 0 to 3 characters give the
shell buffer every order of growing, shrinking and emptying that two sizes and the
empty line have. Two signals are a signal the handler catches and one that comes
after it, in the same line or in a later one. Five characters of numbers reach
88888 and `0xfff`, on both sides of the int's 64 values and the long's 512. No
command takes more than 3 arguments, so vectors of 0 to 3 are every number too
few, right and too many, with every order of types. Sizes of 0 to 8 end a dump
with rows of 3 in each of its columns, before, in and behind the second row.

**Fairness.** Each fair specification assumes weak fairness of the program's own
steps and of nothing else: `ScanStep` (the loop of `lexer_token_get`), the
parser's and the lexer's steps inside `parse()`, the steps of an operation of
the environment, the main loop, the handlers (`Program` of `Ssshell` and of
`Handlers`; libssusb is assumed to return). They are straight-line code and loops of a
single thread; a thread that can run does. The user, the end of input, signals
and the calls of an operation are not fair: a user may never end a line. So
`TokenGetReturns`, `ParseReturns` and `CallReturns` say that code which is
entered ends, as `HandlerReturns` does of a handler, and `QuitExits` that the loop
ends after quit unless a signal ends it first.

**Deadlock** is not checked: each behaviour ends with its bound, or with the
program.

## What is proved

TLAPS proves, for all values of the constants and so for any set of lines, any
buffer size, any vector size, any tokens, any environment, any table, any
arguments and any number of lines, calls and signals:

| module | theorem | is `Spec => []` of |
|---|---|---|
| `LexerProofs` | `TypeCorrect`, `BufferIsSafe`, `NulOnlyLast`, `Ready`, `TokensTake` | `TypeOK`, `BufferSuffices`, `NulIsLast`, `ReadyBetweenTokens`, `EveryTokenTakes` |
| | `WordInvHolds` | `WordInv`: which word each state is in, and what the buffer holds of it |
| | `ImplementsReference` | (refinement: `ImplementsTokenStream`) |
| | `LoopEnds` | (action property: each turn of the loop brings its end nearer) |
| `IntegerProofs` | `LiteralsReachCommands` | `LiteralsDenote` |
| `ParserProofs` | `TypeCorrect`, `Owned`, `Grammar`, `CommandUsable`, `TokensKept`, `Stops` | each invariant of the run `parser` |
| `FrontEndProofs` | `NothingIgnored`, `ShortLines` | `AcceptedToTheEnd`, `ShortLinesFit` |
| | `NothingLeftOver` | (action property: `SameLineSameOutcome`) |
| | `ParseEnds` | (action property: each step of a parse brings its end nearer) |
| | `ImplementsLexer`, `ImplementsParser` | (refinement: the specification of `Lexer`, that of `Parser`) |
| `EnvironmentProofs` | `TypeCorrect`, `Linked`, `EntriesFreedOnce`, `OneEntryPerSymbol` | each invariant of the run `environment` |
| | `Refines` | (refinement: `ImplementsEnvMap`) |
| | `CallEnds` | (action property: each turn of a loop passes one more entry) |
| `CommandsProofs` | `WordsFind`, `SameCommand`, `NoDoubleDelete`, `CommandsDeleted` | each invariant of the run `commands` |
| `HandlersProofs` | `DeviceGivenBack`, `AsksWhatIsDocumented`, `ReadsWhatExists`, `DumpIsFaithful` | each invariant of the run `handlers` |
| | `CommandEnds` | (action property: each turn of a command's loop leaves less of it) |
| `ShellProofs` | `BufferHolds`, `TypedToLexer`, `HandlerWhileEditing`, `NothingLeft`, `CommandsRemembered` | each invariant of the run `ssshell` |

Each module proves that an inductive invariant holds in `Init`, is preserved by
every action (one lemma per action where it takes one) and implies the
properties. The arguments:

*Lexer.* `BufferSuffices` alone is not inductive: that `buffer` has room now does
not say that it has after the next character. `IInv` adds that the buffer holds
at most the characters this call has taken, **less** those it is known to have
dropped: one inside a string (the quote), two inside an escape (the backslash
too). That slack is what an invalid escape uses: it keeps a backslash that it
did not take in that step and puts the character back. And if everything taken was
kept, the last one kept is the last one taken, so a buffer that is full ends
with the line's NUL. Assumed: `LinesAssumption`, `MaxLinesAssumption`,
`BufferSizeAssumption` and `CharIsSignedAssumption`.

*Words.* `TokenStream` finds a word from its first character by looking ahead;
the automaton never does. `WordInv` says for each state where the word it is in
begins (`start` is in front of it, with blanks only between them), what its
characters are up to the place reached (a run of digits, marks, a string whose
quotes and backslashes are paired so far, ...), and that the buffer holds what
they make, escapes translated. The words then fall into kinds, each with a lemma
that says how it ends and that `TokenStream` finds that end; a step of the
automaton either keeps `WordInv` with one character more (`Tracks`: `TokenStream`
stutters) or hands over the token `TokenStream` finds (it does its `Get`). The
two hard kinds are the string, where whether a quote is escaped is decided from the
front by the automaton and from the back by the reference (`EscapedFlips`), and
the symbol behind a dash, where the character put back is read twice. Assumed: as
above.

*Integers.* `strtol` adds up the digits from the left and stops growing at a
`long`; `Denotes` sums them from the right with the powers of the base. Both are
folds over the digits. They are compared with functions on `0 .. n` built for the
purpose (`Built`): after k digits from the right, `w[n - k] * p[k] + s[k]` is the
whole sum whatever k is (`BothWays`), and a value that is held once stays held
(`HeldOnce`). `Wraps` says that a number stored in an `int` and read as unsigned is
the number modulo the width. That a token `INTEGER` is such a literal comes from
`WordInv`. Assumed: the width of an `int` is even and not 0, and a `long` is no
shorter (`IntModAssumption`, `LongMaxAssumption`).

*Parser.* `ArgumentsOwned` needs to know of the heap only that `Argument` takes a
free address. `ParsesGrammar` and `OnlyArgumentTokensKept` speak of a line that
is finished; `InArgument` carries them through it: while `_rule_arg` runs, the
objects stored are those of the tokens taken after the command, in order, and no
token has been deleted yet: `_rule_arg` deletes the one it returns with, and
`_rule_start`, through which it returns, the first. Assumed: that `ArgsMax` and `MaxParses` are
natural numbers, tokens have types, and `NULL` is neither an address nor an object.

*Front end.* `Reached` is where the lexer was when the parser last had control.
Each token but the last takes a character (`EveryTokenTakes`, here of the
composition), so the tokens `seen` are at most as many as the characters reached,
which bounds the vector by the length of the line; and a token `EOF` comes only
from the end of the line or from the byte 0xFF. `Moves` states once what any step
of the automaton does, so that the parser's cases need no lexer state. The
refinement of `Lexer` is by the shape of the composition; that of `Parser` needs
that every character kept, translated escapes included, is one of `Chars`, so that
a rule receives one of the tokens `Parser` is about.

`SameLineSameOutcome` compares two readings that lie apart. `Place` is all a parse
of a line can depend on: the place in it, the state and the buffer inside a token,
the tokens taken. `After` is the next place as a function of the line and the
place; every step of `FrontEnd` inside a parse goes there or nowhere
(`ScanPlace`), which is where it would show that the automaton, the buffer, the
vector or an object survived from a line before. So a parse that has come to a
place has come there by a `Run` from `Begin`, two runs of one line agree as far as
both go (`SamePlaces`, by induction on the number of steps), both end where `Over`
says, and the `Result` is that of the tokens. `HistoryInv` keeps that every outcome
recorded came from such a run. No assumption on the length of a line is needed, only
that lines are made of characters, that `ArgsMax` is a natural number, and that
`NULL` is neither an address nor a token (`NullAssumption`).

*Environment.* The invariants say nothing of a loop that is half way. `IInv` adds
where `env_np` stands (`Passed`: which entries are behind it), that a search has
not found its symbol in what it has passed (`NotFoundYet`), which is why `PutNew`
makes no second entry, and that `env_deinit` has freed exactly what it has passed
(`FreedSoFar`), and the one it stands on when it has come so far in its turn, when it
knows the follower already (`NextKnown`): what the pointer in a freed entry has
become does not matter. The refinement adds
`SeenSoFar`, that `env_traverse` has handed out the pairs passed, and maps the
step that ends an operation to the operation of `EnvMap` and every other one to a
stutter. Assumed: `NULL` and `HEAD` are not addresses, `NULL` is no pair, and
`MaxCalls` is a natural number.

*Command table.* `IInv` says which words `commands_init` and `main` have put so
far and that each is bound to the object it belongs to, where the object of
command k is the k-th made; that nothing else is bound; and that `Deletes(k)` is
how often that object was deleted. What `put` does to the value of a word is
proved once of `EnvMap` (`ValueIn`). Assumed: the tables are well named (no word
twice, none a variable's), the variables' names are different, and `NULL` is not a
natural number.

*Handlers.* `DeviceInv` follows the device through `main`. `CallInv` says what a
handler may rely on when it is called: the number of arguments is the one
`arg_count` asks for, except where that is variadic, nothing has been asked of the
device, and what `echo` has printed is a proper prefix of its arguments. `DumpInv`
relates the byte reached to the rows begun: `i = MAX_WIDTH * (lines - 1) +` the
length of the last row, which only the last byte makes longer than the width.
Assumed: arguments are sequences of integers, strings and symbols
(`ArgumentsAssumption`), `NULL` is no request, and `MAX_WIDTH` is positive.

*Shell.* `BufferInv`: between the lines there is a buffer with at least as many
bytes as the last size says, or there is none and the size is 0 (`shell_init` could
not allocate it), so that the next line that is not empty calls `realloc`; when
`realloc` fails the line is not parsed. `HistoryInv` rests on it: a line that means
something is not empty, so that the buffer still holds it when its command has run
(`RAN`), and the increasing map from the history to the lines run, which
`HistoryOfCommands` asks for, grows by the line that is remembered. `SignalInv`: while
a line is edited on POSIX, `old` is the disposition found at the start. `ConsoleInv`:
the mode saved is the one found if it was read (`fetched`) and no flag otherwise, and
without a console there is no mode to set. The last two rest on neither of the
first. Assumed: lines typed hold no NUL and the empty one is among them
(`TypedAssumption`), and the platforms are those two.

*Induction.* The library's induction theorems take an operator as an argument, which
the provers cannot instantiate. The inductions over the length of a word, the
digits of a number and the steps of a parse go over a **set** of natural numbers
instead: a set that holds 0 and with each number the next holds them all
(`NatIsAll`), because one that is left out would have a least one (`NatMin`, from
the library's `WFMin`).

*Termination.* `LoopEnds`, `ParseEnds`, `CallEnds` and `CommandEnds` are the half of
termination that is safety: while the code runs a natural number or a finite set
gets smaller with every step, whatever the line, the number of entries, the
arguments or the size of a dump. In the lexer a character counts two, so that
taking one pays for the state behind a dash or a backslash, which may put the next
one back, once. The other half, that a step is taken, is fairness and is left to
TLC.

## What is only model-checked

The five liveness properties: `TokenGetReturns`, `ParseReturns`, `CallReturns`,
`HandlerReturns` and `QuitExits`. The prover does not reason about fairness and
`ENABLED`; for the first four the theorems above show that nothing but a step not
taken could keep them from holding.

## Findings

* `\'` and `\?` are not translated (`shell/lexer.c:314`), although the comment over
  the function says that all escapes but hex and octal are.
* `echo` without arguments reads one (`commands/echo.c:15`): `main()` lets a
  variadic command have none, and `_echo` tests the number after the first turn.
  This is the only such read: `ArgumentsReadExist` holds of every other command.
* The gutter of the last row of a dump shows what follows the row
  (`commands/xxd.c:64`), because `lines` counts the rows begun; the earlier rows
  subtract one.

Seen while modelling, with no statement of the repository to hold the code to:
a `0` alone is a syntax error, as `shell/lexer.c:336` intends of what neither a digit
nor an `x` follows, so that an address or a size of zero must be written `0x0` or
`00`; a number in the `#` notation without an `x` (`#ff`, which the lexer accepts in
`LEXER_STATE_INTEGER_BASE16`) is converted as decimal and is 0, and `017` is 17;
where `long` has 32 bits (Windows) `0xFFFFFFFF` is clamped to `0x7FFFFFFF`
(`LiteralsDenote` holds only as far as a `long` reaches); an input that ends makes
the main loop spin (`ssshell.c:58`); the tokens of arguments, the empty line
readline allocated and the objects of variables are never freed; a symbol that
is an argument is never looked up, so that `*lwram*` cannot be given as an
address although `main` binds it; a lone dash is a symbol before a blank and an
error at the end of the line (`shell/lexer.c:243`); the offsets of a dump count
from 0 and not from the address; the last byte never begins a row, so that a row
of `MAX_WIDTH` + 1 bytes ends a dump of such a size, and a dump of one byte is in
the row of the column numbers (`DumpShowsMemory` says exactly which); `xxd` does
not free its buffer; the tests of the number of arguments in `upload`, `exec` and
`download` are never true, since `main()` has made them; after a signal the
Windows handler may be gone, so that a second one kills the shell while it edits
(`HandlerInstalled` says no more than that of Windows); when `realloc` fails the
lexer reads a line that has a size and no buffer (`Crash`); when the `malloc` of
`shell_init` fails, an empty first line is written through NULL
(`shell/shell.c:126`, `StoreEmpty`), and on Windows the exit then sets a console mode
of 0, as it does when `GetConsoleMode` has failed: `LeavesAsFound` says when the mode
is put back, and that no flag is left otherwise.

## Not modelled

* The internals of readline, libssusb and the console, which are external. A call
  from a signal handler into readline takes one step.
* The prompt, which is set once, and all drawing: `shell_clear`, the tables of
  `help` and `env`, the texts of the statuses.
* Failing allocations other than the three named above (`object_new`, `parser_new`,
  `env_put`, the tokens, the copies of strings).
* The macros of `queue.h` that nothing expands: most of that file.
* `commands/redirect-log.c`, which the build does not list and which would define
  `command_quit` a second time.
* The build files.

## Plan

Modelled, checked and, but for liveness, proved: all components except those
under "Not modelled". What is left:

1. `Ssshell` over `FrontEnd` instead of a function of the line, for a few lines: the
   two are joined today by `SameLineSameOutcome`, a theorem about one of them.
2. `Handlers` over the tokens of `FrontEnd` instead of any vector of arguments.
