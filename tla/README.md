# wayland-debug: models, checks and proofs

TLA+ modules that model the program logic of wayland-debug, TLC configurations
that check them on small instances, and TLAPS proofs of what matters most for
all instances. Every definition is written from the code; `PROJECT.json` names,
for each one, the lines it stands for (`map`), the hazards the properties are
meant for, and the disagreements between code and documentation that were met.

## 1. The program

wayland-debug shows the Wayland messages between programs and a compositor. It
gets them from one of two backends, records them per connection, resolves the
object ids in them to objects, filters them and lets the user ask about them.

    libwayland's output ── parse.py ──┐
      (file, pipe, or a               ├─> ConnectionManager ─> ConnectionImpl
       program run by runner.py)      │      (id -> conn.)       (object database,
    GDB breakpoints ───── plugin.py ──┘                           message list)
                                                                      │ listener
    the user ── terminal_ui.py / GDB commands ──> Controller <────────┘
                                                  │ display_matcher, stop_matcher
                                                  └─> PersistentUIState (paused, should_quit)

| Component | State | Operations | What is hard about it |
| --- | --- | --- | --- |
| Connection, messages, arguments (`core/connection_impl.py`, `core/wl/`) | object database (id -> generations), message list, title, app id, open | message (resolve target, then each argument; may create and destroy objects), close, retrieve | a message is many steps, any of which may raise and leave the earlier ones done; ids are reused; the log does not say when the server frees an id |
| Connection manager (`core/connection_manager.py`) | list of all connections, dictionary of the open ones | open, close, message | ids of the backend are reused; three records of what is open must agree |
| Log parser (`backends/libwayland_debug_output/parse.py`) | known ids, whether parsing goes on | one line at a time, cleanup | any line may raise, some exceptions stop the parser, Ctrl-C anywhere |
| Running a program (`runner.py`, `terminal_ui.py`) | two threads, a pipe, paused, should_quit | run, wait, close, read, join with a timeout, prompt | interleaving of the threads, both ends of the pipe, processes left behind, Ctrl-C, the timeout |
| GDB plugin (`backends/gdb_plugin/plugin.py`) | its own dictionary of connections, paused, should_quit | breakpoints on messages and on the end of a connection, wl commands | addresses are reused, the program is run again, pauses from before |
| Argument extraction (`extract.py`, and `parse.py` for text) | cache of field offsets; none | one pass over a signature; one pass over the text of the arguments | index arithmetic over an untyped array of unions; separators and quotes inside strings that are printed unescaped |
| Matchers (`core/matcher.py`) | none; trees that simplify themselves in place | parse, simplify, join, matches | nine classes nested in each other, and shortcuts that must not change what is matched |
| Controller (`frontends/tui/controller.py`) | list of all messages, two matchers, connection shown, last time shown | messages, open, close, eight commands | the same messages in two lists, live output and lists computed in different ways, caps |
| Letter ids (`core/letter_id_generator.py`) | a counter | next, both conversions | letters are not digits |
| Protocol definitions (`core/wl/protocol.py`) | the loaded interfaces | load, look up arguments and enums | files in any order, one that cannot be read, enums tagged after loading, bitfields |
| Command line (`frontends/tui/arguments.py`, `main.py`, `gdb_plugin/runner.py`) | none | split at a command, read the options, choose a mode, start the instance inside GDB | conflicting modes, clusters of options, the same words read twice |
| Disseminators (`core/util.py`), output (`core/output/`) | lists of listeners, streams | fan-out, printing | nothing that depends on order |

What makes each of them correct:

- *Connection*: an id names a sequence of objects of which at most the newest
  lives; every target and argument is resolved to an object of its own time;
  births and deaths have a reason in the log; the past is never rewritten; who
  listens hears of all that was processed and knows the current title.
- *Manager*: a connection is open exactly while its id leads to it; the listener
  is told one coherent story of each connection.
- *Parser*: never sends to an id it has not opened; loses nothing until it stops,
  then changes nothing; closes everything at the end.
- *Running a program*: reads all of the output, blocks nobody for ever, returns
  the program's own exit code after the user has been asked.
- *Plugin*: agrees with the manager; mixes no two connections; stops the program
  exactly where asked.
- *Matchers*: mean what `matchers.md` says, after any sequence of commands.
- *Controller*: lists agree with what was told and shown.
- *Arguments*: both backends find the same ones in the same places.
- *Protocol definitions*: the newest definition is used, whatever the order of the
  files; a value is shown by the names that stand for it.
- *Command line*: the mode that starts is the one asked for, and the program that is
  run gets the words meant for it; the instance inside GDB reads what the one
  outside read.

## 2. Modules

| Module | Models | Built on |
| --- | --- | --- |
| `ObjectLifetimes` | what the object database promises (abstract specification) | |
| `Connection` | `ConnectionImpl`, `Message.resolve`, `Arg.*.resolve` step by step; shown to implement `ObjectLifetimes` | instantiates `ObjectLifetimes` |
| `ConnectionManager` | the manager; a message seen from outside either tells the listener or raises | |
| `LogParser` | `parse.py` calling the manager | extends `ConnectionManager`, `Selection` |
| `GdbPlugin` | `plugin.py` calling the manager, GDB and the program around it | extends `ConnectionManager` |
| `Controller` | `controller.py` listening to the manager; matchers are sets of contents | extends `ConnectionManager`, `Selection` |
| `RunProgram` | the two threads of run mode, the pipe and the prompt | |
| `Matcher`, `Filter` | matchers as pure operators; the filter command and the meaning of `matchers.md` | `Filter` extends `Matcher` |
| `Selection` | the elements of a sequence at some of its places, as `SelectSeq`, by a recursive function that can be reasoned about | |
| `LetterId`, `ConnectionNames` | letter ids; the names of the manager's connections | `ConnectionNames` extends `ConnectionManager` and `LetterId` |
| `Extract` | the pass over a signature | extends `Selection` |
| `ArgumentText` | the same arguments as text, taken apart by `parse.py` | extends `Extract` |
| `Protocol` | `protocol.py`: loading, tagging, looking up enums | extends `Selection` |
| `Startup` | `parse_args`, `main` and `run_gdb`, up to the mode that starts | extends `Protocol` |
| `SelectionProofs` | lemmas: induction over the numbers, and what `Selection` gives | |
| `ConnectionProofs` | theorems about `Connection` | |
| `ManagerProofs` | theorems about `ConnectionManager`, `LetterId` and `ConnectionNames` | `SelectionProofs` |
| `LogParserProofs` | theorems about `LogParser`, and about `Extract` and `ArgumentText` | `ManagerProofs` |
| `GdbPluginProofs`, `ControllerProofs` | theorems about `GdbPlugin`, `Controller` | `ManagerProofs` |
| `StartupProofs` | theorems about `Protocol` and `Startup` | `SelectionProofs` |
| `TerminalProofs` | theorems about `RunProgram` and about `Matcher` and `Filter`: run mode up to its prompt, and the filter command given there | `SelectionProofs` |
| `MC...` | small instances for TLC | |

### How they correspond to the code

**Connection.** `ConnectionImpl.message` is a handler of several steps, and a raise
leaves the earlier ones done. So each step is an action: `Begin...` stores the
message and resolves its target, `Resolve...` resolves one argument (which may
create an object), `Finish` tells the listener and detects the title. While a
handler runs nothing else touches the connection (`pc`): one thread does it all.
Times are positions in the message list. Generation 0 stands for "not resolved".

**ConnectionManager.** One action per operation. `connection_list` keeps every
connection for ever, `open_connections` is the dictionary, `events` is what the
listener was told, `raised` what the last operation raised.

**LogParser.** One iteration of `parse_all` is split where the manager is called
(`at` = "readline", "open", "message"), because a KeyboardInterrupt can come
between. A line is what it turns out to be: a message, something else, or a
message that fails an assert.

**RunProgram.** `main` and `thread` are the places of the two threads; the
program, one process it may leave behind, and the pipe (`Capacity` lines) are the
environment. `TerminalUI.run_until_stopped` is `Joined` and `Command`.

**GdbPlugin.** GDB has one thread: callbacks run to their end, but
`process_message` calls the manager twice and is two actions. A connection of
the debugged program is an *instance*; its address may be reused.

**Controller.** Each callback and each command is one action. What is printed is
kept as lines that show a message, separators, and the ends of lists. `listed`,
`live`, `undisturbed` and `ui` record what happened for the properties.

**Matcher, Filter.** A matcher is a record whose `is` names its class; a text is its
syntax tree, one of the sets from `Words` up to `Patterns` and the lists of them
(`ListsOf`). What the code does by calling itself on the parts of a matcher is an
operator per kind of value, from the strings up to the messages (`MatchesText`,
`MatchesObject`, `MatchesValue`, `MatchesArg`, `MatchesPattern`, and so for
`Simplify...` and the parsers); what all of them do with a list is one operator that
takes the others as a parameter (`MatchesList`, `SimplifyList`, `ParseList`). The
nesting that a text can have is so the one of the grammar, and lists in brackets hold
no further lists in brackets: such a list within a list is the only form of text
that the model does not have. A value that is letters and a number, such as `5a`, is
tried as a label before it is tried as an object, so an object by its id is `#5a`,
`@5a` or `null` there. `Filter` states the meaning of a text (`Means...`) and of a
sequence of filter commands (`Wanted`) from `matchers.md`, independently of the
classes.

**LetterId.** Both conversions of letter ids are pure operators; how many letters
there are is a constant.

**Extract, ArgumentText.** One message goes both ways. `Extract` has one action per
character of its signature: what `extract_message` reads from the closure inside
GDB. `ArgumentText` then prints the closure as libwayland does and has one action
per symbol of that text: `argument_list_strs` and its `end_of_str`. The text is made
of the symbols the code looks at (quote, backslash, separator) and of one symbol
for anything else. `Argument` says what `parse.argument` makes of a piece.

**Protocol, Startup.** `Startup` has one action per step between the command line
and a running mode: the split at `-g` or `-r`, one word after the other through
argparse, the choice of a mode, `run_gdb` with its second instance, and the loading
of the protocols. The last is `Protocol`: one action per file (`os.listdir` gives them
in any order) and per line of `load_all`'s list of enums. A word is a sequence of
characters only where the code looks into it. An integer is the set of its bits.

## 3. What is checked

`pass` runs:

| Run | Bounds | What it shows |
| --- | --- | --- |
| `connection_messages` | 5 of 9 messages on ids of the display, the registry, a client and a server object; or 4 of 9 messages that name a connection, odd ones among them | The database and the stored messages stay consistent through creation, reuse, deletion, conflicts and raises, and implement `ObjectLifetimes` (`ImplementsLifetimes`). The title follows its precedence and the listener always shows it. |
| `manager_ids` | 2 ids, 3 connections, 2 messages each; an alphabet of 2 letters | Dictionary and flags agree; each connection has a coherent story; names read back, past the last one of one letter. |
| `parser_log` | 4 lines, 2 ids, 2 messages, Ctrl-C anywhere | Nothing is lost up to the line that stops the parser, also by Ctrl-C but for the line in hand (`NothingLost`); only cleanup closes connections, each told once and last, and it closes all unless Ctrl-C ends it (`ClosedByCleanup`); it ends (`Terminates`, where Ctrl-C is an end). |
| `run_pipe` | 3 lines, a pipe of 1, 2 exit codes, Ctrl-C twice | All output is read, of a program that could be started; nobody waits for ever (`WritesGoOn`, `InputEnds`); the exit code is the program's. |
| `gdb_session` | 2 addresses, 3 instances, 2 runs, 2 connections with 2 messages each | Plugin and manager agree; the program stops exactly at matches. |
| `filter_commands` | 3 commands and an optional -f out of 11 texts; 12 messages | What is shown is what was asked for. |
| `controller_commands` | 1 connection with 3 messages at 0, 1 and 3 s, or 2 (ids reused) with 1 each; 2 commands | Lists of one and of all connections show the last that match, as many as asked for (with a COUNT below 0 one), and agree with what was told and shown; separators are where time passed. |
| `message_arguments` | 3 characters, arrays of up to 2 elements, strings of up to 2 symbols | Arguments come from their own slot until an array of an unlucky size; text and GDB give the same arguments, whatever separators and backslashes their strings hold. |
| `startup_lines` | any command line of up to 3 words out of 20, of up to 2 also with program names that a Python string does not keep; any contents of 3 files, in every order, integers of 3 bits | The mode asked for starts, and the program gets its words; the instance inside GDB agrees with the one outside, and is not started only if the words cannot be handed over; the newest definition is used; values get the names that stand for them. |

The bounds are chosen so that the interesting cases happen at least twice: an id
reused and its successor deleted (5 messages), a third connection on two ids, a
pipe that is full while the program goes on, a filter command on the result of a
join, a list cut at its cap, an array followed by an argument, a string that ends
in a backslash followed by another, an option's value before a command, two files
with the same version of an interface and a third with a newer one. Larger ones
repeat these. `startup_lines` varies the command line with fixed files and the
files with a fixed command line (`MCInit`), as neither looks at the other. Two
runs have a CONSTRAINT that keeps two families of behaviours apart (`OneTheme`,
`Bounded` in the MC modules): those that name a connection from those that use
objects, and long logs of one connection from logs of two. `Bounded` also lets
messages come in the order of their times, as a log has them, and fixes the
breakpoint matcher, which has no bearing on what is listed. `MCFilter` has TLC
evaluate the first 800 letter ids of the English alphabet, past `ZZ`.

`violation` runs, each of one property that a document, comment or assert states
and the code does not keep (see `findings` in `PROJECT.json`):

| Run | What happens |
| --- | --- |
| `gdb_rerun` | After a second `run`, a connection at an old address continues the old one. |
| `filter_star` | `filter *` after `filter ! x` still hides what matches x. |
| `extract_index` | After an array of n elements the next argument is read from slot n. |

The models show more places where the code does not do what a document or help
text says, without a run of their own; the steps are in the models:

- A message whose handling raises stays in `messages()`, though no listener hears of
  it: `connection_impl.py:36` against `interfaces/connection.py:60` (`Raise`;
  `AnnouncedUnlessRaised` says that this is the only reason).
- `wl quit`, declined at GDB's question, then `wl resume`: GDB quits, as
  `should_quit` is never reset (`WlCommand`).
- A connection that ends before its first message makes the breakpoint raise
  KeyError at `plugin.py:133` (`DestroyBreakpoint`).
- An argument list with a star in it, `(*)`, once simplified matches messages
  without arguments, though `matchers.md:27` asks for one (`SimplerArgs`), and one
  with a star behind its `!` never matches, not even a message without arguments.
  `TextsAssumption` leaves such texts out.
- `list ~ 0` shows everything (`ListCommand`: a cap of 0 is none).
- A message of another connection than the one shown does not stop, though it
  matches the breakpoint matcher (`GotNewMessage`).
- Ctrl-C ends the reading, the program lives on for more than a second, and the
  assert after `thread.join` (`runner.py:49`) fails (`JoinTimesOut`).
- The exit code of GDB is lost: the program ends with 0 (`main.py`; not a state of
  `Startup`).
- A value written behind its option without a space, as in `-fwl_pointer`, is looked
  through for commands: its g is taken for `-g` (`Applies`; `CommandInValue` is the
  exception that `StartsAsAsked` makes).
- `-rg` is taken for `-g`, and leaves `-r` for the instance inside GDB, which shows
  its help and does not start (`SplitAtCommand`). `-rrg` leaves `-rr`, for which that
  instance ends with an error (`SplitMisplaced`).
- On the way to the instance inside GDB the words become Python string literals, in
  which quotes are escaped but backslashes are not. `\n` in a value of `-f` becomes
  another character (`Requoted`); a backslash before a quote or at the end of a word
  makes a literal that cannot be read. The program's name, which is opened as well,
  is another one if it holds `\n`, and its quotes are not escaped there
  (`ScriptFails`). In these cases GDB shows an exception and goes on without the
  plugin (`RunGdbWithoutPlugin`).
- If the program of run mode cannot be started, its thread dies and the reading does
  not end before Ctrl-C (`StartFails`; `AllParsed` says so).
- In a bitfield, an entry made of several bits is shown as soon as one of them is set
  (`IsShown`).
- One file of the system's protocols that cannot be parsed ends the program
  (`LoadFails`), while a missing interface is a warning (`SetEnumFails`).
- An empty string is an unknown argument in the text and a string in GDB; a null one
  is nothing in the text and a string in GDB (`SameArguments` says so).

Every property of a passing run has a *mutant*: a changed definition, as a
plausible bug would change it, for which TLC finds the property violated. They
stand before the definition they change, with the word Mutant.

### Fairness

- `LogParser`: the thread runs whenever it can and `readline` returns (weak
  fairness of reading and handling). The input is a file, or a pipe whose writer
  ends. Ctrl-C is never needed.
- `RunProgram`: both threads run whenever they can (weak fairness of each), and a
  blocked write goes on once there is room, as the operating system does. The
  program and what it leaves behind need never end, the user need never answer.

No other specification has fairness: what it checks is safety.

Deadlock is checked by TLC where the system cannot stop. Where it is not
(`CHECK_DEADLOCK FALSE`), the system ends: the parser and the program exit, GDB is
left, the signature is read, or the bounded input is used up.

## 4. What is proved

For every value of the constants, from the named assumptions in the modules. The
proofs stand in the order of the dependencies: what is proved of the manager is used
for all that is built on it.

**Induction over data** (`SelectionProofs`). Much of the code goes over a list from its
beginning. The operators for this are recursive functions on the numbers up to a
length, and what they compute is proved by induction as a fact about sets:
`Induction` says that a set of numbers with 0 and the successor of each of its
members has them all, and follows from the well-foundedness of `<` in the library's
`WellFoundedInduction`. `Stepwise` says that a function given by its first value and
its steps exists and is the one that is chosen. The lemmas on `Selected` say which
places are selected (`SelectedPlaces`: those and only those, in their order) and how
a selection changes when the sequence grows. `Selection` stands in the models where
`SelectSeq` stood, of which nothing can be proved.

**ObjectLifetimes and Connection** (`ConnectionProofs`). `TypeCorrect`,
`LifetimesHold`, `PastStaysFrozen`, and `DatabaseImplements`: the database is an
implementation of `ObjectLifetimes`. All follow from `CoreInvariant`:
`CoreInv == TypeOK /\ EntriesOK`. `EntriesOK` (the stored target and arguments
point to generations that exist, and a bind being resolved is well formed) is
needed because the steps of a handler read what an earlier step has stored. The
proof has one lemma per action; how the database changes is said once by lemmas
about `Created` and `DestroyLast`.

On it rest the theorems about the history of a connection. Each follows each step
through one of three effects (`StepEffect`): nothing is stored, a message is stored,
or one argument of the last message is resolved.

- `ReferencesHold` (`ReferencesInLifetime`) uses `LifetimesInOrder`: the newest object
  is the one whose lifetime holds the present.
- `LifetimesStayExplained` (`LifetimesExplained`) needs `LaterUnresolved`, that the
  arguments not reached yet are unresolved: resolving one could otherwise undo the
  explanation of a birth.
- `NewArgsAreNewOrInUse` (`NewArgIsNewOrInUse`) needs `ReferencesInLifetime`, to tell a
  past argument's object from those that come after it.
- `ListenerStaysUpToDate` (`ListenerUpToDate`) is inductive by itself.
- `AnnouncedAreThoseNotRaised` (`AnnouncedUnlessRaised`) from `AnnouncedInvariant`.
  `AnnouncedInv` has two parts: what is announced lists the messages handled so far
  that pass, and a message in the middle of its handler has passed so far
  (`PassedSoFar`: target and arguments before the one in turn have raised nothing).
  The second is needed at `Finish`, which announces without looking back; that
  whether a stored message passes never changes later (`PassingKept`) is a lemma on
  what a growing database keeps.
- `NamesAreFromHistory` (`NamesFromHistory`) from `AnnouncedInv` and `NamesInv`, which
  says the same of title and app id by the last message that decides them.

**ConnectionManager** (`ManagerProofs`). `ManagerTypeCorrect`, `OpenStaysReachable`,
`NewestIsOpen`, `ClosedStaysFinal` from `ManagerInvariant`: the records are well
typed, dictionary and flags agree, only the newest of an id is open. No
strengthening is needed, but none of the three is inductive alone.
`ClosingAlwaysTold` says that the listener hears of each connection that closes, once
and last; it needs that nothing is told of a connection that does not exist yet.
`StoryAlwaysTold` (`StoryOfEachConnection`) adds what comes before: the first event of a
connection is that it opened, no other is, and its messages are told in the order
in which they are stored, none beyond those it has (`StoryIsTold`).

**Letter ids** (`ManagerProofs`). `NumbersReadBack`: what `number_to_letter_id` writes,
`letter_id_to_number` reads, for every number and every alphabet of at least two
letters. By induction on the number: the letters of a number are those of a smaller
one and one more. `NamesAlwaysReadBack` (`NamesReadBack`) follows. `NamesCountUp`: the first
name is one letter A, and each name is followed by the next in the order of
`Successor` (what `InOrder` in `MCFilter` checks of the first 800), so that none is
left out. By the same induction: the last letter goes up, or, when it is the last of
the alphabet, the letters before it do and it goes back to A (`SuccessorOf`).

**LogParser** (`LogParserProofs`). `ParserTypeCorrect`, `KnownStayOpen`,
`OneConnectionEach` from `LInv`, which adds to the manager's invariant
that each connection's id is known and that an id about to be opened has no
connection yet: otherwise a second connection could be opened for it.
`ParserDrivesManager`: the parser is an implementation of the manager's
specification. `OnlyCleanupCloses` (`ClosedByCleanup`) follows from it,
`ClosingAlwaysTold` and `CleanedStayClosed`: what cleanup has come to is closed, and
all else is open, also where Ctrl-C ends the program. `NothingIsLost` (`NothingLost`)
from `LostInv`, which counts the line in hand: at every step, each connection holds
what the lines handled so far have for its id, and every id these lines name has a
connection. A program that Ctrl-C has ended keeps what it held.

**Arguments** (`LogParserProofs`). `AlwaysRightUntilArray` (`RightUntilArray`) from
`ExtractInv`: as many arguments are read as the characters dealt with hold types, and
the next slot is that of the next argument, and nothing has failed, as long as every
array so far was harmless. `AlwaysSameArguments` (`SameArguments`) from `ExtractInv` and
`ScanInv`: the scan is inside the argument whose piece comes next, at a place the layout
of the text gives (`Layout`), and is in quotes exactly in a string. A backslash takes two
symbols, so inside a string `ScanInv` also says that the backslashes the rest ends
in are not odd in number (`EvenTail`) when all that is left is backslashes: without
it the scan could jump over the closing quote. That the strings are plain is turned
into this by counting (`PlainTail`).

**RunProgram** (`TerminalProofs`). `AllIsParsed`, `ExitCodeReturned` and
`UserAlwaysAsked` from `RunInvariant`, whose parts say where the lines are
(`LinesInOrder`: what is parsed, in the pipe and still to be written make up the
program's output), what the second thread's place tells of the program
(`ThreadTells`), that the reading ends only when nobody can write any more
(`ReadToTheEnd`), and that what follows the join happens after it (`JoinedBefore`,
`QuitAtPrompt`).

**Protocol** (`StartupProofs`). `NewestIsUsed` (`NewestOfEarliest`) from
`ProtocolInvariant`: whatever files there are, in any order, the definition that
stays is of the newest version, and of those the one of the earliest directory.
`TagsUpToMissing` (`TaggedUpToMissing`) from `TagInv`: at each line of
`load_all`'s list, every argument has an enum that one of the lines above gives
it, or its own if none does, and no line above is about a missing one.
`NamesAlwaysStand` (`NamesStandForValue`) follows from the types of what is loaded
and from lemmas on `Selected`.

**Startup** (`StartupProofs`). `StartupLoadsProtocols` shows that what `Startup`
does to the protocols is `ProtocolSpec`, from which `StartupUsesNewest` and
`StartupShowsNames` follow. `GdbNotNested`: the instance inside GDB never starts
GDB. `StartsAlwaysAsAsked` (`StartsAsAsked`) and `GdbAlwaysAgrees`
(`GdbInstanceAgrees`) from `StartInvariant`. `StartInv` says, until the end
(`Going`), that what was split off is what the command line says, that what
argparse has found so far are the options of the words read so far, and, inside
GDB, that the words are those of the instance outside as a Python string changes
them; and at the end (`Ended`), how it relates to what was typed. That a word read
as a cluster of flags, with a value at its end or with the value in the next word,
gives just the options it holds is what most of the lemmas are about.
`GdbInstanceAgrees` names the ways in which the two instances can differ, and the words
that show them are among those of `startup_lines`: the words cannot be handed over,
and no second instance starts (that the words looked at are those typed, of which the
command was taken off, is the point of that part); a value that is changed on the way
is no matcher any more; of `-rg` and `-rrg` the instance inside GDB makes help and an
error; a protocol cannot be loaded. The theorem says that there are no others.

**Matcher and Filter** (`TerminalProofs`). `FilterShowsWhatWasAsked`
(`ShowsWhatWasAsked`): whatever filter commands are given, valid or not, the messages
shown are those that they together ask for; for any texts that `TextsAssumption`
admits, any messages and any number of commands. `MatcherMeansItsText` is the case of
one text. Both rest on one lemma per level of the grammar, from the words up: for a
matcher parsed from a text, what `simplify` makes of it matches what the text means,
is an `AlwaysMatcher` exactly if the text asks for everything (`Everything`, `AnyIn`, ...)
or for nothing (`Nothing`, `NoneIn`, ...), and is not changed when simplified again.
The last is needed because `join` puts parts that are simplified already next to new
ones. What `SimplerList` does to any list, whatever its items, is said once
(`SimplerListFacts`, `SimplerListParts`), as is what a list of texts means.

`ShowsWhatWasAsked` is not inductive: from what a matcher matches one cannot say what
`join` makes of it, as that looks at what the matcher is made of. `FilterInv` says
that (`Shown`): the display matcher is `Always` only if the filter asked for is
trivial, as then the next command replaces it; otherwise the two lists that `join`
takes it for hold simplified items, and say together what the filter says (`Says`).
This covers a matcher that `simplify` has reduced to its only item, even when the
item is a list itself (an object alone): `join` then takes its patterns for items.
A filter without wanted patterns has the star as its only positive item, which
`join` drops: without this part of `Shown` a star could stay in a longer list.

**GdbPlugin** (`GdbPluginProofs`). `PluginTypeCorrect`, `DictionariesStayEqual`,
`StopsAreMatches` from `PInv`, which adds that the process whose message is being
handled is alive. `OneInstancePerConnection` (`OneInstanceEach`) follows from
`FirstRunOK`: until the program is run again, two addresses never hold the same
instance, and an id in use leads to the connection with that instance's messages.

**Controller** (`ControllerProofs`). `ControllerImplementsManager`: the controller's
behaviours are behaviours of the manager, so its theorems hold around the
controller too. `AllMessagesStayOrdered` from `ControllerInv`, which adds the types
of the references, and a lemma that a connection's messages only ever grow. On top:

- `LiveAlwaysListed` (`LiveIsListed`) from `LiveInv`, which adds that no connection was
  chosen yet.
- `GapsAreAlwaysReal` (`GapsAreReal`) from `ScreenInv`: `last_shown_timestamp` is the time
  of the message that ends the screen, and no message ends it when it is None. The
  same is carried through the lines of a list (`ListedStep`).
- `ListAlwaysShowsLast` (`ListShowsLast`) from `ListedInv`, that each list was right when
  it was made. This rests on `AllInv` (the controller's own list is what was told of,
  over all connections), on `StoryAlwaysTold` (what was told of one connection is in
  the order in which it is stored) and on where the search of a list ends
  (`SearchEndIs`).

What the assumptions say of the program's data, besides types and bounds:

- `ProtocolAssumption`: within an enum no two entries have one name (they are kept in
  a dictionary by it), none is called like the texts shown for no entry, and no file
  defines an interface called `fake_enums`.
- `CommandLineAssumption`: words are not empty, and a long option has a value in its
  word only if it takes one; the characters that a Python string does not keep, or
  that make it none, are no options.
- `TextsAssumption`: what `parse` accepts, but for two forms: a pattern left empty beside
  others (`wl_pointer,`), of which `matchers.md` does not say what it means, and the star
  arguments named above, of which it does (`matchers.md:27`) and the code does otherwise.
- `LetterAssumption`: there are at least two letters.

Only model-checked: liveness (`Terminates`, `WritesGoOn`, `InputEnds`), which TLAPS
cannot prove.

## 5. What is left out

- The text of a line but for its arguments, and of a matcher: regular expressions,
  splitting at delimiters, printing. A line is what it turns out to be; a matcher's
  text is its syntax tree, and one that does not parse is one kind of input.
- Wording, colours and layout of the output.
- XML: a file defines interfaces or cannot be read. `Connection` takes what the loaded
  protocols define as a constant.
- Of argparse, abbreviations of long options and `-h`; options that only choose
  colours, wording or a directory are one flag.
- How `extract.py` finds the frames of libwayland and caches the offsets of fields:
  reads through GDB's Python API of a process that is stopped. The cache is kept
  from one run of the program to the next, so a libwayland rebuilt in between is read
  with the old offsets.
- The disseminators: every list of listeners has one or two entries that do not
  change after start-up. The output streams.
- Of GDB and the debugged program, only what the plugin relies on: `stop()`
  decides, a raising `stop()` stops, GDB asks before it quits while a process
  lives. Ctrl-C inside a GDB callback, and Ctrl-C before the first `readline` of
  run mode, are not modelled. Nor are lines the program writes in pieces.

## 6. Plan

Done, in this order, so that what everything else stands on came first:
`Connection`, `ConnectionManager`, `LogParser`, `RunProgram`, `GdbPlugin`, `Matcher` and
`Filter`, `Controller`, `LetterId`, `Extract`, then `Protocol` and `Startup`, and
`ArgumentText` on top of `Extract`.

To model next:

1. A composition of `LogParser` and `Controller` with `RunProgram`'s prompt, in which
   a list is asked for after the input has ended or was interrupted.
2. The breakpoint command of `Controller` against `GdbPlugin`: a pause asked for by
   the controller is a stop of the program.

To prove next: what an odd string does to the arguments behind it in a text, of which
`SameArguments` says nothing.
