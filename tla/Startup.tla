-------------------------------- MODULE Startup --------------------------------
(* From the command line to a running mode: parse_args, main, and run_gdb,    *)
(* which starts the program a second time inside GDB.                         *)
(*                                                                            *)
(* A word of the command line is a sequence of characters as far as the code  *)
(* looks into it: -Cg is <<"-", "C", "g">>, --gdb is <<"--", "g">>, and so is *)
(* --filter=x <<"--", "f", "x">>; any other word is one character that is no  *)
(* dash.  An option is named by its letter, --matcher-help by m.              *)
EXTENDS Protocol

CONSTANTS
  CommandLines,   \* the program's name and what follows
  BadMatchers,    \* values of -f and -b that do not parse
  Escape, Escaped, \* what a Python string literal does not keep, and what becomes of it
  Unreadable,     \* what makes it no literal: a backslash before a quote or at the end
  Quote           \* which is escaped in the words, but not where the program is opened

ValueOptions == {"l", "f", "b"}
Flags == {"p", "C", "m", "g", "r"}
Commands == {"g", "r"}

(* No word is empty, more than one character has a word only if the code      *)
(* looks into it, and a long option has a value in its word only if it takes  *)
(* one (argparse ends the program at any other).                              *)
WordOK(word) ==
  /\ word # <<>>
  /\ Len(word) > 1 => word[1] \in {"-", "--"}
  /\ Len(word) > 2 /\ word[1] = "--" => word[2] \in ValueOptions

ASSUME CommandLineAssumption ==
  /\ \A line \in CommandLines :
       /\ line \in Seq(Seq(STRING)) /\ line # <<>> /\ Len(line[1]) = 1
       /\ \A k \in 1..Len(line) : WordOK(line[k])
  /\ {Escape, Escaped, Unreadable, Quote} \subseteq STRING
  /\ {Escape, Escaped, Unreadable, Quote} \cap ({"-", "--"} \cup ValueOptions \cup Flags) = {}

VARIABLES
  typed,     \* the command line of the user
  inside,    \* this is the instance inside GDB
  pc,
  argv,
  own,       \* wayland_debug_args
  command,   \* command_id
  passed,    \* command_args, of the instance outside
  at,        \* what argparse has read of own
  given,     \* what it has found: the flags, and the values
  before,    \* what the instance outside has found
  outcome    \* the mode started, or how it ended without one

startVars == <<typed, inside, pc, argv, own, command, passed, at, given, before, outcome>>

vars == <<startVars, protocolVars>>

Nothing == [flags |-> {}, value |-> [option \in ValueOptions |-> <<>>]]

Init ==
  /\ ProtocolInit
  /\ typed \in CommandLines /\ argv = typed /\ inside = FALSE
  /\ pc = "split" /\ own = <<>> /\ command = "" /\ passed = <<>> /\ at = 1
  /\ given = Nothing /\ before = Nothing /\ outcome = ""

End(how) == pc' = "done" /\ outcome' = how

------------------------------------------------------------------------------
(* _split_command *)

SingleDash(word) == word[1] = "-" /\ Len(word) > 1

Has(word, c) == \E j \in 2..Len(word) : word[j] = c

Applies(word, c) ==
  word = <<"--", c>> \/ (SingleDash(word) /\ Has(word, c))

(* Of the last character of a cluster it does not matter who else has it.     *)
Misplaced(word, c) ==
  Len(word) > 2 /\ \E j \in 2..Len(word) - 1 : word[j] = c

Hits == {k \in DOMAIN argv : \E c \in Commands : Applies(argv[k], c)}

FirstHit == CHOOSE k \in Hits : \A j \in Hits : k <= j

(* g is looked for before r.                                                  *)
CommandOf(word) == IF Applies(word, "g") THEN "g" ELSE "r"

SplitNothing ==
  /\ pc = "split" /\ Hits = {}
  /\ own' = argv /\ command' = ""
  /\ pc' = "options"
  /\ UNCHANGED <<typed, inside, argv, passed, at, given, before, outcome, protocolVars>>

SplitMisplaced ==
  /\ pc = "split" /\ Hits # {}
  /\ Misplaced(argv[FirstHit], CommandOf(argv[FirstHit]))
  /\ End("error")
  /\ UNCHANGED <<typed, inside, argv, own, command, passed, at, given, before, protocolVars>>

(* What is left of a cluster of options when the command is taken off it.     *)
Rest(word) == IF Len(word) > 2 THEN <<SubSeq(word, 1, Len(word) - 1)>> ELSE <<>>

(* Mutant: the word with the command stays whole.                             *)
SplitKeepingCommand ==
  /\ pc = "split" /\ Hits # {}
  /\ ~Misplaced(argv[FirstHit], CommandOf(argv[FirstHit]))
  /\ own' = SubSeq(argv, 1, FirstHit) /\ command' = CommandOf(argv[FirstHit])
  /\ passed' = SubSeq(argv, FirstHit + 1, Len(argv))
  /\ pc' = "options"
  /\ UNCHANGED <<typed, inside, argv, at, given, before, outcome, protocolVars>>

(* Mutant: what follows the command loses its first word.                     *)
SplitBehindNext ==
  /\ pc = "split" /\ Hits # {}
  /\ ~Misplaced(argv[FirstHit], CommandOf(argv[FirstHit]))
  /\ own' = SubSeq(argv, 1, FirstHit - 1) \o Rest(argv[FirstHit])
  /\ command' = CommandOf(argv[FirstHit])
  /\ passed' = SubSeq(argv, FirstHit + 2, Len(argv))
  /\ pc' = "options"
  /\ UNCHANGED <<typed, inside, argv, at, given, before, outcome, protocolVars>>

SplitAtCommand ==
  /\ pc = "split" /\ Hits # {}
  /\ ~Misplaced(argv[FirstHit], CommandOf(argv[FirstHit]))
  /\ own' = SubSeq(argv, 1, FirstHit - 1) \o Rest(argv[FirstHit])
  /\ command' = CommandOf(argv[FirstHit])
  /\ passed' = SubSeq(argv, FirstHit + 1, Len(argv))
  /\ pc' = "options"
  /\ UNCHANGED <<typed, inside, argv, at, given, before, outcome, protocolVars>>

------------------------------------------------------------------------------
(* argparse, which reads one word after the other *)

IsOption(word) == Len(word) > 1

(* The flags in front of the first option that takes a value, and where that  *)
(* option is in the word, or behind the word.                                 *)
ValueAt(word) ==
  CHOOSE j \in 2..Len(word) + 1 :
    /\ j <= Len(word) => word[j] \in ValueOptions
    /\ \A i \in 2..j-1 : word[i] \notin ValueOptions

FlagsOf(word) == {word[j] : j \in 2..ValueAt(word) - 1}

Reading(word) ==
  /\ pc = "options" /\ at < Len(own) /\ word = own[at + 1]
  /\ IsOption(word) /\ FlagsOf(word) \subseteq Flags

ReadFlags(word) ==
  /\ Reading(word) /\ ValueAt(word) > Len(word)
  /\ given' = [given EXCEPT !.flags = @ \cup FlagsOf(word)]
  /\ at' = at + 1
  /\ UNCHANGED <<typed, inside, pc, argv, own, command, passed, before, outcome, protocolVars>>

ReadAttached(word) ==
  /\ Reading(word) /\ ValueAt(word) < Len(word)
  /\ given' = [flags |-> given.flags \cup FlagsOf(word),
               value |-> [given.value EXCEPT ![word[ValueAt(word)]] =
                            SubSeq(word, ValueAt(word) + 1, Len(word))]]
  /\ at' = at + 1
  /\ UNCHANGED <<typed, inside, pc, argv, own, command, passed, before, outcome, protocolVars>>

HasNext == at + 2 <= Len(own) /\ ~IsOption(own[at + 2])

ReadSeparate(word) ==
  /\ Reading(word) /\ ValueAt(word) = Len(word) /\ HasNext
  /\ given' = [flags |-> given.flags \cup FlagsOf(word),
               value |-> [given.value EXCEPT ![word[ValueAt(word)]] = own[at + 2]]]
  /\ at' = at + 2
  /\ UNCHANGED <<typed, inside, pc, argv, own, command, passed, before, outcome, protocolVars>>

Usage(word) ==
  /\ pc = "options" /\ at < Len(own) /\ word = own[at + 1]
  /\ \/ ~IsOption(word)
     \/ IsOption(word) /\ ~(FlagsOf(word) \subseteq Flags)
     \/ IsOption(word) /\ ValueAt(word) = Len(word) /\ ~HasNext
  /\ End("usage")
  /\ UNCHANGED <<typed, inside, argv, own, command, passed, at, given, before, protocolVars>>

------------------------------------------------------------------------------
(* parse_args, after argparse, and main *)

Parsed == pc = "options" /\ at = Len(own)

Modes ==
  {mode \in {"gdb-runner", "run", "gdb-plugin", "load-from-file", "pipe"} :
     CASE mode = "gdb-runner"     -> command = "g"
       [] mode = "run"            -> command = "r"
       [] mode = "gdb-plugin"     -> inside
       [] mode = "load-from-file" -> given.value["l"] # <<>>
       [] mode = "pipe"           -> "p" \in given.flags}

(* --matcher-help, and a mode that is missing or not the only one.            *)
Help ==
  /\ Parsed
  /\ "m" \in given.flags \/ Cardinality(Modes) # 1
  /\ End("help")
  /\ UNCHANGED <<typed, inside, argv, own, command, passed, at, given, before, protocolVars>>

MatcherFails == \E option \in {"f", "b"} : given.value[option] \in BadMatchers

Refuse ==
  /\ Parsed /\ "m" \notin given.flags /\ Cardinality(Modes) = 1 /\ MatcherFails
  /\ End("error")
  /\ UNCHANGED <<typed, inside, argv, own, command, passed, at, given, before, protocolVars>>

Accept ==
  /\ Parsed /\ "m" \notin given.flags /\ Cardinality(Modes) = 1 /\ ~MatcherFails
  /\ pc' = IF Modes = {"gdb-runner"} THEN "gdb" ELSE "load"
  /\ UNCHANGED <<typed, inside, argv, own, command, passed, at, given, before, outcome, protocolVars>>

(* What Python makes of a word between quotes: the quotes in it are escaped   *)
(* and stay, its backslashes are not.                                         *)
Requoted(word) == [j \in DOMAIN word |-> IF word[j] = Escape THEN Escaped ELSE word[j]]

(* GDB's python command holds all words, and the program's name once more, to *)
(* open it.  It fails if a word of it cannot be read (SyntaxError), and if the *)
(* name to open is no literal or another name.                                *)
ScriptFails(line) ==
  \/ \E k \in DOMAIN line : \E j \in DOMAIN line[k] : line[k][j] = Unreadable
  \/ line[1][1] \in {Escape, Quote}

(* run_gdb: the other instance gets wayland_debug_args as its sys.argv, GDB   *)
(* gets command_args.                                                         *)
RunGdb ==
  /\ pc = "gdb" /\ ~ScriptFails(own)
  /\ inside' = TRUE /\ pc' = "split"
  /\ argv' = [k \in DOMAIN own |-> Requoted(own[k])]
  /\ own' = <<>> /\ at' = 1 /\ given' = Nothing /\ before' = given
  /\ UNCHANGED <<typed, command, passed, outcome, protocolVars>>

(* GDB is not installed, or a libwayland without debug symbols is to be used. *)
RunGdbFails ==
  /\ pc = "gdb"
  /\ End("no gdb")
  /\ UNCHANGED <<typed, inside, argv, own, command, passed, at, given, before, protocolVars>>

(* GDB shows the exception and goes on without the plugin.                    *)
RunGdbWithoutPlugin ==
  /\ pc = "gdb" /\ ScriptFails(own)
  /\ End("no plugin")
  /\ UNCHANGED <<typed, inside, argv, own, command, passed, at, given, before, protocolVars>>

LoadProtocols ==
  /\ pc = "load" /\ LoadAll
  /\ UNCHANGED startVars

LoadRaised ==
  /\ pc = "load" /\ stage = "raised"
  /\ End("error")
  /\ UNCHANGED <<typed, inside, argv, own, command, passed, at, given, before, protocolVars>>

Start ==
  /\ pc = "load" /\ stage = "ready"
  /\ \E mode \in Modes : End(mode)
  /\ UNCHANGED <<typed, inside, argv, own, command, passed, at, given, before, protocolVars>>

ReadOption ==
  \E k \in DOMAIN own :
    ReadFlags(own[k]) \/ ReadAttached(own[k]) \/ ReadSeparate(own[k]) \/ Usage(own[k])

Next ==
  \/ SplitNothing \/ SplitMisplaced \/ SplitAtCommand
  \/ ReadOption
  \/ Help \/ Refuse \/ Accept
  \/ RunGdb \/ RunGdbFails \/ RunGdbWithoutPlugin
  \/ LoadProtocols \/ LoadRaised \/ Start

Spec == Init /\ [][Next]_vars

------------------------------------------------------------------------------
(* Properties *)

StartedModes == {"run", "gdb-plugin", "load-from-file", "pipe"}

OptionsOf(word) ==
  IF IsOption(word) THEN {word[j] : j \in DOMAIN word \cap 2..ValueAt(word)} ELSE {}

(* A value written behind its option without a space has a g or an r, as in *)
(* -fwl_pointer: _split_command takes its characters for options.             *)
CommandInValue ==
  \E k \in DOMAIN typed :
    /\ SingleDash(typed[k])
    /\ \E j \in ValueAt(typed[k]) + 1 .. Len(typed[k]) : typed[k][j] \in Commands

(* "All subsequent command line arguments are sent to the program", "please   *)
(* specify a single mode": read from left to right as the help describes it,  *)
(* the command line asks for modes up to the first -r or -g.  A mode starts   *)
(* only if it alone is asked for, here or inside GDB, the program or GDB gets *)
(* all words behind the command, and help is shown only if none or several    *)
(* are asked for.                                                             *)
StartsAsAsked ==
  outcome \in StartedModes \cup {"help"} /\ ~CommandInValue =>
    LET commands == {k \in DOMAIN typed : OptionsOf(typed[k]) \cap Commands # {}}
        last     == CHOOSE k \in commands \cup {Len(typed)} :
                      \A j \in commands \cup {Len(typed)} : k <= j
        options  == UNION {OptionsOf(typed[k]) : k \in 1..last}
        asked    == {m \in StartedModes :
                       CASE m = "run"            -> "r" \in options
                         [] m = "gdb-plugin"     -> "g" \in options
                         [] m = "load-from-file" -> "l" \in options
                         [] m = "pipe"           -> "p" \in options}
    IN IF outcome = "help" THEN "m" \in options \/ Cardinality(asked) # 1
       ELSE asked = {outcome} /\ passed = SubSeq(typed, last + 1, Len(typed))

(* run_gdb: GDB is never started inside GDB.  What the instance outside       *)
(* accepts the one inside GDB accepts as well, and reads the same from it but *)
(* for what a Python string changes.  It is not started at all only if a word *)
(* cannot be put into a Python string or the program's name is not what the   *)
(* string says; once started it ends without a mode only for an r in front of *)
(* the g, as in -rg, a matcher that was changed and does not parse, or a      *)
(* protocol that cannot be loaded.                                            *)
GdbInstanceAgrees ==
  /\ inside => pc # "gdb"
  /\ outcome = "no plugin" /\ ~CommandInValue => ScriptFails(typed)
  /\ inside /\ ~CommandInValue =>
    LET value == [option \in ValueOptions |-> Requoted(before.value[option])]
    IN /\ outcome \in {"", "gdb-plugin", "help", "error"}
       /\ outcome = "help" => "r" \in before.flags
       /\ outcome = "error" =>
            \/ stage = "raised"
            \/ "r" \in before.flags
            \/ {value["f"], value["b"]} \cap BadMatchers # {}
       /\ pc = "load" => given = [flags |-> before.flags, value |-> value]
==============================================================================
