------------------------------- MODULE Protocol --------------------------------
(* core/wl/protocol.py: loading the definitions of interfaces from XML files, *)
(* tagging arguments with enums their protocols do not name, and looking up   *)
(* what the value of an argument is called.                                   *)
(*                                                                            *)
(* An interface is what a file says of it, [version, messages, enums], and    *)
(* the file.  A message is its arguments in order, [name, enum], an enum is   *)
(* [bitfield, entries], an entry [name, value].  The path to an enum is       *)
(* <<enum>> or <<interface, enum>>, and <<>> is none.  An integer is the set  *)
(* of its bits.                                                               *)
EXTENDS Naturals, Sequences, FiniteSets, Selection

CONSTANTS
  Files,         \* the XML files, of all directories
  Directory,     \* which of the three directories, in their order, each is in
  Contents,      \* what may be in a file: interfaces by name, or Broken
  Broken,        \* what is no protocol
  Tags,          \* load_all's list: [interface, message, arg, enum]
  FakeEnums,     \* the interface that load_all adds: its name
  FakeInterface, \* and its definition
  Bits           \* bound: the bits of an integer

Versions(c) == {c[name].version : name \in DOMAIN c}

(* What is shown when no entry is, which no entry is called.                  *)
Default(enum) == IF enum.bitfield THEN "(none)" ELSE "INVALID ENUM VALUE"

(* Entries are found by their names, as arguments are.                        *)
EnumsOK(enums) ==
  \A e \in DOMAIN enums :
    /\ enums[e].bitfield \in BOOLEAN
    /\ enums[e].entries \in Seq([name : STRING, value : SUBSET Bits])
    /\ \A j, k \in 1..Len(enums[e].entries) :
         enums[e].entries[j].name = enums[e].entries[k].name => j = k
    /\ \A j \in 1..Len(enums[e].entries) : enums[e].entries[j].name # Default(enums[e])

MessagesOK(messages) ==
  \A message \in DOMAIN messages : \A k \in DOMAIN messages[message] :
    {"name", "enum"} \subseteq DOMAIN messages[message][k]

ASSUME ProtocolAssumption ==
  /\ IsFiniteSet(Files) /\ IsFiniteSet(Bits)
  /\ Directory \in [Files -> 1..3]
  /\ \A c \in Contents \ {Broken} :
       /\ Versions(c) \subseteq Nat \ {0}
       /\ FakeEnums \notin DOMAIN c
       /\ \A name \in DOMAIN c : MessagesOK(c[name].messages) /\ EnumsOK(c[name].enums)
  /\ EnumsOK(FakeInterface.enums)
  /\ Len(Tags) \in Nat /\ DOMAIN Tags = 1..Len(Tags)
  /\ \A t \in 1..Len(Tags) : Tags[t].interface # FakeEnums

VARIABLES
  content,     \* of each file
  files,       \* in the order in which they are loaded
  loaded,      \* how many of them are
  interfaces,  \* what is known, by name
  tagged,      \* how many of Tags are done
  stage        \* none, load, tag, ready or raised

protocolVars == <<content, files, loaded, interfaces, tagged, stage>>

(* discover_xml: os.listdir gives the files of a directory in any order.      *)
Orders ==
  LET places == 1..Cardinality(Files)
  IN {order \in [places -> Files] : \A i, j \in places :
        i < j => order[i] # order[j] /\ Directory[order[i]] <= Directory[order[j]]}

ProtocolInit ==
  /\ content \in [Files -> Contents]
  /\ files = <<>> /\ loaded = 0 /\ interfaces = <<>> /\ tagged = 0 /\ stage = "none"

Discover ==
  /\ stage = "none"
  /\ files' \in Orders
  /\ loaded' = 0 /\ tagged' = 0 /\ stage' = "load"
  /\ UNCHANGED <<content, interfaces>>

Next1 == files[loaded + 1]

From(file, name) ==
  [file |-> file, version |-> content[file][name].version,
   messages |-> content[file][name].messages, enums |-> content[file][name].enums]

(* Mutant: of two definitions of the same version the later one is used.      *)
IsNotOlder(file, name) ==
  name \notin DOMAIN interfaces \/ interfaces[name].version <= content[file][name].version

IsNewer(file, name) ==
  name \notin DOMAIN interfaces \/ interfaces[name].version < content[file][name].version

Load ==
  /\ stage = "load" /\ loaded < Len(files) /\ content[Next1] # Broken
  /\ interfaces' =
       [name \in DOMAIN interfaces \cup DOMAIN content[Next1] |->
          IF name \in DOMAIN content[Next1] /\ IsNewer(Next1, name)
          THEN From(Next1, name) ELSE interfaces[name]]
  /\ loaded' = loaded + 1
  /\ UNCHANGED <<content, files, tagged, stage>>

LoadFails ==
  /\ stage = "load" /\ loaded < Len(files) /\ content[Next1] = Broken
  /\ stage' = "raised"
  /\ UNCHANGED <<content, files, loaded, interfaces, tagged>>

AllLoaded ==
  /\ stage = "load" /\ loaded = Len(files)
  /\ stage' = "tag"
  /\ UNCHANGED <<content, files, loaded, interfaces, tagged>>

HasArg(definitions, tag) ==
  /\ tag.interface \in DOMAIN definitions
  /\ tag.message \in DOMAIN definitions[tag.interface].messages
  /\ \E arg \in DOMAIN definitions[tag.interface].messages[tag.message] :
       definitions[tag.interface].messages[tag.message][arg].name = tag.arg

WithEnum(args, tag) ==
  [k \in DOMAIN args |->
     IF args[k].name = tag.arg THEN [args[k] EXCEPT !.enum = tag.enum] ELSE args[k]]

SetEnum ==
  /\ stage = "tag" /\ tagged < Len(Tags) /\ HasArg(interfaces, Tags[tagged + 1])
  /\ LET tag == Tags[tagged + 1]
     IN interfaces' = [interfaces EXCEPT ![tag.interface].messages[tag.message] = WithEnum(@, tag)]
  /\ tagged' = tagged + 1
  /\ UNCHANGED <<content, files, loaded, stage>>

(* Mutant: the list goes on behind what is missing.                           *)
SkipMissing ==
  /\ stage = "tag" /\ tagged < Len(Tags) /\ ~HasArg(interfaces, Tags[tagged + 1])
  /\ tagged' = tagged + 1
  /\ UNCHANGED <<content, files, loaded, interfaces, stage>>

(* A KeyError ends the list with a warning.                                   *)
SetEnumFails ==
  /\ stage = "tag" /\ tagged < Len(Tags) /\ ~HasArg(interfaces, Tags[tagged + 1])
  /\ stage' = "ready"
  /\ UNCHANGED <<content, files, loaded, interfaces, tagged>>

(* The last line of the list repeats an earlier one, which did not fail.      *)
AddFakeEnums ==
  /\ stage = "tag" /\ tagged = Len(Tags)
  /\ interfaces' = [name \in DOMAIN interfaces \cup {FakeEnums} |->
                      IF name = FakeEnums THEN FakeInterface ELSE interfaces[name]]
  /\ stage' = "ready"
  /\ UNCHANGED <<content, files, loaded, tagged>>

DumpAll ==
  /\ stage \in {"ready", "raised"}
  /\ interfaces' = <<>> /\ stage' = "none"
  /\ UNCHANGED <<content, files, loaded, tagged>>

LoadAll ==
  \/ Discover \/ Load \/ LoadFails \/ AllLoaded
  \/ SetEnum \/ SetEnumFails \/ AddFakeEnums

ProtocolNext == LoadAll \/ DumpAll

ProtocolSpec == ProtocolInit /\ [][ProtocolNext]_protocolVars

------------------------------------------------------------------------------
(* Looking up *)

EnumOwner(name, path) == (<<name>> \o path)[Len(path)]

HasEnum(name, path) ==
  /\ path # <<>>
  /\ EnumOwner(name, path) \in DOMAIN interfaces
  /\ path[Len(path)] \in DOMAIN interfaces[EnumOwner(name, path)].enums

GetEnum(name, path) == interfaces[EnumOwner(name, path)].enums[path[Len(path)]]

(* Mutant: an entry is shown only for its very value.                         *)
IsEqual(enum, entry, value) == entry.value = value

IsShown(enum, entry, value) ==
  IF enum.bitfield THEN entry.value \cap value # {} ELSE entry.value = value

(* look_up_enum, for an argument that exists.                                 *)
LookUpEnum(name, message, k, value) ==
  LET path    == interfaces[name].messages[message][k].enum
      enum    == GetEnum(name, path)
      shown   == Selected(enum.entries, {j \in 1..Len(enum.entries) :
                                           IsShown(enum, enum.entries[j], value)})
  IN IF ~HasEnum(name, path) THEN <<>>
     ELSE IF shown = <<>> THEN <<Default(enum)>>
     ELSE [j \in DOMAIN shown |-> shown[j].name]

------------------------------------------------------------------------------
(* Properties *)

(* load: whatever the order of the files, the definition of an interface is   *)
(* of the newest version in any file loaded so far, and from the earliest     *)
(* directory that has it: one of the system wins over one shipped.            *)
NewestOfEarliest ==
  stage \in {"load", "tag", "ready"} =>
    \A k \in 1..loaded : \A name \in DOMAIN content[files[k]] \ {FakeEnums} :
      /\ name \in DOMAIN interfaces
      /\ content[files[k]][name].version <= interfaces[name].version
      /\ content[files[k]][name].version = interfaces[name].version =>
           Directory[interfaces[name].file] <= Directory[files[k]]

(* load_all: every argument has the enum that the list gives it, or else the  *)
(* one its own file names; the list ends at the first argument that does not  *)
(* exist, and only if there is none are the invented enums added.             *)
TaggedUpToMissing ==
  stage = "ready" =>
    LET Reached(t) == \A u \in 1..t : HasArg(interfaces, Tags[u])
        Given(name, message, arg) ==
          {Tags[t].enum : t \in {t \in DOMAIN Tags :
             /\ Tags[t].interface = name /\ Tags[t].message = message /\ Tags[t].arg = arg
             /\ Reached(t)}}
    IN /\ FakeEnums \in DOMAIN interfaces <=> Reached(Len(Tags))
       /\ \A name \in DOMAIN interfaces \ {FakeEnums} :
          \A message \in DOMAIN interfaces[name].messages :
          \A k \in DOMAIN interfaces[name].messages[message] :
            LET arg   == interfaces[name].messages[message][k]
                own   == content[interfaces[name].file][name].messages[message][k]
                given == Given(name, message, arg.name)
            IN arg.enum \in IF given = {} THEN {own.enum} ELSE given

(* look_up_enum: the names shown for a value stand for all of its bits that   *)
(* have a name, and for no others if every entry of a bitfield is one bit;    *)
(* one that is no bitfield is shown by its own names, or as invalid.          *)
NamesStandForValue ==
  stage = "ready" =>
    \A name \in DOMAIN interfaces : \A message \in DOMAIN interfaces[name].messages :
    \A k \in DOMAIN interfaces[name].messages[message] :
      LET path    == interfaces[name].messages[message][k].enum
          enum    == GetEnum(name, path)
          entries == {enum.entries[j] : j \in DOMAIN enum.entries}
          bits(names) == UNION {entry.value : entry \in {e \in entries : e.name \in names}}
          named   == UNION {entry.value : entry \in entries}
      IN HasEnum(name, path) => \A value \in SUBSET Bits :
           LET shown == LookUpEnum(name, message, k, value)
               names == {shown[j] : j \in DOMAIN shown}
           IN IF enum.bitfield
              THEN /\ value \cap named \subseteq bits(names)
                   /\ (\A entry \in entries : Cardinality(entry.value) <= 1) =>
                        bits(names) = value \cap named
              ELSE bits(names) = IF value \in {e.value : e \in entries} THEN value ELSE {}
==============================================================================
