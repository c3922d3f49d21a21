----------------------------- MODULE StartupProofs -----------------------------
(* Which definition of an interface is used, for any files in any order, and  *)
(* what holds from the command line to a running mode, for any command line.  *)
EXTENDS Startup, SelectionProofs, FiniteSetTheorems, TLAPS

Known == DOMAIN interfaces \ {FakeEnums}

(* What is known of the files.                                                *)
FilesOK ==
  /\ content \in [Files -> Contents]
  /\ files \in Seq(Files)
  /\ \A i, j \in 1..Len(files) : i < j => Directory[files[i]] <= Directory[files[j]]
  /\ loaded \in 0..Len(files)
  /\ stage \in {"none", "load", "tag", "ready", "raised"}

(* What is known of an interface: it is one of those that were loaded, so     *)
(* that a file loaded later is in no earlier directory.                       *)
InterfacesOK ==
  /\ stage = "none" => DOMAIN interfaces = {}
  /\ \A name \in Known :
       /\ {"file", "version"} \subseteq DOMAIN interfaces[name]
       /\ interfaces[name].version \in Nat
       /\ \E j \in 1..loaded : interfaces[name].file = files[j]

LoadedOK ==
  stage \in {"load", "tag", "ready"} => \A k \in 1..loaded : content[files[k]] # Broken

ProtocolInv == FilesOK /\ InterfacesOK /\ LoadedOK /\ NewestOfEarliest

------------------------------------------------------------------------------

(* An order of the files is a sequence of them, sorted by directory.          *)
LEMMA OrdersSorted ==
  ASSUME NEW order \in Orders
  PROVE  /\ order \in Seq(Files)
         /\ \A i, j \in 1..Len(order) : i < j => Directory[order[i]] <= Directory[order[j]]
<1> DEFINE n == Cardinality(Files)
<1>1. n \in Nat
  BY FS_CardinalityType, ProtocolAssumption
<1>2. order \in [1..n -> Files]
  BY DEF Orders
<1>3. order \in Seq(Files) /\ Len(order) = n
  BY <1>1, <1>2
<1>4. \A i, j \in 1..n : i < j => Directory[order[i]] <= Directory[order[j]]
  BY DEF Orders
<1> QED
  BY <1>3, <1>4

(* The versions in a file are numbers.                                        *)
LEMMA VersionType ==
  ASSUME content \in [Files -> Contents], NEW file \in Files, content[file] # Broken,
         NEW name \in DOMAIN content[file]
  PROVE  content[file][name].version \in Nat
<1>1. content[file] \in Contents \ {Broken}
  OBVIOUS
<1>2. Versions(content[file]) \subseteq Nat \ {0}
  BY <1>1, ProtocolAssumption
<1>3. content[file][name].version \in Versions(content[file])
  BY DEF Versions
<1> QED
  BY <1>2, <1>3

LEMMA InvInit == ProtocolInit => ProtocolInv
<1> SUFFICES ASSUME ProtocolInit PROVE ProtocolInv
  OBVIOUS
<1>1. FilesOK
  BY DEF ProtocolInit, FilesOK
<1>2. DOMAIN interfaces = {}
  BY DEF ProtocolInit
<1> QED
  BY <1>1, <1>2 DEF ProtocolInit, ProtocolInv, InterfacesOK, LoadedOK, NewestOfEarliest, Known

LEMMA DiscoverInv == ProtocolInv /\ Discover => ProtocolInv'
<1> SUFFICES ASSUME ProtocolInv, Discover PROVE ProtocolInv'
  OBVIOUS
<1>1. FilesOK'
  BY OrdersSorted DEF ProtocolInv, FilesOK, Discover
<1>2. DOMAIN interfaces' = {}
  BY DEF ProtocolInv, InterfacesOK, Discover
<1> QED
  BY <1>1, <1>2 DEF Discover, ProtocolInv, InterfacesOK, LoadedOK, NewestOfEarliest, Known

------------------------------------------------------------------------------
(* Loading one file *)

LEMMA LoadInv == ProtocolInv /\ Load => ProtocolInv'
<1> SUFFICES ASSUME ProtocolInv, Load PROVE ProtocolInv'
  OBVIOUS
<1> DEFINE f == files[loaded + 1]
           replaced(name) == name \in DOMAIN content[f] /\ IsNewer(f, name)
<1> USE DEF Next1
<1>1. /\ loaded' = loaded + 1 /\ UNCHANGED <<content, files, stage>>
      /\ loaded + 1 \in 1..Len(files) /\ loaded \in Nat
      /\ f \in Files /\ content[f] # Broken
      /\ stage = "load"
  BY DEF Load, ProtocolInv, FilesOK
<1>2. FilesOK'
  BY <1>1 DEF ProtocolInv, FilesOK
<1>3. /\ DOMAIN interfaces' = DOMAIN interfaces \cup DOMAIN content[f]
      /\ \A name \in DOMAIN interfaces \cup DOMAIN content[f] :
           interfaces'[name] = IF replaced(name) THEN From(f, name) ELSE interfaces[name]
  BY DEF Load
<1>4. \A name \in DOMAIN content[f] : content[f][name].version \in Nat
  BY <1>1, VersionType DEF ProtocolInv, FilesOK
<1>5. \A name \in DOMAIN content[f] :
        /\ {"file", "version"} \subseteq DOMAIN From(f, name)
        /\ From(f, name).file = f /\ From(f, name).version = content[f][name].version
  BY DEF From
<1>6. \A name \in DOMAIN content[f] : ~replaced(name) =>
        /\ name \in DOMAIN interfaces
        /\ ~(interfaces[name].version < content[f][name].version)
  BY DEF IsNewer
<1>7. InterfacesOK'
  <2> SUFFICES ASSUME NEW name \in Known'
               PROVE  /\ {"file", "version"} \subseteq DOMAIN interfaces'[name]
                      /\ interfaces'[name].version \in Nat
                      /\ \E j \in 1..loaded' : interfaces'[name].file = files[j]
    BY <1>1 DEF InterfacesOK
  <2>1. CASE replaced(name)
    BY <2>1, <1>1, <1>3, <1>4, <1>5 DEF Known
  <2>2. CASE ~replaced(name)
    <3>1. name \in Known /\ interfaces'[name] = interfaces[name]
      BY <2>2, <1>3, <1>6 DEF Known
    <3>2. PICK j \in 1..loaded : interfaces[name].file = files[j]
      BY <3>1 DEF ProtocolInv, InterfacesOK
    <3> QED
      BY <3>1, <3>2, <1>1 DEF ProtocolInv, InterfacesOK
  <2> QED
    BY <2>1, <2>2
<1>8. LoadedOK'
  BY <1>1 DEF ProtocolInv, LoadedOK
<1>9. NewestOfEarliest'
  <2> SUFFICES ASSUME NEW k \in 1..loaded + 1, NEW name \in DOMAIN content[files[k]] \ {FakeEnums}
               PROVE  /\ name \in DOMAIN interfaces'
                      /\ content[files[k]][name].version <= interfaces'[name].version
                      /\ content[files[k]][name].version = interfaces'[name].version =>
                           Directory[interfaces'[name].file] <= Directory[files[k]]
    BY <1>1 DEF NewestOfEarliest
  <2>1. /\ files[k] \in Files /\ content[files[k]] # Broken
        /\ content[files[k]][name].version \in Nat
        /\ Directory[files[k]] \in 1..3
    <3>1. files[k] \in Files /\ content[files[k]] # Broken
      BY <1>1 DEF ProtocolInv, FilesOK, LoadedOK
    <3> QED
      BY <3>1, VersionType, ProtocolAssumption DEF ProtocolInv, FilesOK
  <2>2. CASE k \in 1..loaded
    <3>1. /\ name \in Known
          /\ content[files[k]][name].version <= interfaces[name].version
          /\ content[files[k]][name].version = interfaces[name].version =>
               Directory[interfaces[name].file] <= Directory[files[k]]
          /\ interfaces[name].version \in Nat
      BY <2>2, <1>1 DEF ProtocolInv, NewestOfEarliest, InterfacesOK, Known
    <3>2. CASE replaced(name)
      <4>1. interfaces[name].version < content[f][name].version
        BY <3>1, <3>2 DEF IsNewer, Known
      <4>2. interfaces'[name].version = content[f][name].version
        BY <3>1, <3>2, <1>3, <1>5 DEF Known
      <4>3. content[f][name].version \in Nat
        BY <3>2, <1>4
      <4> QED
        BY <3>1, <4>1, <4>2, <4>3, <2>1, <1>3 DEF Known
    <3>3. CASE ~replaced(name)
      BY <3>1, <3>3, <1>3 DEF Known
    <3> QED
      BY <3>2, <3>3
  <2>3. CASE k = loaded + 1
    <3>1. name \in DOMAIN content[f] /\ name \in DOMAIN interfaces'
      BY <2>3, <1>3
    <3>2. CASE replaced(name)
      <4>1. interfaces'[name].version = content[f][name].version /\ interfaces'[name].file = f
        BY <3>1, <3>2, <1>3, <1>5
      <4> QED
        BY <4>1, <3>1, <2>1, <2>3
    <3>3. CASE ~replaced(name)
      <4>1. name \in Known /\ interfaces'[name] = interfaces[name]
        BY <3>1, <3>3, <1>3, <1>6 DEF Known
      <4>2. content[f][name].version <= interfaces[name].version
        BY <3>1, <3>3, <4>1, <1>4, <1>6 DEF ProtocolInv, InterfacesOK
      <4>3. PICK j \in 1..loaded : interfaces[name].file = files[j]
        BY <4>1 DEF ProtocolInv, InterfacesOK
      <4>4. Directory[files[j]] <= Directory[f]
        BY <1>1 DEF ProtocolInv, FilesOK
      <4> QED
        BY <4>1, <4>2, <4>3, <4>4, <3>1, <2>3
    <3> QED
      BY <3>2, <3>3
  <2> QED
    BY <2>2, <2>3, <1>1
<1> QED
  BY <1>2, <1>7, <1>8, <1>9 DEF ProtocolInv

------------------------------------------------------------------------------
(* The other steps change neither the version nor the file of an interface.   *)

LEMMA SameInterfaces ==
  ASSUME ProtocolInv, UNCHANGED <<content, files, loaded>>,
         stage \in {"load", "tag"}, stage' \in {"load", "tag", "ready"},
         DOMAIN interfaces' \ {FakeEnums} = Known,
         \A name \in Known :
           /\ DOMAIN interfaces'[name] = DOMAIN interfaces[name]
           /\ interfaces'[name].version = interfaces[name].version
           /\ interfaces'[name].file = interfaces[name].file
  PROVE  ProtocolInv'
<1>1. FilesOK' /\ LoadedOK'
  BY DEF ProtocolInv, FilesOK, LoadedOK
<1>2. InterfacesOK'
  BY DEF ProtocolInv, InterfacesOK, Known
<1>3. NewestOfEarliest'
  <2> SUFFICES ASSUME NEW k \in 1..loaded, NEW name \in DOMAIN content[files[k]] \ {FakeEnums}
               PROVE  /\ name \in DOMAIN interfaces'
                      /\ content[files[k]][name].version <= interfaces'[name].version
                      /\ content[files[k]][name].version = interfaces'[name].version =>
                           Directory[interfaces'[name].file] <= Directory[files[k]]
    BY DEF NewestOfEarliest
  <2>1. /\ name \in Known
        /\ content[files[k]][name].version <= interfaces[name].version
        /\ content[files[k]][name].version = interfaces[name].version =>
             Directory[interfaces[name].file] <= Directory[files[k]]
    BY DEF ProtocolInv, NewestOfEarliest, Known
  <2> QED
    BY <2>1
<1> QED
  BY <1>1, <1>2, <1>3 DEF ProtocolInv

LEMMA SetEnumInv == ProtocolInv /\ SetEnum => ProtocolInv'
<1> SUFFICES ASSUME ProtocolInv, SetEnum PROVE ProtocolInv'
  OBVIOUS
<1> DEFINE tag == Tags[tagged + 1]
           args == WithEnum(interfaces[tag.interface].messages[tag.message], tag)
           changed == [interfaces[tag.interface] EXCEPT !.messages[tag.message] = args]
<1>1. /\ interfaces' = [interfaces EXCEPT ![tag.interface] = changed]
      /\ UNCHANGED <<content, files, loaded, stage>> /\ stage = "tag"
  BY DEF SetEnum
<1>2. DOMAIN interfaces' = DOMAIN interfaces
  BY <1>1
<1>3. ASSUME NEW name \in Known
      PROVE  /\ DOMAIN interfaces'[name] = DOMAIN interfaces[name]
             /\ interfaces'[name].version = interfaces[name].version
             /\ interfaces'[name].file = interfaces[name].file
  <2>1. {"file", "version"} \subseteq DOMAIN interfaces[name]
    BY DEF ProtocolInv, InterfacesOK
  <2>2. CASE name = tag.interface
    BY <2>1, <2>2, <1>1 DEF Known
  <2>3. CASE name # tag.interface
    BY <2>3, <1>1 DEF Known
  <2> QED
    BY <2>2, <2>3
<1> QED
  BY <1>1, <1>2, <1>3, SameInterfaces DEF Known

LEMMA AddFakeEnumsInv == ProtocolInv /\ AddFakeEnums => ProtocolInv'
<1> SUFFICES ASSUME ProtocolInv, AddFakeEnums PROVE ProtocolInv'
  OBVIOUS
<1>1. /\ DOMAIN interfaces' = DOMAIN interfaces \cup {FakeEnums}
      /\ \A name \in Known : interfaces'[name] = interfaces[name]
  BY DEF AddFakeEnums, Known
<1>2. DOMAIN interfaces' \ {FakeEnums} = Known
  BY <1>1 DEF Known
<1> QED
  BY <1>1, <1>2, SameInterfaces DEF AddFakeEnums

LEMMA OtherStepsInv ==
  ASSUME ProtocolInv, LoadFails \/ AllLoaded \/ SetEnumFails \/ DumpAll \/ UNCHANGED protocolVars
  PROVE  ProtocolInv'
<1>1. CASE LoadFails
  BY <1>1 DEF LoadFails, ProtocolInv, FilesOK, InterfacesOK, LoadedOK, NewestOfEarliest, Known
<1>2. CASE AllLoaded
  BY <1>2, SameInterfaces DEF AllLoaded, Known
<1>3. CASE SetEnumFails
  BY <1>3, SameInterfaces DEF SetEnumFails, Known
<1>4. CASE DumpAll
  <2>1. DOMAIN interfaces' = {}
    BY <1>4 DEF DumpAll
  <2> QED
    BY <2>1, <1>4 DEF DumpAll, ProtocolInv, FilesOK, InterfacesOK, LoadedOK, NewestOfEarliest, Known
<1>5. CASE UNCHANGED protocolVars
  BY <1>5 DEF protocolVars, ProtocolInv, FilesOK, InterfacesOK, LoadedOK, NewestOfEarliest, Known
<1> QED
  BY <1>1, <1>2, <1>3, <1>4, <1>5

(* load_all keeps the invariant, for any files, any order and any definitions.*)
THEOREM ProtocolInvariant == ProtocolSpec => []ProtocolInv
<1>1. ProtocolInit => ProtocolInv
  BY InvInit
<1>2. ProtocolInv /\ [ProtocolNext]_protocolVars => ProtocolInv'
  BY DiscoverInv, LoadInv, SetEnumInv, AddFakeEnumsInv, OtherStepsInv DEF ProtocolNext, LoadAll
<1> QED
  BY <1>1, <1>2, PTL DEF ProtocolSpec

(* The definition used of an interface is of the newest version in any file,  *)
(* from the earliest directory that has it.                                   *)
THEOREM NewestIsUsed == ProtocolSpec => []NewestOfEarliest
<1>1. ProtocolInv => NewestOfEarliest
  BY DEF ProtocolInv
<1> QED
  BY <1>1, ProtocolInvariant, PTL

------------------------------------------------------------------------------
(* Tagging arguments *)

Wants(t, name, message, arg) ==
  Tags[t].interface = name /\ Tags[t].message = message /\ Tags[t].arg = arg

GivenUpTo(n, name, message, arg) ==
  {Tags[t].enum : t \in {t \in 1..n : Wants(t, name, message, arg)}}

(* What the first n of Tags make of the arguments, the messages and the       *)
(* interface that a file has.                                                 *)
TaggedArgs(args, from_file, name, message, n) ==
  /\ DOMAIN args = DOMAIN from_file
  /\ \A k \in DOMAIN from_file :
       LET wanted == GivenUpTo(n, name, message, from_file[k].name)
       IN /\ {"name", "enum"} \subseteq DOMAIN args[k]
          /\ args[k].name = from_file[k].name
          /\ args[k].enum \in IF wanted = {} THEN {from_file[k].enum} ELSE wanted

TaggedMessages(messages, from_file, name, n) ==
  /\ DOMAIN messages = DOMAIN from_file
  /\ \A message \in DOMAIN from_file : TaggedArgs(messages[message], from_file[message], name, message, n)

TaggedInterface(interface, from_file, name, n) ==
  /\ {"file", "version", "messages", "enums"} \subseteq DOMAIN interface
  /\ interface.enums = from_file.enums
  /\ TaggedMessages(interface.messages, from_file.messages, name, n)

Own(name) == content[interfaces[name].file][name]

(* The inductive invariant: the list is done up to where the interfaces are   *)
(* tagged, and ends where it is done or something is missing.                 *)
TagInv ==
  /\ stage = "load" => tagged = 0
  /\ stage \in {"none", "load", "tag"} => FakeEnums \notin DOMAIN interfaces
  /\ stage \in {"load", "tag", "ready"} =>
       /\ \A name \in Known :
            /\ interfaces[name].file \in Files
            /\ content[interfaces[name].file] # Broken
            /\ name \in DOMAIN content[interfaces[name].file]
            /\ TaggedInterface(interfaces[name], Own(name), name, tagged)
       /\ FakeEnums \in DOMAIN interfaces => interfaces[FakeEnums] = FakeInterface
  /\ stage \in {"load", "tag", "ready"} =>
       /\ tagged \in 0..Len(Tags)
       /\ \A u \in 1..tagged : HasArg(interfaces, Tags[u])
  /\ stage = "ready" =>
       IF FakeEnums \in DOMAIN interfaces THEN tagged = Len(Tags)
       ELSE tagged < Len(Tags) /\ ~HasArg(interfaces, Tags[tagged + 1])

(* Tagging does not change which arguments there are.                         *)
OwnHasArg(from_file, tag) ==
  /\ tag.message \in DOMAIN from_file.messages
  /\ \E arg \in DOMAIN from_file.messages[tag.message] : from_file.messages[tag.message][arg].name = tag.arg

LEMMA SameArgs ==
  ASSUME NEW defs, NEW tag, NEW from_file, NEW n, tag.interface \in DOMAIN defs,
         TaggedInterface(defs[tag.interface], from_file, tag.interface, n)
  PROVE  HasArg(defs, tag) <=> OwnHasArg(from_file, tag)
<1> DEFINE messages == defs[tag.interface].messages
<1>1. /\ DOMAIN messages = DOMAIN from_file.messages
      /\ \A message \in DOMAIN from_file.messages :
           /\ DOMAIN messages[message] = DOMAIN from_file.messages[message]
           /\ \A k \in DOMAIN from_file.messages[message] :
                messages[message][k].name = from_file.messages[message][k].name
  BY DEF TaggedInterface, TaggedMessages, TaggedArgs
<1>2. HasArg(defs, tag) <=>
        /\ tag.message \in DOMAIN messages
        /\ \E arg \in DOMAIN messages[tag.message] : messages[tag.message][arg].name = tag.arg
  BY DEF HasArg
<1> HIDE DEF messages
<1>3. QED
  BY <1>1, <1>2 DEF OwnHasArg

(* Nothing is given by no tag.                                                *)
LEMMA UntaggedArgs ==
  ASSUME NEW c \in Contents \ {Broken}, NEW name \in DOMAIN c, NEW interface,
         {"file", "version", "messages", "enums"} \subseteq DOMAIN interface,
         interface.messages = c[name].messages, interface.enums = c[name].enums
  PROVE  TaggedInterface(interface, c[name], name, 0)
<1>1. \A message, arg : GivenUpTo(0, name, message, arg) = {}
  BY DEF GivenUpTo
<1>2. MessagesOK(c[name].messages)
  BY ProtocolAssumption
<1>3. ASSUME NEW message \in DOMAIN c[name].messages
      PROVE  TaggedArgs(c[name].messages[message], c[name].messages[message], name, message, 0)
  BY <1>1, <1>2 DEF TaggedArgs, MessagesOK
<1>4. QED
  BY <1>3 DEF TaggedInterface, TaggedMessages

(* One more tag changes the arguments that it names, and no others.           *)
LEMMA OneTagMore ==
  ASSUME NEW n \in Nat, NEW name, NEW message, NEW args, NEW from_file,
         TaggedArgs(args, from_file, name, message, n)
  PROVE  LET tag == Tags[n + 1]
         IN TaggedArgs(IF name = tag.interface /\ message = tag.message
                       THEN WithEnum(args, tag) ELSE args, from_file, name, message, n + 1)
<1> DEFINE tag == Tags[n + 1]
           after == IF name = tag.interface /\ message = tag.message
                    THEN WithEnum(args, tag) ELSE args
<1>1. \A arg : GivenUpTo(n + 1, name, message, arg) =
                 GivenUpTo(n, name, message, arg) \cup
                   (IF Wants(n + 1, name, message, arg) THEN {tag.enum} ELSE {})
  <2>1. 1..n+1 = 1..n \cup {n + 1}
    OBVIOUS
  <2>2. QED
    BY <2>1 DEF GivenUpTo
<1>2. DOMAIN after = DOMAIN args
  BY DEF WithEnum
<1>3. ASSUME NEW k \in DOMAIN from_file
      PROVE  LET wanted == GivenUpTo(n + 1, name, message, from_file[k].name)
             IN /\ {"name", "enum"} \subseteq DOMAIN after[k]
                /\ after[k].name = from_file[k].name
                /\ after[k].enum \in IF wanted = {} THEN {from_file[k].enum} ELSE wanted
  <2> DEFINE wanted == GivenUpTo(n, name, message, from_file[k].name)
  <2>1. /\ k \in DOMAIN args
        /\ {"name", "enum"} \subseteq DOMAIN args[k] /\ args[k].name = from_file[k].name
        /\ args[k].enum \in IF wanted = {} THEN {from_file[k].enum} ELSE wanted
    BY DEF TaggedArgs
  <2>2. CASE Wants(n + 1, name, message, from_file[k].name)
    <3>1. after[k] = [args[k] EXCEPT !.enum = tag.enum]
      BY <2>1, <2>2 DEF Wants, WithEnum
    <3>2. /\ {"name", "enum"} \subseteq DOMAIN after[k]
          /\ after[k].name = from_file[k].name /\ after[k].enum = tag.enum
      BY <2>1, <3>1
    <3>3. QED
      BY <1>1, <2>2, <3>2
  <2>3. CASE ~Wants(n + 1, name, message, from_file[k].name)
    <3>1. after[k] = args[k]
      BY <2>1, <2>3 DEF Wants, WithEnum
    <3>2. GivenUpTo(n + 1, name, message, from_file[k].name) = wanted
      BY <1>1, <2>3
    <3>3. QED
      BY <2>1, <3>1, <3>2
  <2>4. QED
    BY <2>2, <2>3
<1>4. DOMAIN after = DOMAIN from_file
  BY <1>2 DEF TaggedArgs
<1> HIDE DEF after
<1>5. TaggedArgs(after, from_file, name, message, n + 1)
  BY <1>3, <1>4 DEF TaggedArgs
<1>6. QED
  BY <1>5 DEF after

LEMMA TagInvLoad == ProtocolInv /\ TagInv /\ Load => TagInv'
<1> SUFFICES ASSUME ProtocolInv, TagInv, Load PROVE TagInv'
  OBVIOUS
<1> DEFINE f == files[loaded + 1]
           replaced(name) == name \in DOMAIN content[f] /\ IsNewer(f, name)
<1> USE DEF Next1
<1>1. /\ UNCHANGED <<content, files, stage, tagged>> /\ stage = "load" /\ tagged = 0
      /\ f \in Files /\ content[f] # Broken /\ content[f] \in Contents
  BY DEF Load, ProtocolInv, FilesOK, TagInv
<1>2. /\ DOMAIN interfaces' = DOMAIN interfaces \cup DOMAIN content[f]
      /\ \A name \in DOMAIN interfaces \cup DOMAIN content[f] :
           interfaces'[name] = IF replaced(name) THEN From(f, name) ELSE interfaces[name]
  BY DEF Load
<1>3. FakeEnums \notin DOMAIN interfaces'
  BY <1>1, <1>2, ProtocolAssumption DEF TagInv
<1>4. ASSUME NEW name \in Known'
      PROVE  LET file == interfaces'[name].file
             IN /\ file \in Files /\ content[file] # Broken /\ name \in DOMAIN content[file]
                /\ TaggedInterface(interfaces'[name], content[file][name], name, 0)
  <2>1. CASE replaced(name)
    <3> DEFINE i == From(f, name)
    <3>1. interfaces'[name] = i
      BY <1>2, <2>1
    <3>2. /\ i.file = f
          /\ {"file", "version", "messages", "enums"} \subseteq DOMAIN i
          /\ i.messages = content[f][name].messages /\ i.enums = content[f][name].enums
      BY DEF From
    <3> HIDE DEF i
    <3>3. TaggedInterface(i, content[f][name], name, 0)
      BY <1>1, <2>1, <3>2, UntaggedArgs
    <3>4. QED
      BY <1>1, <2>1, <3>1, <3>2, <3>3
  <2>2. CASE ~replaced(name)
    <3>1. name \in Known /\ interfaces'[name] = interfaces[name]
      BY <1>2, <2>2 DEF Known, IsNewer
    <3>2. QED
      BY <1>1, <3>1 DEF TagInv, Own
  <2>3. QED
    BY <2>1, <2>2
<1>5. QED
  BY <1>1, <1>3, <1>4, ProtocolAssumption DEF TagInv, Own

(* Setting the enum of an argument that exists.                               *)
LEMMA TagInvSetEnum == ProtocolInv /\ TagInv /\ SetEnum => TagInv'
<1> SUFFICES ASSUME ProtocolInv, TagInv, SetEnum PROVE TagInv'
  OBVIOUS
<1> DEFINE n == tagged
           tag == Tags[n + 1]
           old == interfaces[tag.interface]
           args == WithEnum(old.messages[tag.message], tag)
           changed == [old EXCEPT !.messages[tag.message] = args]
<1>1. /\ interfaces' = [interfaces EXCEPT ![tag.interface] = changed]
      /\ tagged' = n + 1 /\ n < Len(Tags) /\ HasArg(interfaces, tag)
      /\ UNCHANGED <<content, files, loaded, stage>> /\ stage = "tag"
  BY DEF SetEnum
<1>2. n \in Nat /\ n + 1 \in 0..Len(Tags) /\ FakeEnums \notin DOMAIN interfaces
  BY <1>1, ProtocolAssumption DEF TagInv
<1>3. /\ DOMAIN interfaces' = DOMAIN interfaces
      /\ interfaces'[tag.interface] = changed
      /\ \A name \in DOMAIN interfaces : name # tag.interface => interfaces'[name] = interfaces[name]
      /\ tag.interface \in Known
  BY <1>1, <1>2 DEF HasArg, Known
<1>4. ASSUME NEW name \in Known
      PROVE  /\ interfaces[name].file \in Files /\ content[interfaces[name].file] # Broken
             /\ name \in DOMAIN content[interfaces[name].file]
             /\ {"file", "version", "messages", "enums"} \subseteq DOMAIN interfaces[name]
             /\ interfaces[name].enums = Own(name).enums
             /\ TaggedMessages(interfaces[name].messages, Own(name).messages, name, n)
             /\ TaggedInterface(interfaces[name], Own(name), name, n)
  BY <1>1 DEF TagInv, TaggedInterface
<1>5. ASSUME NEW name \in Known
      PROVE  /\ {"file", "version", "messages", "enums"} \subseteq DOMAIN interfaces'[name]
             /\ interfaces'[name].file = interfaces[name].file
             /\ interfaces'[name].enums = interfaces[name].enums
             /\ TaggedMessages(interfaces'[name].messages, Own(name).messages, name, n + 1)
  <2> DEFINE earlier == interfaces[name].messages
             after == interfaces'[name].messages
  <2>1. /\ {"file", "version", "messages", "enums"} \subseteq DOMAIN interfaces'[name]
        /\ interfaces'[name].file = interfaces[name].file
        /\ interfaces'[name].enums = interfaces[name].enums
        /\ DOMAIN after = DOMAIN earlier
        /\ \A message \in DOMAIN earlier :
             after[message] = IF name = tag.interface /\ message = tag.message
                              THEN WithEnum(earlier[message], tag) ELSE earlier[message]
    <3>1. CASE name = tag.interface
      <4>1. /\ interfaces'[name] = changed /\ old = interfaces[name]
            /\ {"file", "version", "messages", "enums"} \subseteq DOMAIN old
        BY <1>3, <1>4, <3>1
      <4>2. changed = [old EXCEPT !.messages = [old.messages EXCEPT ![tag.message] = args]]
        OBVIOUS
      <4>3. /\ DOMAIN changed = DOMAIN old
            /\ changed.file = old.file /\ changed.enums = old.enums
            /\ changed.messages = [old.messages EXCEPT ![tag.message] = args]
        BY <4>1, <4>2
      <4> HIDE DEF changed, old
      <4>4. QED
        BY <3>1, <4>1, <4>3, ZenonT(30)
    <3>2. CASE name # tag.interface
      BY <1>3, <1>4, <3>2 DEF Known
    <3>3. QED
      BY <3>1, <3>2
  <2>2. /\ DOMAIN earlier = DOMAIN Own(name).messages
        /\ \A message \in DOMAIN Own(name).messages :
             TaggedArgs(earlier[message], Own(name).messages[message], name, message, n)
    BY <1>4 DEF TaggedMessages
  <2> HIDE DEF earlier, after
  <2>3. ASSUME NEW message \in DOMAIN Own(name).messages
        PROVE  TaggedArgs(after[message], Own(name).messages[message], name, message, n + 1)
    <3>1. after[message] = IF name = tag.interface /\ message = tag.message
                           THEN WithEnum(earlier[message], tag) ELSE earlier[message]
      BY <2>1, <2>2
    <3>2. TaggedArgs(earlier[message], Own(name).messages[message], name, message, n)
      BY <2>2
    <3> HIDE DEF n, tag
    <3>3. QED
      BY <1>2, <3>1, <3>2, OneTagMore DEF tag
  <2>4. TaggedMessages(after, Own(name).messages, name, n + 1)
    BY <2>1, <2>2, <2>3 DEF TaggedMessages
  <2>5. QED
    BY <2>1, <2>4 DEF after
<1>6. ASSUME NEW name \in Known
      PROVE  TaggedInterface(interfaces'[name], Own(name), name, n + 1)
  BY <1>4, <1>5 DEF TaggedInterface
<1>7. Known' = Known /\ \A name \in Known : Own(name)' = Own(name)
  BY <1>1, <1>3, <1>5 DEF Known, Own
<1>8. ASSUME NEW u \in 1..n+1
      PROVE  HasArg(interfaces', Tags[u])
  <2> DEFINE i == Tags[u].interface
  <2>1. HasArg(interfaces, Tags[u])
    <3>1. u \in 1..n \/ u = n + 1
      BY <1>2
    <3>2. QED
      BY <1>1, <3>1 DEF TagInv
  <2>2. i \in Known
    BY <1>2, <2>1 DEF HasArg, Known
  <2>3. OwnHasArg(Own(i), Tags[u])
    <3>1. TaggedInterface(interfaces[i], Own(i), i, n) /\ i \in DOMAIN interfaces
      BY <1>4, <2>2 DEF Known
    <3>2. QED
      BY <2>1, <3>1, SameArgs
  <2>4. TaggedInterface(interfaces'[i], Own(i), i, n + 1) /\ i \in DOMAIN interfaces'
    BY <1>3, <1>6, <2>2 DEF Known
  <2>5. QED
    BY <2>3, <2>4, SameArgs
<1>9. QED
  <2>1. \A name \in Known' :
          /\ interfaces'[name].file \in Files
          /\ content[interfaces'[name].file] # Broken
          /\ name \in DOMAIN content[interfaces'[name].file]
          /\ TaggedInterface(interfaces'[name], Own(name)', name, n + 1)
    BY <1>4, <1>5, <1>6, <1>7
  <2>2. FakeEnums \notin DOMAIN interfaces'
    BY <1>2, <1>3
  <2>3. QED
    BY <1>1, <1>2, <1>8, <2>1, <2>2 DEF TagInv

LEMMA TagInvFake == ProtocolInv /\ TagInv /\ AddFakeEnums => TagInv'
<1> SUFFICES ASSUME ProtocolInv, TagInv, AddFakeEnums PROVE TagInv'
  OBVIOUS
<1>1. /\ DOMAIN interfaces' = DOMAIN interfaces \cup {FakeEnums}
      /\ interfaces'[FakeEnums] = FakeInterface
      /\ \A name \in Known : interfaces'[name] = interfaces[name]
      /\ UNCHANGED <<content, files, loaded, tagged>> /\ tagged = Len(Tags)
      /\ stage = "tag" /\ stage' = "ready"
  BY DEF AddFakeEnums, Known
<1>2. Known' = Known
  BY <1>1 DEF Known
<1>3. \A name \in Known : Own(name)' = Own(name)
  BY <1>1 DEF Own
<1>4. ASSUME NEW u \in 1..tagged
      PROVE  HasArg(interfaces', Tags[u])
  <2>1. HasArg(interfaces, Tags[u]) /\ Tags[u].interface \in Known
    BY <1>1, ProtocolAssumption DEF TagInv, HasArg, Known
  <2>2. QED
    BY <1>1, <2>1 DEF HasArg, Known
<1>5. \A name \in Known' :
        /\ interfaces'[name].file \in Files
        /\ content'[interfaces'[name].file] # Broken
        /\ name \in DOMAIN content'[interfaces'[name].file]
        /\ TaggedInterface(interfaces'[name], Own(name)', name, tagged)
  BY <1>1, <1>2, <1>3 DEF TagInv
<1>6. QED
  BY <1>1, <1>4, <1>5 DEF TagInv

LEMMA TagInvOther ==
  ASSUME ProtocolInv, TagInv,
         Discover \/ LoadFails \/ AllLoaded \/ SetEnumFails \/ DumpAll \/ UNCHANGED protocolVars
  PROVE  TagInv'
<1>1. CASE Discover
  <2>1. DOMAIN interfaces = {} /\ Known = {}
    BY <1>1 DEF Discover, ProtocolInv, InterfacesOK, Known
  <2>2. QED
    BY <1>1, <2>1, ProtocolAssumption DEF Discover, TagInv, Known
<1>2. CASE LoadFails
  BY <1>2 DEF LoadFails, TagInv
<1>3. CASE AllLoaded
  BY <1>3, ProtocolAssumption DEF AllLoaded, TagInv, Known, Own
<1>4. CASE SetEnumFails
  BY <1>4 DEF SetEnumFails, TagInv, Known, Own
<1>5. CASE DumpAll
  <2>1. DOMAIN interfaces' = {}
    BY <1>5 DEF DumpAll
  <2>2. QED
    BY <1>5, <2>1 DEF DumpAll, TagInv
<1>6. CASE UNCHANGED protocolVars
  BY <1>6 DEF protocolVars, TagInv, Known, Own
<1>7. QED
  BY <1>1, <1>2, <1>3, <1>4, <1>5, <1>6

LEMMA TagInvariant == ProtocolSpec => []TagInv
<1>1. ProtocolInit => TagInv
  <2>1. ProtocolInit => DOMAIN interfaces = {}
    BY DEF ProtocolInit
  <2>2. QED
    BY <2>1 DEF ProtocolInit, TagInv
<1>2. ProtocolInv /\ TagInv /\ [ProtocolNext]_protocolVars => TagInv'
  BY TagInvLoad, TagInvSetEnum, TagInvFake, TagInvOther DEF ProtocolNext, LoadAll
<1>3. QED
  BY <1>1, <1>2, ProtocolInvariant, PTL DEF ProtocolSpec

(* Every argument has the enum that the list gives it, up to the first that   *)
(* does not exist, or the one of its own file; and the invented enums are     *)
(* there exactly when none is missing.                                        *)
THEOREM TagsUpToMissing == ProtocolSpec => []TaggedUpToMissing
<1>1. TagInv => TaggedUpToMissing
  <2> SUFFICES ASSUME TagInv, stage = "ready" PROVE TaggedUpToMissing
    BY DEF TaggedUpToMissing
  <2> DEFINE Reached(t) == \A u \in 1..t : HasArg(interfaces, Tags[u])
             Given(name, message, arg) ==
               {Tags[t].enum : t \in {t \in DOMAIN Tags :
                  /\ Tags[t].interface = name /\ Tags[t].message = message /\ Tags[t].arg = arg
                  /\ Reached(t)}}
             N == Len(Tags)
  <2>1. /\ N \in Nat /\ DOMAIN Tags = 1..N /\ tagged \in 0..N
        /\ \A u \in 1..tagged : HasArg(interfaces, Tags[u])
        /\ IF FakeEnums \in DOMAIN interfaces THEN tagged = N
           ELSE tagged < N /\ ~HasArg(interfaces, Tags[tagged + 1])
    BY ProtocolAssumption DEF TagInv
  <2> HIDE DEF N
  <2>2. \A t \in 1..N : Reached(t) <=> t <= tagged
    BY <2>1
  <2>3. FakeEnums \in DOMAIN interfaces <=> Reached(N)
    BY <2>1
  <2>4. ASSUME NEW name, NEW message, NEW arg
        PROVE  Given(name, message, arg) = GivenUpTo(tagged, name, message, arg)
    <3>1. {t \in DOMAIN Tags :
             /\ Tags[t].interface = name /\ Tags[t].message = message /\ Tags[t].arg = arg
             /\ Reached(t)} = {t \in 1..tagged : Wants(t, name, message, arg)}
      BY <2>1, <2>2 DEF Wants
    <3>2. QED
      BY <3>1 DEF GivenUpTo
  <2> HIDE DEF Given, Reached
  <2>5. ASSUME NEW name \in DOMAIN interfaces \ {FakeEnums},
               NEW message \in DOMAIN interfaces[name].messages,
               NEW k \in DOMAIN interfaces[name].messages[message]
        PROVE  LET arg   == interfaces[name].messages[message][k]
                   from_file   == content[interfaces[name].file][name].messages[message][k]
                   wanted == Given(name, message, arg.name)
               IN arg.enum \in IF wanted = {} THEN {from_file.enum} ELSE wanted
    <3>1. TaggedInterface(interfaces[name], Own(name), name, tagged)
      BY DEF TagInv, Known
    <3>2. TaggedArgs(interfaces[name].messages[message], Own(name).messages[message],
                     name, message, tagged)
      BY <3>1 DEF TaggedInterface, TaggedMessages
    <3>3. QED
      BY <2>4, <3>2 DEF TaggedArgs, Own
  <2>6. QED
    BY <2>3, <2>5 DEF TaggedUpToMissing, Given, Reached, N
<1>2. QED
  BY <1>1, TagInvariant, PTL

------------------------------------------------------------------------------
(* What a value is called *)

EntryShape == [name : STRING, value : SUBSET Bits]

Places(enum, value) ==
  {j \in 1..Len(enum.entries) : IsShown(enum, enum.entries[j], value)}

(* The names that look_up_enum gives for the value of an enum.                *)
ShownFor(enum, value) ==
  LET shown == Selected(enum.entries, Places(enum, value))
  IN IF shown = <<>> THEN <<Default(enum)>> ELSE [j \in DOMAIN shown |-> shown[j].name]

EnumOK(enum) ==
  /\ enum.bitfield \in BOOLEAN
  /\ enum.entries \in Seq(EntryShape)
  /\ \A j, k \in 1..Len(enum.entries) : enum.entries[j].name = enum.entries[k].name => j = k
  /\ \A j \in 1..Len(enum.entries) : enum.entries[j].name # Default(enum)

(* An entry has one of these names exactly if it is shown.                    *)
LEMMA NamesOfShown ==
  ASSUME NEW enum, EnumOK(enum), NEW value
  PROVE  LET shown == ShownFor(enum, value)
             names == {shown[j] : j \in DOMAIN shown}
         IN \A j \in 1..Len(enum.entries) :
              enum.entries[j].name \in names <=> IsShown(enum, enum.entries[j], value)
<1> DEFINE es == enum.entries
           P == Places(enum, value)
           sel == Selected(es, P)
           shown == ShownFor(enum, value)
<1>1. /\ es \in Seq(EntryShape) /\ Len(es) \in Nat
      /\ \A j, k \in 1..Len(es) : es[j].name = es[k].name => j = k
      /\ \A j \in 1..Len(es) : es[j].name # Default(enum)
  BY DEF EnumOK
<1>2. P = {j \in 1..Len(es) : IsShown(enum, es[j], value)}
  BY DEF Places
<1>3. shown = IF sel = <<>> THEN <<Default(enum)>> ELSE [j \in DOMAIN sel |-> sel[j].name]
  BY DEF ShownFor
<1> HIDE DEF es, P, shown
<1>4. PICK pos \in [1..Len(sel) -> P \cap 1..Len(es)] :
        /\ \A n \in P \cap 1..Len(es) : \E k \in 1..Len(sel) : pos[k] = n
        /\ \A k \in 1..Len(sel) : sel[k] = es[pos[k]]
  BY <1>1, SelectedPlaces, SMTT(20)
<1>5. sel \in Seq(EntryShape)
  BY <1>1, SelectedType
<1> HIDE DEF sel
<1>6. Len(sel) \in Nat /\ DOMAIN sel = 1..Len(sel)
  BY <1>5
<1>7. CASE sel = <<>>
  <2>1. P = {}
    BY <1>2, <1>4, <1>7
  <2>2. shown = <<Default(enum)>> /\ {shown[j] : j \in DOMAIN shown} = {Default(enum)}
    BY <1>3, <1>7
  <2>3. QED
    BY <1>1, <1>2, <2>1, <2>2 DEF es, shown
<1>8. CASE sel # <<>>
  <2> DEFINE names == {shown[j] : j \in DOMAIN shown}
  <2>1. names = {sel[j].name : j \in 1..Len(sel)}
    BY <1>3, <1>6, <1>8
  <2>2. ASSUME NEW j \in 1..Len(es), j \in P
        PROVE  es[j].name \in names
    <3>1. PICK k \in 1..Len(sel) : pos[k] = j
      BY <1>4, <2>2
    <3>2. sel[k] = es[j]
      BY <1>4, <3>1
    <3>3. QED
      BY <2>1, <3>2
  <2>3. ASSUME NEW j \in 1..Len(es), es[j].name \in names
        PROVE  j \in P
    <3>1. PICK k \in 1..Len(sel) : es[j].name = sel[k].name
      BY <2>1, <2>3
    <3>2. sel[k] = es[pos[k]] /\ pos[k] \in P \cap 1..Len(es)
      BY <1>4
    <3>3. j = pos[k]
      BY <1>1, <3>1, <3>2
    <3>4. QED
      BY <3>2, <3>3
  <2>4. QED
    BY <1>2, <2>2, <2>3 DEF es, shown
<1>9. QED
  BY <1>7, <1>8

(* A set of at most one bit that is in part of a value is all in it.          *)
LEMMA OneBit ==
  ASSUME NEW S \in SUBSET Bits, Cardinality(S) <= 1, NEW V, S \cap V # {}
  PROVE  S \subseteq V
<1>1. IsFiniteSet(S)
  BY FS_Subset, ProtocolAssumption
<1>2. Cardinality(S) \in Nat /\ Cardinality(S) # 0
  BY <1>1, FS_CardinalityType, FS_EmptySet
<1>3. Cardinality(S) = 1
  BY <1>2
<1>4. PICK x : S = {x}
  BY <1>1, <1>3, FS_Singleton
<1>5. QED
  BY <1>4

(* The names shown stand for the value.                                       *)
StandFor(enum, shown, value) ==
  LET entries == {enum.entries[j] : j \in DOMAIN enum.entries}
      names == {shown[j] : j \in DOMAIN shown}
      bits == UNION {entry.value : entry \in {e \in entries : e.name \in names}}
      named == UNION {entry.value : entry \in entries}
  IN IF enum.bitfield
     THEN /\ value \cap named \subseteq bits
          /\ (\A entry \in entries : Cardinality(entry.value) <= 1) =>
               bits = value \cap named
     ELSE bits = IF value \in {e.value : e \in entries} THEN value ELSE {}

LEMMA NamesStandFor ==
  ASSUME NEW enum, EnumOK(enum), NEW value \in SUBSET Bits
  PROVE  StandFor(enum, ShownFor(enum, value), value)
<1> DEFINE entries == {enum.entries[j] : j \in DOMAIN enum.entries}
           shown == ShownFor(enum, value)
           names == {shown[j] : j \in DOMAIN shown}
           those == {e \in entries : e.name \in names}
           bits == UNION {entry.value : entry \in those}
           named == UNION {entry.value : entry \in entries}
<1>1. /\ DOMAIN enum.entries = 1..Len(enum.entries)
      /\ \A j \in 1..Len(enum.entries) : enum.entries[j] \in EntryShape
  BY DEF EnumOK
<1>2. \A j \in 1..Len(enum.entries) :
        enum.entries[j].name \in names <=> IsShown(enum, enum.entries[j], value)
  BY NamesOfShown
<1> HIDE DEF names
<1>3. \A e \in entries : e.value \in SUBSET Bits
  BY <1>1 DEF EntryShape
<1>4. those = {e \in entries : IsShown(enum, e, value)}
  BY <1>1, <1>2
<1>5. CASE enum.bitfield = TRUE
  <2>1. those = {e \in entries : e.value \cap value # {}}
    BY <1>4, <1>5 DEF IsShown
  <2> HIDE DEF those, entries
  <2>2. value \cap named \subseteq bits
    BY <2>1
  <2>3. ASSUME \A entry \in entries : Cardinality(entry.value) <= 1
        PROVE  bits = value \cap named
    <3>1. \A e \in those : e \in entries /\ e.value \subseteq value
      BY <1>3, <2>1, <2>3, OneBit
    <3>2. bits \subseteq value \cap named
      BY <3>1
    <3>3. QED
      BY <2>2, <3>2
  <2>4. QED
    BY <1>5, <2>2, <2>3 DEF StandFor, those, entries, names
<1>6. CASE enum.bitfield = FALSE
  <2>1. those = {e \in entries : e.value = value}
    BY <1>4, <1>6 DEF IsShown
  <2> HIDE DEF those, entries
  <2>2. CASE value \in {e.value : e \in entries}
    <3>1. {entry.value : entry \in those} = {value}
      BY <2>1, <2>2
    <3>2. bits = value
      BY <3>1
    <3>3. QED
      BY <1>6, <2>2, <3>2 DEF StandFor, those, entries, names
  <2>3. CASE value \notin {e.value : e \in entries}
    <3>1. those = {}
      BY <2>1, <2>3
    <3>2. bits = {}
      BY <3>1
    <3>3. QED
      BY <1>6, <2>3, <3>2 DEF StandFor, those, entries, names
  <2>4. QED
    BY <2>2, <2>3
<1>7. QED
  BY <1>5, <1>6 DEF EnumOK

(* Every enum that is known is as a file, or the code, has it.                *)
LEMMA KnownEnumOK ==
  ASSUME FilesOK, TagInv, stage = "ready", NEW owner \in DOMAIN interfaces,
         NEW e \in DOMAIN interfaces[owner].enums
  PROVE  EnumOK(interfaces[owner].enums[e])
<1>1. EnumsOK(interfaces[owner].enums)
  <2>1. CASE owner = FakeEnums
    BY <2>1, ProtocolAssumption DEF TagInv
  <2>2. CASE owner # FakeEnums
    <3> DEFINE file == interfaces[owner].file
    <3>1. /\ file \in Files /\ content[file] # Broken /\ owner \in DOMAIN content[file]
          /\ interfaces[owner].enums = content[file][owner].enums
      BY <2>2 DEF TagInv, Known, TaggedInterface, Own
    <3>2. content[file] \in Contents \ {Broken}
      BY <3>1 DEF FilesOK
    <3>3. QED
      BY <3>1, <3>2, ProtocolAssumption
  <2>3. QED
    BY <2>1, <2>2
<1>2. QED
  BY <1>1 DEF EnumsOK, EnumOK, EntryShape

(* The names that are shown for a value stand for all of its bits that have a *)
(* name, and if every entry is one bit for no others; a value of an enum that *)
(* is no bitfield is shown by its own names, or as invalid.                   *)
THEOREM NamesAlwaysStand == ProtocolSpec => []NamesStandForValue
<1>1. ProtocolInv /\ TagInv => NamesStandForValue
  <2> SUFFICES ASSUME ProtocolInv, TagInv, stage = "ready",
                      NEW name \in DOMAIN interfaces,
                      NEW message \in DOMAIN interfaces[name].messages,
                      NEW k \in DOMAIN interfaces[name].messages[message],
                      HasEnum(name, interfaces[name].messages[message][k].enum),
                      NEW value \in SUBSET Bits
               PROVE  LET path    == interfaces[name].messages[message][k].enum
                          enum    == GetEnum(name, path)
                          entries == {enum.entries[j] : j \in DOMAIN enum.entries}
                          bits(names) ==
                            UNION {entry.value : entry \in {e \in entries : e.name \in names}}
                          named   == UNION {entry.value : entry \in entries}
                          shown == LookUpEnum(name, message, k, value)
                          names == {shown[j] : j \in DOMAIN shown}
                      IN IF enum.bitfield
                         THEN /\ value \cap named \subseteq bits(names)
                              /\ (\A entry \in entries : Cardinality(entry.value) <= 1) =>
                                   bits(names) = value \cap named
                         ELSE bits(names) =
                                IF value \in {e.value : e \in entries} THEN value ELSE {}
    BY DEF NamesStandForValue
  <2> DEFINE path == interfaces[name].messages[message][k].enum
             enum == GetEnum(name, path)
  <2>1. EnumOK(enum)
    BY KnownEnumOK DEF ProtocolInv, HasEnum, GetEnum
  <2>2. LookUpEnum(name, message, k, value) = ShownFor(enum, value)
    BY DEF LookUpEnum, ShownFor, Places
  <2> HIDE DEF enum
  <2>3. StandFor(enum, ShownFor(enum, value), value)
    BY <2>1, NamesStandFor
  <2>4. StandFor(enum, LookUpEnum(name, message, k, value), value)
    BY <2>2, <2>3
  <2>5. QED
    BY <2>4 DEF StandFor, enum
<1>2. QED
  BY <1>1, TagInvariant, ProtocolInvariant, PTL

------------------------------------------------------------------------------
(* From the command line to a running mode *)

(* The instance inside GDB is on its way with a mode of its own.              *)
NeverNested == inside => pc # "gdb"

(* Starting up loads protocols, or leaves them alone.                         *)
THEOREM StartupLoadsProtocols == Spec => ProtocolSpec
<1>1. Init => ProtocolInit
  BY DEF Init
<1>2. [Next]_vars => [ProtocolNext]_protocolVars
  <2> SUFFICES ASSUME [Next]_vars PROVE [ProtocolNext]_protocolVars
    OBVIOUS
  <2>1. CASE SplitNothing \/ SplitMisplaced \/ SplitAtCommand
    BY <2>1 DEF SplitNothing, SplitMisplaced, SplitAtCommand
  <2>2. CASE ReadOption
    BY <2>2 DEF ReadOption, ReadFlags, ReadAttached, ReadSeparate, Usage
  <2>3. CASE Help \/ Refuse \/ Accept
    BY <2>3 DEF Help, Refuse, Accept
  <2>4. CASE RunGdb \/ RunGdbFails \/ RunGdbWithoutPlugin
    BY <2>4 DEF RunGdb, RunGdbFails, RunGdbWithoutPlugin
  <2>5. CASE LoadProtocols
    BY <2>5 DEF LoadProtocols, ProtocolNext
  <2>6. CASE LoadRaised \/ Start
    BY <2>6 DEF LoadRaised, Start
  <2>7. CASE UNCHANGED vars
    BY <2>7 DEF vars
  <2> QED
    BY <2>1, <2>2, <2>3, <2>4, <2>5, <2>6, <2>7 DEF Next
<1> QED
  BY <1>1, <1>2, PTL DEF Spec, ProtocolSpec

(* So a started mode uses the newest definition of every interface, whatever  *)
(* the command line and the files.                                            *)
THEOREM StartupUsesNewest == Spec => []NewestOfEarliest
  BY StartupLoadsProtocols, NewestIsUsed, PTL

(* And every value is shown by names that stand for it.                       *)
THEOREM StartupShowsNames == Spec => [](TaggedUpToMissing /\ NamesStandForValue)
  BY StartupLoadsProtocols, TagsUpToMissing, NamesAlwaysStand, PTL

(* The assert of run_gdb never fails: inside GDB one more mode is asked for   *)
(* than outside, and what asks for GDB again asks for two.                    *)
THEOREM GdbNotNested == Spec => []NeverNested
<1>1. Init => NeverNested
  BY DEF Init, NeverNested
<1>2. NeverNested /\ [Next]_vars => NeverNested'
  <2> SUFFICES ASSUME NeverNested, [Next]_vars PROVE NeverNested'
    OBVIOUS
  <2>1. CASE SplitNothing \/ SplitMisplaced \/ SplitAtCommand
    BY <2>1 DEF SplitNothing, SplitMisplaced, SplitAtCommand, End, NeverNested
  <2>2. CASE ReadOption
    BY <2>2 DEF ReadOption, ReadFlags, ReadAttached, ReadSeparate, Usage, End, NeverNested
  <2>3. CASE Help \/ Refuse
    BY <2>3 DEF Help, Refuse, End, NeverNested
  <2>4. CASE Accept
    <3>1. inside => Modes # {"gdb-runner"}
      <4>1. inside => "gdb-plugin" \in Modes
        BY DEF Modes
      <4> QED
        BY <4>1
    <3> QED
      BY <2>4, <3>1 DEF Accept, NeverNested
  <2>5. CASE RunGdb \/ RunGdbFails \/ RunGdbWithoutPlugin
    BY <2>5 DEF RunGdb, RunGdbFails, RunGdbWithoutPlugin, End, NeverNested
  <2>6. CASE LoadProtocols
    BY <2>6 DEF LoadProtocols, startVars, NeverNested
  <2>7. CASE LoadRaised \/ Start
    BY <2>7 DEF LoadRaised, Start, End, NeverNested
  <2>8. CASE UNCHANGED vars
    BY <2>8 DEF vars, startVars, NeverNested
  <2> QED
    BY <2>1, <2>2, <2>3, <2>4, <2>5, <2>6, <2>7, <2>8 DEF Next
<1> QED
  BY <1>1, <1>2, PTL DEF Spec
------------------------------------------------------------------------------
(* The words of a command line *)

Words == {word \in Seq(STRING) : WordOK(word)}

(* The first option of a word that takes a value, or the place behind it.     *)
IsValueAt(word, j) ==
  /\ j \in 2..Len(word)+1
  /\ j <= Len(word) => word[j] \in ValueOptions
  /\ \A i \in 2..j-1 : word[i] \notin ValueOptions

LEMMA WordType ==
  ASSUME NEW word \in Words
  PROVE  /\ word \in Seq(STRING) /\ Len(word) \in Nat /\ Len(word) >= 1
         /\ DOMAIN word = 1..Len(word)
         /\ Len(word) > 1 => word[1] \in {"-", "--"}
         /\ Len(word) > 2 /\ word[1] = "--" => word[2] \in ValueOptions
<1>1. word \in Seq(STRING) /\ word # <<>>
  BY DEF Words, WordOK
<1>2. Len(word) >= 1
  BY <1>1
<1>3. QED
  BY <1>1, <1>2 DEF Words, WordOK

LEMMA ValueAtIs ==
  ASSUME NEW word \in Words
  PROVE  IsValueAt(word, ValueAt(word))
<1> DEFINE n == Len(word)
           T == {j \in 2..n+1 : j <= n => word[j] \in ValueOptions}
<1>1. n \in Nat /\ n >= 1
  BY WordType
<1>2. PICK j \in T : \A i \in T : j <= i
  <2>1. T \subseteq Nat /\ n + 1 \in T
    BY <1>1
  <2> HIDE DEF T
  <2>2. QED
    BY <2>1, Least
<1>3. \A i \in 2..j-1 : word[i] \notin ValueOptions
  <2>1. SUFFICES ASSUME NEW i \in 2..j-1, word[i] \in ValueOptions PROVE FALSE
    OBVIOUS
  <2>2. i \in T /\ i < j
    BY <1>1, <1>2, <2>1
  <2> HIDE DEF T
  <2>3. QED
    BY <1>1, <1>2, <2>1, <2>2
<1>4. IsValueAt(word, j) /\ j \in 2..Len(word)+1
  BY <1>2, <1>3 DEF IsValueAt
<1>5. ValueAt(word) = CHOOSE i \in 2..Len(word)+1 : IsValueAt(word, i)
  BY DEF ValueAt, IsValueAt
<1>6. QED
  BY <1>4, <1>5

LEMMA ValueAtOnly ==
  ASSUME NEW word \in Words, NEW j, IsValueAt(word, j)
  PROVE  ValueAt(word) = j
<1> DEFINE v == ValueAt(word)
<1>1. IsValueAt(word, v) /\ Len(word) \in Nat
  BY ValueAtIs, WordType
<1> HIDE DEF v
<1>2. ~(v < j)
  BY <1>1 DEF IsValueAt
<1>3. ~(j < v)
  BY <1>1 DEF IsValueAt
<1>4. QED
  BY <1>1, <1>2, <1>3 DEF IsValueAt, v

(* The options of a word are its flags and the one that takes a value.        *)
LEMMA OptionsAre ==
  ASSUME NEW word \in Words
  PROVE  /\ ValueAt(word) \in 2..Len(word)+1
         /\ IsOption(word) =>
              OptionsOf(word) = FlagsOf(word) \cup
                (IF ValueAt(word) <= Len(word) THEN {word[ValueAt(word)]} ELSE {})
         /\ ~IsOption(word) => OptionsOf(word) = {} /\ FlagsOf(word) = {}
         /\ FlagsOf(word) \cap ValueOptions = {}
<1> DEFINE v == ValueAt(word)
<1>1. /\ IsValueAt(word, v) /\ DOMAIN word = 1..Len(word) /\ Len(word) \in Nat
      /\ Len(word) >= 1
  BY ValueAtIs, WordType
<1> HIDE DEF v
<1>2. v \in 2..Len(word)+1 /\ \A i \in 2..v-1 : word[i] \notin ValueOptions
  BY <1>1 DEF IsValueAt
<1>3. FlagsOf(word) = {word[j] : j \in 2..v-1}
  BY DEF FlagsOf, v
<1>4. OptionsOf(word) = IF IsOption(word) THEN {word[j] : j \in DOMAIN word \cap 2..v} ELSE {}
  BY DEF OptionsOf, v
<1>5. CASE v <= Len(word)
  <2>1. DOMAIN word \cap 2..v = 2..v-1 \cup {v}
    BY <1>1, <1>2, <1>5
  <2>2. {word[j] : j \in DOMAIN word \cap 2..v} = FlagsOf(word) \cup {word[v]}
    BY <1>3, <2>1
  <2>3. ~IsOption(word) => FALSE
    BY <1>1, <1>2, <1>5 DEF IsOption
  <2>4. QED
    BY <1>2, <1>3, <1>4, <1>5, <2>2, <2>3 DEF v
<1>6. CASE v = Len(word) + 1
  <2>1. DOMAIN word \cap 2..v = 2..v-1
    BY <1>1, <1>2, <1>6
  <2>2. {word[j] : j \in DOMAIN word \cap 2..v} = FlagsOf(word)
    BY <1>3, <2>1
  <2>3. ~IsOption(word) => FlagsOf(word) = {}
    BY <1>1, <1>3, <1>6 DEF IsOption
  <2>4. ~(v <= Len(word))
    BY <1>1, <1>6
  <2>5. QED
    BY <1>2, <1>3, <1>4, <2>2, <2>3, <2>4 DEF v
<1>7. QED
  BY <1>1, <1>2, <1>5, <1>6

(* What a Python string makes of a word has the same options.                 *)
LEMMA RequotedType ==
  ASSUME NEW word \in Words
  PROVE  LET new == Requoted(word)
         IN /\ new \in Words /\ Len(new) = Len(word)
            /\ \A j \in 1..Len(word) :
                 /\ new[j] = IF word[j] = Escape THEN Escaped ELSE word[j]
                 /\ \A S \in {{"-"}, {"--"}, ValueOptions, Flags, Commands} :
                      new[j] \in S => word[j] \in S /\ new[j] = word[j]
                 /\ word[j] \in {"-", "--"} \cup ValueOptions \cup Flags => new[j] = word[j]
<1> DEFINE new == Requoted(word)
<1>1. /\ word \in Seq(STRING) /\ Len(word) \in Nat /\ Len(word) >= 1
      /\ DOMAIN word = 1..Len(word)
      /\ Len(word) > 1 => word[1] \in {"-", "--"}
      /\ Len(word) > 2 /\ word[1] = "--" => word[2] \in ValueOptions
  BY WordType
<1>2. new = [j \in 1..Len(word) |-> IF word[j] = Escape THEN Escaped ELSE word[j]]
  BY <1>1 DEF Requoted
<1>3. /\ Escape \in STRING /\ Escaped \in STRING
      /\ {Escape, Escaped} \cap ({"-", "--"} \cup ValueOptions \cup Flags) = {}
      /\ Commands \subseteq Flags
  BY CommandLineAssumption DEF Commands, Flags
<1> HIDE DEF new
<1>4. new \in Seq(STRING) /\ Len(new) = Len(word)
  <2>1. \A j \in 1..Len(word) : (IF word[j] = Escape THEN Escaped ELSE word[j]) \in STRING
    BY <1>1, <1>3
  <2>2. new \in [1..Len(word) -> STRING]
    BY <1>2, <2>1
  <2>3. QED
    BY <1>1, <2>2
<1>5. \A j \in 1..Len(word) : new[j] = IF word[j] = Escape THEN Escaped ELSE word[j]
  BY <1>2
<1>6. ASSUME NEW j \in 1..Len(word), NEW S \in {{"-"}, {"--"}, ValueOptions, Flags, Commands}, new[j] \in S
      PROVE  word[j] \in S /\ new[j] = word[j]
  BY <1>3, <1>5, <1>6
<1>7. ASSUME NEW j \in 1..Len(word), word[j] \in {"-", "--"} \cup ValueOptions \cup Flags
      PROVE  new[j] = word[j]
  BY <1>3, <1>5, <1>7
<1>8. new \in Words
  <2>1. new # <<>>
    BY <1>1, <1>4
  <2>2. Len(word) > 1 => new[1] = word[1] /\ new[1] \in {"-", "--"}
    BY <1>1, <1>7
  <2>3. Len(word) > 2 /\ new[1] = "--" => new[2] \in ValueOptions
    <3>1. SUFFICES ASSUME Len(word) > 2, new[1] = "--" PROVE new[2] \in ValueOptions
      OBVIOUS
    <3>2. word[2] \in ValueOptions /\ 2 \in 1..Len(word)
      BY <1>1, <2>2, <3>1
    <3>3. new[2] = word[2]
      BY <1>7, <3>2
    <3>4. QED
      BY <3>2, <3>3
  <2>4. QED
    BY <1>4, <2>1, <2>2, <2>3 DEF Words, WordOK
<1>9. QED
  BY <1>4, <1>5, <1>6, <1>7, <1>8 DEF new

LEMMA RequotedOptions ==
  ASSUME NEW word \in Words
  PROVE  LET new == Requoted(word)
         IN /\ ValueAt(new) = ValueAt(word) /\ IsOption(new) = IsOption(word)
            /\ ValueAt(word) <= Len(word) => new[ValueAt(word)] = word[ValueAt(word)]
            /\ FlagsOf(word) \subseteq Flags => FlagsOf(new) = FlagsOf(word)
            /\ \A c \in Commands : Applies(new, c) <=> Applies(word, c)
<1> DEFINE new == Requoted(word)
           v == ValueAt(word)
<1>1. /\ new \in Words /\ Len(new) = Len(word)
      /\ \A j \in 1..Len(word) :
           /\ \A S \in {{"-"}, {"--"}, ValueOptions, Flags, Commands} :
                new[j] \in S => word[j] \in S /\ new[j] = word[j]
           /\ word[j] \in {"-", "--"} \cup ValueOptions \cup Flags => new[j] = word[j]
  BY RequotedType
<1>2. IsValueAt(word, v) /\ Len(word) \in Nat /\ Len(word) >= 1
  BY ValueAtIs, WordType
<1> HIDE DEF new, v
<1>3. v \in 2..Len(word)+1
  BY <1>2 DEF IsValueAt
<1>4. IsValueAt(new, v)
  <2>1. v <= Len(new) => new[v] \in ValueOptions
    BY <1>1, <1>2, <1>3 DEF IsValueAt
  <2>2. \A i \in 2..v-1 : new[i] \notin ValueOptions
    <3>1. SUFFICES ASSUME NEW i \in 2..v-1, new[i] \in ValueOptions PROVE FALSE
      OBVIOUS
    <3>2. i \in 1..Len(word) /\ word[i] \in ValueOptions
      BY <1>1, <1>2, <1>3, <3>1
    <3>3. QED
      BY <1>2, <3>2 DEF IsValueAt
  <2>3. QED
    BY <1>1, <1>3, <2>1, <2>2 DEF IsValueAt
<1>5. ValueAt(new) = v
  BY <1>1, <1>4, ValueAtOnly
<1>6. IsOption(new) = IsOption(word)
  BY <1>1 DEF IsOption
<1>7. v <= Len(word) => new[v] = word[v]
  BY <1>1, <1>2, <1>3 DEF IsValueAt
<1>8. ASSUME FlagsOf(word) \subseteq Flags
      PROVE  FlagsOf(new) = FlagsOf(word)
  <2>1. FlagsOf(new) = {new[j] : j \in 2..v-1} /\ FlagsOf(word) = {word[j] : j \in 2..v-1}
    BY <1>5 DEF FlagsOf, v
  <2>2. \A j \in 2..v-1 : new[j] = word[j]
    <3>1. SUFFICES ASSUME NEW j \in 2..v-1 PROVE new[j] = word[j]
      OBVIOUS
    <3>2. j \in 1..Len(word) /\ word[j] \in Flags
      BY <1>2, <1>3, <1>8, <2>1
    <3>3. QED
      BY <1>1, <3>2
  <2>3. QED
    BY <2>1, <2>2
<1>9. ASSUME NEW c \in Commands
      PROVE  Applies(new, c) <=> Applies(word, c)
  <2>1. \A j \in 1..Len(word) : new[j] = c <=> word[j] = c
    <3>1. SUFFICES ASSUME NEW j \in 1..Len(word) PROVE new[j] = c <=> word[j] = c
      OBVIOUS
    <3>2. c \in Flags
      BY DEF Commands, Flags
    <3>3. new[j] = c => word[j] = c
      BY <1>1
    <3>4. word[j] = c => new[j] = c
      BY <1>1, <3>2
    <3>5. QED
      BY <3>3, <3>4
  <2>2. new[1] = "-" <=> word[1] = "-"
    BY <1>1, <1>2
  <2>3. new[1] = "--" <=> word[1] = "--"
    BY <1>1, <1>2
  <2>4. SingleDash(new) <=> SingleDash(word)
    BY <1>1, <2>2 DEF SingleDash
  <2>5. Has(new, c) <=> Has(word, c)
    BY <1>1, <1>2, <2>1 DEF Has
  <2>6. \A w \in Words : w = <<"--", c>> <=> Len(w) = 2 /\ w[1] = "--" /\ w[2] = c
    <3>1. SUFFICES ASSUME NEW w \in Words
                   PROVE  w = <<"--", c>> <=> Len(w) = 2 /\ w[1] = "--" /\ w[2] = c
      OBVIOUS
    <3>2. w \in Seq(STRING)
      BY WordType
    <3>3. QED
      BY <3>2
  <2>7. new = <<"--", c>> <=> word = <<"--", c>>
    <3>1. Len(word) = 2 => (new[2] = c <=> word[2] = c)
      BY <2>1
    <3>2. QED
      BY <1>1, <2>3, <2>6, <3>1
  <2>8. QED
    BY <2>4, <2>5, <2>7 DEF Applies
<1>10. QED
  BY <1>5, <1>6, <1>7, <1>8, <1>9 DEF new, v
------------------------------------------------------------------------------
(* The split at the command *)

(* A word has no character of a command in a value.                           *)
Clean(word) ==
  ~(SingleDash(word) /\ \E j \in ValueAt(word) + 1 .. Len(word) : word[j] \in Commands)

(* Then _split_command finds what the help means.                             *)
LEMMA HitsAreOptions ==
  ASSUME NEW word \in Words, Clean(word), NEW c \in Commands
  PROVE  Applies(word, c) <=> c \in OptionsOf(word)
<1> DEFINE v == ValueAt(word)
<1>1. /\ IsValueAt(word, v) /\ DOMAIN word = 1..Len(word) /\ Len(word) \in Nat /\ Len(word) >= 1
      /\ word \in Seq(STRING)
      /\ Len(word) > 1 => word[1] \in {"-", "--"}
      /\ Len(word) > 2 /\ word[1] = "--" => word[2] \in ValueOptions
  BY ValueAtIs, WordType
<1>2. OptionsOf(word) = IF Len(word) > 1 THEN {word[j] : j \in DOMAIN word \cap 2..v} ELSE {}
  BY DEF OptionsOf, IsOption
<1>3. ~(SingleDash(word) /\ \E j \in v + 1 .. Len(word) : word[j] \in Commands)
  BY DEF Clean
<1> HIDE DEF v
<1>4. v \in 2..Len(word)+1 /\ \A i \in 2..v-1 : word[i] \notin ValueOptions
  BY <1>1 DEF IsValueAt
<1>5. c \notin ValueOptions
  BY DEF Commands, ValueOptions
<1>6. ASSUME Applies(word, c)
      PROVE  c \in OptionsOf(word)
  <2>1. CASE word = <<"--", c>>
    <3>1. Len(word) = 2 /\ word[2] = c /\ 2 \in DOMAIN word \cap 2..v
      BY <1>1, <1>4, <2>1
    <3>2. QED
      BY <1>2, <3>1
  <2>2. CASE SingleDash(word) /\ Has(word, c)
    <3>1. PICK j \in 2..Len(word) : word[j] = c
      BY <2>2 DEF Has
    <3>2. j <= v
      BY <1>1, <1>3, <1>4, <2>2, <3>1
    <3>3. j \in DOMAIN word \cap 2..v /\ Len(word) > 1
      BY <1>1, <1>4, <3>1, <3>2
    <3>4. QED
      BY <1>2, <3>1, <3>3
  <2>3. QED
    BY <1>6, <2>1, <2>2 DEF Applies
<1>7. ASSUME c \in OptionsOf(word)
      PROVE  Applies(word, c)
  <2>1. PICK j \in DOMAIN word \cap 2..v : word[j] = c /\ Len(word) > 1
    BY <1>2, <1>7
  <2>2. j \in 2..Len(word) /\ j <= v
    BY <1>1, <1>4, <2>1
  <2>3. CASE word[1] = "-"
    BY <2>1, <2>2, <2>3 DEF Applies, SingleDash, Has
  <2>4. CASE word[1] = "--" /\ Len(word) = 2
    <3>1. word = <<"--", c>>
      BY <1>1, <2>1, <2>2, <2>4
    <3>2. QED
      BY <3>1 DEF Applies
  <2>5. CASE word[1] = "--" /\ Len(word) > 2
    <3>1. v = 2
      BY <1>1, <1>4, <2>5
    <3>2. j = 2 /\ word[2] \in ValueOptions
      BY <1>1, <2>2, <2>5, <3>1
    <3>3. QED
      BY <1>5, <2>1, <3>2
  <2>6. QED
    BY <1>1, <2>1, <2>3, <2>4, <2>5
<1>8. QED
  BY <1>6, <1>7

(* What is left of the word with the command.                                 *)
RestWord(word) == SubSeq(word, 1, Len(word) - 1)

LEMMA HitWord ==
  ASSUME NEW word \in Words, Clean(word), \E c \in Commands : Applies(word, c),
         ~Misplaced(word, CommandOf(word))
  PROVE  LET c == CommandOf(word)
             w == RestWord(word)
         IN /\ c \in Commands /\ c \in OptionsOf(word)
            /\ c = "r" => "g" \notin OptionsOf(word)
            /\ \/ Len(word) = 2 /\ OptionsOf(word) = {c}
               \/ /\ Len(word) > 2 /\ w \in Words /\ Len(w) = Len(word) - 1 /\ IsOption(w)
                  /\ ValueAt(w) = Len(w) + 1 /\ Clean(w)
                  /\ OptionsOf(word) = OptionsOf(w) \cup {c} /\ c \notin OptionsOf(w)
<1> DEFINE c == CommandOf(word)
           n == Len(word)
           v == ValueAt(word)
           w == RestWord(word)
<1>1. c \in Commands /\ Applies(word, c) /\ (c = "r" => ~Applies(word, "g"))
  BY DEF CommandOf, Commands
<1>2. c \in OptionsOf(word) /\ (c = "r" => "g" \notin OptionsOf(word))
  BY <1>1, HitsAreOptions DEF Commands
<1>3. /\ IsValueAt(word, v) /\ DOMAIN word = 1..n /\ n \in Nat /\ n >= 1
      /\ word \in Seq(STRING)
      /\ n > 1 => word[1] \in {"-", "--"}
      /\ n > 2 /\ word[1] = "--" => word[2] \in ValueOptions
  BY ValueAtIs, WordType
<1>4. OptionsOf(word) = IF n > 1 THEN {word[j] : j \in DOMAIN word \cap 2..v} ELSE {}
  BY DEF OptionsOf, IsOption
<1>5. ~(SingleDash(word) /\ \E j \in v + 1 .. n : word[j] \in Commands)
  BY DEF Clean
<1>6. ~(n > 2 /\ \E j \in 2..n - 1 : word[j] = c)
  BY DEF Misplaced
<1>7. w = SubSeq(word, 1, n - 1)
  BY DEF RestWord
<1> HIDE DEF c, v, w, n
<1>8. v \in 2..n+1 /\ (v <= n => word[v] \in ValueOptions) /\ \A i \in 2..v-1 : word[i] \notin ValueOptions
  BY <1>3 DEF IsValueAt, n
<1>9. n > 1
  BY <1>2, <1>4
<1>10. CASE n = 2
  <2>1. DOMAIN word \cap 2..v = {2}
    BY <1>3, <1>8, <1>10
  <2>2. OptionsOf(word) = {word[2]}
    BY <1>4, <1>10, <2>1
  <2>3. OptionsOf(word) = {c}
    BY <1>2, <2>2
  <2>4. QED
    BY <1>1, <1>2, <1>10, <2>3 DEF c, w, n
<1>11. CASE n > 2
  <2>1. word # <<"--", c>>
    <3>1. Len(<<"--", c>>) = 2
      OBVIOUS
    <3>2. word = <<"--", c>> => Len(word) = 2
      BY <3>1, Zenon
    <3>3. QED
      BY <1>3, <1>11, <3>2 DEF n
  <2>2. SingleDash(word) /\ Has(word, c)
    BY <1>1, <2>1 DEF Applies
  <2>3. PICK j \in 2..n : word[j] = c
    BY <2>2 DEF Has, n
  <2>4. word[n] = c
    BY <1>3, <1>6, <1>11, <2>3
  <2>5. v = n + 1
    <3>1. c \notin ValueOptions
      BY <1>1 DEF Commands, ValueOptions
    <3>2. v # n
      BY <1>3, <1>8, <2>4, <3>1
    <3>3. ~(v < n)
      <4>1. SUFFICES ASSUME v < n PROVE FALSE
        OBVIOUS
      <4>2. n \in v+1..n /\ word[n] \in Commands
        BY <1>1, <1>3, <1>8, <2>4, <4>1
      <4>3. QED
        BY <1>5, <2>2, <4>2
    <3>4. QED
      BY <1>3, <1>8, <3>2, <3>3
  <2>6. /\ w \in Seq(STRING) /\ Len(w) = n - 1 /\ \A i \in 1..n-1 : w[i] = word[i]
    BY <1>3, <1>7, <1>11
  <2>7. word[1] = "-"
    BY <2>2 DEF SingleDash
  <2>8. w \in Words
    <3>1. w # <<>> /\ w[1] = "-"
      BY <1>3, <1>11, <2>6, <2>7
    <3>2. QED
      BY <2>6, <3>1 DEF Words, WordOK
  <2>9. IsValueAt(w, n)
    <3>1. n \in 2..Len(w)+1 /\ ~(n <= Len(w))
      BY <1>3, <1>11, <2>6
    <3>2. \A i \in 2..n-1 : w[i] \notin ValueOptions
      BY <1>3, <1>8, <2>5, <2>6
    <3>3. QED
      BY <3>1, <3>2 DEF IsValueAt
  <2>10. ValueAt(w) = n
    BY <2>8, <2>9, ValueAtOnly
  <2>11. OptionsOf(w) = {word[i] : i \in 2..n-1}
    <3>1. DOMAIN w = 1..n-1
      BY <2>6, <1>3
    <3>2. OptionsOf(w) = {w[i] : i \in DOMAIN w \cap 2..n}
      BY <1>3, <1>11, <2>6, <2>10 DEF OptionsOf, IsOption
    <3>3. DOMAIN w \cap 2..n = 2..n-1
      BY <1>3, <3>1
    <3>4. \A i \in 2..n-1 : w[i] = word[i]
      BY <1>3, <2>6
    <3>5. QED
      BY <3>2, <3>3, <3>4
  <2>12. OptionsOf(word) = OptionsOf(w) \cup {c}
    <3>1. DOMAIN word \cap 2..v = 2..n-1 \cup {n}
      BY <1>3, <1>11, <2>5
    <3>2. OptionsOf(word) = {word[i] : i \in 2..n-1 \cup {n}}
      BY <1>4, <1>11, <3>1
    <3>3. QED
      BY <2>4, <2>11, <3>2
  <2>13. c \notin OptionsOf(w)
    BY <1>6, <1>11, <2>11
  <2>14. Clean(w)
    BY <1>3, <2>6, <2>10 DEF Clean
  <2>15. IsOption(w) /\ ValueAt(w) = Len(w) + 1
    BY <1>3, <1>11, <2>6, <2>10 DEF IsOption
  <2>16. QED
    BY <1>1, <1>2, <1>11, <2>6, <2>8, <2>12, <2>13, <2>14, <2>15 DEF c, w, n
<1>12. QED
  BY <1>3, <1>9, <1>10, <1>11

(* Lines of words *)
Lines == {line \in Seq(Words) : Len(line) >= 1 /\ Len(line[1]) = 1}

LEMMA LineType ==
  ASSUME NEW line \in CommandLines
  PROVE  line \in Lines
<1>1. /\ line \in Seq(Seq(STRING)) /\ line # <<>> /\ Len(line[1]) = 1
      /\ \A k \in 1..Len(line) : WordOK(line[k])
  BY CommandLineAssumption
<1>2. Len(line) \in Nat /\ Len(line) >= 1
  BY <1>1
<1>3. \A k \in 1..Len(line) : line[k] \in Words
  BY <1>1 DEF Words
<1>4. line \in [1..Len(line) -> Words]
  BY <1>1, <1>3
<1>5. line \in Seq(Words)
  BY <1>2, <1>4
<1>6. QED
  BY <1>1, <1>2, <1>5 DEF Lines

HitsOf(line) == {k \in DOMAIN line : \E c \in Commands : Applies(line[k], c)}

FirstOf(line) == CHOOSE k \in HitsOf(line) : \A j \in HitsOf(line) : k <= j

LEMMA FirstIs ==
  ASSUME NEW line \in Lines, HitsOf(line) # {}
  PROVE  /\ FirstOf(line) \in HitsOf(line) /\ \A j \in HitsOf(line) : FirstOf(line) <= j
         /\ FirstOf(line) \in 2..Len(line)
<1>1. line \in Seq(Words) /\ Len(line) \in Nat /\ Len(line) >= 1 /\ Len(line[1]) = 1
  BY DEF Lines
<1>2. HitsOf(line) \subseteq 1..Len(line)
  BY <1>1 DEF HitsOf
<1>3. \E k \in HitsOf(line) : \A j \in HitsOf(line) : k <= j
  <2>1. HitsOf(line) \subseteq Nat
    BY <1>2
  <2>2. QED
    BY <2>1, Least
<1>4. FirstOf(line) \in HitsOf(line) /\ \A j \in HitsOf(line) : FirstOf(line) <= j
  BY <1>3 DEF FirstOf
<1>5. 1 \notin HitsOf(line)
  <2>1. ASSUME NEW c \in Commands PROVE ~Applies(line[1], c)
    <3>1. Len(<<"--", c>>) = 2
      OBVIOUS
    <3>2. line[1] = <<"--", c>> => Len(line[1]) = 2
      BY <3>1, Zenon
    <3>3. line[1] # <<"--", c>> /\ ~SingleDash(line[1])
      BY <1>1, <3>2 DEF SingleDash
    <3>4. QED
      BY <3>3, Zenon DEF Applies
  <2>2. QED
    BY <2>1 DEF HitsOf
<1>6. QED
  BY <1>1, <1>2, <1>4, <1>5

(* What _split_command gives for a line.                                      *)
Placed(line) ==
  HitsOf(line) # {} => ~Misplaced(line[FirstOf(line)], CommandOf(line[FirstOf(line)]))

OwnOf(line) ==
  IF HitsOf(line) = {} THEN line
  ELSE SubSeq(line, 1, FirstOf(line) - 1) \o Rest(line[FirstOf(line)])

CommandIn(line) == IF HitsOf(line) = {} THEN "" ELSE CommandOf(line[FirstOf(line)])

PassedOf(line) ==
  IF HitsOf(line) = {} THEN <<>> ELSE SubSeq(line, FirstOf(line) + 1, Len(line))

CleanLine(line) == \A k \in 1..Len(line) : Clean(line[k])

(* The words in front of the command stay, and what is left of its word       *)
(* follows them.                                                              *)
LEMMA OwnIs ==
  ASSUME NEW line \in Lines, CleanLine(line), Placed(line), HitsOf(line) # {}
  PROVE  LET own1 == OwnOf(line)
             f == FirstOf(line)
         IN /\ own1 \in Lines /\ CleanLine(own1)
            /\ \A k \in 1..f-1 : own1[k] = line[k]
            /\ \/ Len(own1) = f - 1 /\ Len(line[f]) = 2
               \/ Len(own1) = f /\ Len(line[f]) > 2 /\ own1[f] = RestWord(line[f])
<1> DEFINE f == FirstOf(line)
           w == RestWord(line[f])
           front == SubSeq(line, 1, f - 1)
           own1 == OwnOf(line)
<1>1. /\ line \in Seq(Words) /\ Len(line) \in Nat /\ Len(line[1]) = 1
      /\ DOMAIN line = 1..Len(line)
  BY DEF Lines
<1>2. f \in 2..Len(line) /\ f \in HitsOf(line)
  BY FirstIs
<1>3. own1 = front \o Rest(line[f])
  BY DEF OwnOf
<1>4. Rest(line[f]) = IF Len(line[f]) > 2 THEN <<w>> ELSE <<>>
  BY DEF Rest, RestWord
<1>5. \/ Len(line[f]) = 2
      \/ Len(line[f]) > 2 /\ w \in Words /\ Clean(w)
  <2>1. line[f] \in Words /\ Clean(line[f]) /\ \E c \in Commands : Applies(line[f], c)
    BY <1>1, <1>2 DEF HitsOf, CleanLine
  <2>2. ~Misplaced(line[f], CommandOf(line[f]))
    BY DEF Placed
  <2> HIDE DEF f
  <2>3. QED
    BY <2>1, <2>2, HitWord DEF w
<1> HIDE DEF f, w, own1, front
<1>6. front \in Seq(Words) /\ Len(front) = f - 1 /\ \A k \in 1..f-1 : front[k] = line[k]
  BY <1>1, <1>2 DEF front
<1>7. CASE Len(line[f]) = 2
  <2>1. own1 = front
    BY <1>3, <1>4, <1>6, <1>7
  <2>2. own1 \in Lines /\ CleanLine(own1)
    BY <1>1, <1>2, <1>6, <2>1 DEF Lines, CleanLine
  <2>3. QED
    BY <1>6, <1>7, <2>1, <2>2 DEF own1, f
<1>8. CASE Len(line[f]) > 2 /\ w \in Words /\ Clean(w)
  <2>1. own1 = front \o <<w>>
    BY <1>3, <1>4, <1>8
  <2>2. /\ own1 \in Seq(Words) /\ Len(own1) = f /\ own1[f] = w
        /\ \A k \in 1..f-1 : own1[k] = line[k]
    BY <1>2, <1>6, <1>8, <2>1
  <2>3. own1 \in Lines
    BY <1>1, <1>2, <2>2 DEF Lines
  <2>4. CleanLine(own1)
    <3>1. SUFFICES ASSUME NEW k \in 1..f PROVE Clean(own1[k])
      BY <2>2 DEF CleanLine
    <3>2. k \in 1..f-1 \/ k = f
      BY <1>2
    <3>3. QED
      BY <1>1, <1>2, <1>8, <2>2, <3>2 DEF CleanLine
  <2>5. QED
    BY <1>8, <2>2, <2>3, <2>4 DEF own1, f, w
<1>9. QED
  BY <1>5, <1>7, <1>8
------------------------------------------------------------------------------
(* What is asked for *)

LineOptions(line) == UNION {OptionsOf(line[k]) : k \in 1..Len(line)}

(* The options up to the command are those of the words in front, of what is  *)
(* left of its word, and the command.                                         *)
LEMMA OptionsUpTo ==
  ASSUME NEW line \in Lines, CleanLine(line), Placed(line), HitsOf(line) # {}
  PROVE  LET c == CommandIn(line)
             rest == LineOptions(OwnOf(line))
         IN /\ UNION {OptionsOf(line[k]) : k \in 1..FirstOf(line)} = rest \cup {c}
            /\ c \in Commands /\ c \notin rest /\ "g" \notin rest
<1> DEFINE f == FirstOf(line)
           c == CommandIn(line)
           own1 == OwnOf(line)
           w == RestWord(line[f])
<1>1. /\ line \in Seq(Words) /\ Len(line) \in Nat /\ DOMAIN line = 1..Len(line)
      /\ f \in 2..Len(line) /\ f \in HitsOf(line)
      /\ \A j \in HitsOf(line) : f <= j
  BY FirstIs DEF Lines
<1>2. c = CommandOf(line[f])
  BY DEF CommandIn
<1>3. /\ c \in Commands /\ c \in OptionsOf(line[f])
      /\ c = "r" => "g" \notin OptionsOf(line[f])
      /\ \/ Len(line[f]) = 2 /\ OptionsOf(line[f]) = {c}
         \/ /\ Len(line[f]) > 2
            /\ OptionsOf(line[f]) = OptionsOf(w) \cup {c} /\ c \notin OptionsOf(w)
  <2>1. line[f] \in Words /\ Clean(line[f]) /\ \E d \in Commands : Applies(line[f], d)
    BY <1>1 DEF HitsOf, CleanLine
  <2>2. ~Misplaced(line[f], CommandOf(line[f]))
    BY DEF Placed
  <2> HIDE DEF f
  <2>3. QED
    BY <1>2, <2>1, <2>2, HitWord DEF w
<1>4. /\ own1 \in Lines
      /\ \A k \in 1..f-1 : own1[k] = line[k]
      /\ \/ Len(own1) = f - 1 /\ Len(line[f]) = 2
         \/ Len(own1) = f /\ Len(line[f]) > 2 /\ own1[f] = w
  BY OwnIs DEF w
<1> HIDE DEF f, c, own1, w
<1>5. ASSUME NEW k \in 1..f-1
      PROVE  OptionsOf(line[k]) \cap Commands = {}
  <2>1. k \in DOMAIN line /\ k \notin HitsOf(line) /\ line[k] \in Words /\ Clean(line[k])
    BY <1>1 DEF CleanLine
  <2>2. \A d \in Commands : ~Applies(line[k], d)
    BY <2>1 DEF HitsOf
  <2>3. QED
    BY <2>1, <2>2, HitsAreOptions
<1> DEFINE front == UNION {OptionsOf(line[k]) : k \in 1..f-1}
<1>6. front \cap Commands = {}
  BY <1>5
<1>7. 1..f = 1..f-1 \cup {f}
  BY <1>1
<1>8. UNION {OptionsOf(line[k]) : k \in 1..f} = front \cup OptionsOf(line[f])
  BY <1>7
<1>9. front = UNION {OptionsOf(own1[k]) : k \in 1..f-1}
  BY <1>4
<1> HIDE DEF front
<1>10. CASE Len(own1) = f - 1 /\ Len(line[f]) = 2
  <2>1. LineOptions(own1) = front
    BY <1>9, <1>10 DEF LineOptions
  <2>2. OptionsOf(line[f]) = {c}
    BY <1>3, <1>10
  <2>3. QED
    BY <1>3, <1>6, <1>8, <2>1, <2>2 DEF c, f, own1, Commands
<1>11. CASE Len(own1) = f /\ Len(line[f]) > 2 /\ own1[f] = w
  <2>1. LineOptions(own1) = front \cup OptionsOf(w)
    <3>1. LineOptions(own1) = UNION {OptionsOf(own1[k]) : k \in 1..f-1 \cup {f}}
      BY <1>7, <1>11 DEF LineOptions
    <3>2. QED
      BY <1>9, <1>11, <3>1
  <2>2. OptionsOf(line[f]) = OptionsOf(w) \cup {c} /\ c \notin OptionsOf(w)
    <3>1. line[f] \in Words
      BY <1>1
    <3>2. Len(line[f]) \in Nat /\ Len(line[f]) # 2
      <4>1. Len(line[f]) \in Nat
        BY <3>1, WordType
      <4>2. Len(line[f]) > 2
        BY <1>11
      <4> DEFINE n == Len(line[f])
      <4> HIDE DEF n
      <4>3. n \in Nat /\ n > 2 => n # 2
        OBVIOUS
      <4>4. QED
        BY <4>1, <4>2, <4>3 DEF n
    <3>3. QED
      BY <1>3, <3>2
  <2>3. c = "g" \/ c = "r"
    BY <1>3 DEF Commands
  <2>4. "g" \notin LineOptions(own1) /\ c \notin LineOptions(own1)
    BY <1>3, <1>6, <2>1, <2>2, <2>3 DEF Commands
  <2>5. QED
    BY <1>3, <1>8, <2>1, <2>2, <2>4 DEF c, f, own1
<1>12. QED
  BY <1>4, <1>10, <1>11

(* Without a command none is an option.                                       *)
LEMMA NoCommand ==
  ASSUME NEW line \in Lines, CleanLine(line), HitsOf(line) = {}
  PROVE  LineOptions(line) \cap Commands = {}
<1>1. ASSUME NEW k \in 1..Len(line)
      PROVE  OptionsOf(line[k]) \cap Commands = {}
  <2>1. line[k] \in Words /\ Clean(line[k]) /\ k \in DOMAIN line
    BY DEF Lines, CleanLine
  <2>2. \A c \in Commands : ~Applies(line[k], c)
    BY <2>1 DEF HitsOf
  <2>3. QED
    BY <2>1, <2>2, HitsAreOptions
<1>2. QED
  BY <1>1 DEF LineOptions

AllOptions(line) ==
  LineOptions(OwnOf(line)) \cup (IF HitsOf(line) = {} THEN {} ELSE {CommandIn(line)})

AskedFor(options) ==
  {m \in StartedModes :
     CASE m = "run"            -> "r" \in options
       [] m = "gdb-plugin"     -> "g" \in options
       [] m = "load-from-file" -> "l" \in options
       [] m = "pipe"           -> "p" \in options}

LEMMA AskedAre ==
  ASSUME NEW options
  PROVE  /\ "run" \in AskedFor(options) <=> "r" \in options
         /\ "gdb-plugin" \in AskedFor(options) <=> "g" \in options
         /\ "load-from-file" \in AskedFor(options) <=> "l" \in options
         /\ "pipe" \in AskedFor(options) <=> "p" \in options
         /\ AskedFor(options) \subseteq {"run", "gdb-plugin", "load-from-file", "pipe"}
<1>1. "run" \in AskedFor(options) <=> "r" \in options
  BY DEF AskedFor, StartedModes
<1>2. "gdb-plugin" \in AskedFor(options) <=> "g" \in options
  BY DEF AskedFor, StartedModes
<1>3. "load-from-file" \in AskedFor(options) <=> "l" \in options
  BY DEF AskedFor, StartedModes
<1>4. "pipe" \in AskedFor(options) <=> "p" \in options
  BY DEF AskedFor, StartedModes
<1>5. AskedFor(options) \subseteq {"run", "gdb-plugin", "load-from-file", "pipe"}
  BY DEF AskedFor, StartedModes
<1>6. QED
  BY <1>1, <1>2, <1>3, <1>4, <1>5

(* StartsAsAsked in terms of what the split gives.                            *)
LEMMA AsAsked ==
  ASSUME typed \in Lines, Placed(typed),
         CleanLine(typed) =>
           /\ outcome = "help" =>
                "m" \in AllOptions(typed) \/ Cardinality(AskedFor(AllOptions(typed))) # 1
           /\ outcome \in StartedModes =>
                AskedFor(AllOptions(typed)) = {outcome} /\ passed = PassedOf(typed)
  PROVE  StartsAsAsked
<1> DEFINE commands == {k \in DOMAIN typed : OptionsOf(typed[k]) \cap Commands # {}}
           last == CHOOSE k \in commands \cup {Len(typed)} :
                     \A j \in commands \cup {Len(typed)} : k <= j
           options == UNION {OptionsOf(typed[k]) : k \in 1..last}
<1>1. SUFFICES ASSUME outcome \in StartedModes \cup {"help"}, ~CommandInValue
               PROVE  IF outcome = "help"
                      THEN "m" \in options \/ Cardinality(AskedFor(options)) # 1
                      ELSE /\ AskedFor(options) = {outcome}
                           /\ passed = SubSeq(typed, last + 1, Len(typed))
  BY DEF StartsAsAsked, AskedFor
<1>2. typed \in Seq(Words) /\ Len(typed) \in Nat /\ Len(typed) >= 1 /\ DOMAIN typed = 1..Len(typed)
  BY DEF Lines
<1>3. CleanLine(typed)
  BY <1>1, <1>2 DEF CommandInValue, CleanLine, Clean
<1>4. commands = HitsOf(typed)
  <2>1. ASSUME NEW k \in DOMAIN typed
        PROVE  (OptionsOf(typed[k]) \cap Commands # {}) <=> \E c \in Commands : Applies(typed[k], c)
    <3>1. typed[k] \in Words /\ Clean(typed[k])
      BY <1>2, <1>3 DEF CleanLine
    <3>2. QED
      BY <3>1, HitsAreOptions
  <2>2. QED
    BY <2>1 DEF HitsOf
<1> HIDE DEF commands
<1>5. last = (IF HitsOf(typed) = {} THEN Len(typed) ELSE FirstOf(typed))
      /\ options = AllOptions(typed)
  <2>1. CASE HitsOf(typed) = {}
    <3>1. last = Len(typed)
      BY <1>2, <1>4, <2>1
    <3>2. options = LineOptions(typed)
      BY <3>1 DEF LineOptions
    <3>3. AllOptions(typed) = LineOptions(typed)
      BY <2>1 DEF AllOptions, OwnOf
    <3> HIDE DEF last, options
    <3>4. QED
      BY <2>1, <3>1, <3>2, <3>3
  <2>2. CASE HitsOf(typed) # {}
    <3> DEFINE f == FirstOf(typed)
    <3>1. f \in HitsOf(typed) /\ (\A j \in HitsOf(typed) : f <= j) /\ f \in 2..Len(typed)
      BY <2>2, FirstIs
    <3> HIDE DEF f
    <3>2. \A k \in commands \cup {Len(typed)} :
            (\A j \in commands \cup {Len(typed)} : k <= j) <=> k = f
      BY <1>2, <1>4, <3>1 DEF HitsOf
    <3>3. f \in commands
      BY <1>4, <3>1
    <3>4. last = f
      BY <3>2, <3>3
    <3>5. options = LineOptions(OwnOf(typed)) \cup {CommandIn(typed)}
      BY <1>3, <2>2, <3>4, OptionsUpTo DEF f
    <3>6. QED
      BY <2>2, <3>4, <3>5 DEF AllOptions, f
  <2>3. QED
    BY <2>1, <2>2
<1> HIDE DEF last, options
<1>6. CASE outcome = "help"
  BY <1>3, <1>5, <1>6
<1>7. CASE outcome # "help"
  <2>1. AskedFor(options) = {outcome} /\ passed = PassedOf(typed)
    BY <1>1, <1>3, <1>5, <1>7
  <2>2. PassedOf(typed) = SubSeq(typed, last + 1, Len(typed))
    <3>1. CASE HitsOf(typed) = {}
      <4>1. SubSeq(typed, Len(typed) + 1, Len(typed)) = <<>>
        BY <1>2
      <4>2. QED
        BY <1>5, <3>1, <4>1 DEF PassedOf
    <3>2. CASE HitsOf(typed) # {}
      BY <1>5, <3>2 DEF PassedOf
    <3>3. QED
      BY <3>1, <3>2
  <2>3. QED
    BY <1>7, <2>1, <2>2
<1>8. QED
  BY <1>6, <1>7

(* A set of modes is one mode, or there is none or another one in it.         *)
LEMMA OneMode ==
  ASSUME NEW S, S \subseteq {"gdb-runner", "run", "gdb-plugin", "load-from-file", "pipe"}
  PROVE  Cardinality(S) = 1 <=> \E m : S = {m}
<1>1. IsFiniteSet({"gdb-runner"} \cup {"run"} \cup {"gdb-plugin"} \cup {"load-from-file"} \cup {"pipe"})
  BY FS_Singleton, FS_Union
<1>2. IsFiniteSet(S)
  <2> DEFINE all == {"gdb-runner"} \cup {"run"} \cup {"gdb-plugin"} \cup {"load-from-file"} \cup {"pipe"}
  <2>1. S \in SUBSET all
    OBVIOUS
  <2> HIDE DEF all
  <2>2. QED
    BY <1>1, <2>1, FS_Subset DEF all
<1>3. QED
  BY <1>2, FS_Singleton
------------------------------------------------------------------------------
(* What argparse reads *)

TakesNext(word) == IsOption(word) /\ ValueAt(word) = Len(word)

(* The first n words can be read: options that are known, and values of the   *)
(* options in front of them.                                                  *)
Readable(line, n) ==
  \A k \in 2..n :
    /\ IsOption(line[k]) => FlagsOf(line[k]) \subseteq Flags
    /\ TakesNext(line[k]) => k + 1 <= n /\ ~IsOption(line[k + 1])
    /\ ~IsOption(line[k]) => k > 2 /\ TakesNext(line[k - 1])

(* The words that give an option a value, and the value.                      *)
Giving(line, n, o) ==
  {k \in 2..n : /\ IsOption(line[k]) /\ ValueAt(line[k]) <= Len(line[k])
                /\ line[k][ValueAt(line[k])] = o}

ValueGiven(line, k) ==
  IF TakesNext(line[k]) THEN line[k + 1]
  ELSE SubSeq(line[k], ValueAt(line[k]) + 1, Len(line[k]))

LastGiven(line, n, o, value) ==
  IF Giving(line, n, o) = {} THEN value = <<>>
  ELSE \E k \in Giving(line, n, o) :
         (\A j \in Giving(line, n, o) : j <= k) /\ value = ValueGiven(line, k)

HasRead(line, n, got) ==
  /\ n \in 1..Len(line) /\ Readable(line, n)
  /\ got = [flags |-> got.flags, value |-> [o \in ValueOptions |-> got.value[o]]]
  /\ got.flags = UNION {FlagsOf(line[k]) : k \in 2..n}
  /\ \A o \in ValueOptions : LastGiven(line, n, o, got.value[o])

LEMMA ReadStart ==
  ASSUME NEW line \in Lines
  PROVE  HasRead(line, 1, Nothing)
<1>1. Len(line) \in Nat /\ Len(line) >= 1 /\ 2..1 = {}
  BY DEF Lines
<1>2. \A o \in ValueOptions : Giving(line, 1, o) = {}
  BY <1>1 DEF Giving
<1>3. \A o \in ValueOptions : Nothing.value[o] = <<>>
  BY DEF Nothing
<1>4. Nothing = [flags |-> Nothing.flags, value |-> [o \in ValueOptions |-> Nothing.value[o]]]
  BY DEF Nothing
<1>5. Nothing.flags = UNION {FlagsOf(line[k]) : k \in 2..1}
  BY <1>1 DEF Nothing
<1>6. Readable(line, 1)
  BY <1>1 DEF Readable
<1>7. QED
  BY <1>1, <1>2, <1>3, <1>4, <1>5, <1>6 DEF HasRead, LastGiven

(* One more word: flags, an option with its value, or with the next word.     *)
LEMMA ReadFlagsStep ==
  ASSUME NEW line \in Lines, NEW n, NEW got, HasRead(line, n, got), n < Len(line),
         IsOption(line[n + 1]), FlagsOf(line[n + 1]) \subseteq Flags,
         ValueAt(line[n + 1]) > Len(line[n + 1])
  PROVE  HasRead(line, n + 1, [got EXCEPT !.flags = @ \cup FlagsOf(line[n + 1])])
<1> DEFINE word == line[n + 1]
           new == [got EXCEPT !.flags = @ \cup FlagsOf(word)]
<1>1. /\ line \in Seq(Words) /\ Len(line) \in Nat /\ n \in 1..Len(line) /\ n + 1 \in 1..Len(line)
      /\ Readable(line, n)
      /\ got = [flags |-> got.flags, value |-> [o \in ValueOptions |-> got.value[o]]]
      /\ got.flags = UNION {FlagsOf(line[k]) : k \in 2..n}
      /\ \A o \in ValueOptions : LastGiven(line, n, o, got.value[o])
  BY DEF HasRead, Lines
<1>2. word \in Words /\ Len(word) \in Nat /\ ValueAt(word) \in Nat
  <2>1. word \in Words
    BY <1>1
  <2>2. Len(word) \in Nat /\ ValueAt(word) \in 2..Len(word)+1
    BY <2>1, WordType, OptionsAre
  <2>3. QED
    BY <2>1, <2>2
<1>3. /\ new.flags = got.flags \cup FlagsOf(word) /\ new.value = got.value
      /\ new = [flags |-> new.flags, value |-> [o \in ValueOptions |-> new.value[o]]]
  <2>1. DOMAIN got = {"flags", "value"} /\ got.value = [o \in ValueOptions |-> got.value[o]]
    BY <1>1
  <2>2. /\ new.flags = got.flags \cup FlagsOf(word) /\ new.value = got.value
        /\ DOMAIN new = {"flags", "value"}
    BY <2>1
  <2>3. new = [i \in {"flags", "value"} |-> new[i]]
    BY <2>1
  <2> HIDE DEF new
  <2>4. new = [flags |-> new.flags, value |-> new.value]
    BY <2>3
  <2>5. QED
    BY <2>1, <2>2, <2>4
<1> DEFINE v == ValueAt(word)
           len == Len(word)
<1>4. v > len /\ IsOption(word) /\ FlagsOf(word) \subseteq Flags
  OBVIOUS
<1> HIDE DEF word, new, v, len
<1>5. 2..n+1 = 2..n \cup {n + 1} /\ n \in Nat
  BY <1>1
<1>6. Readable(line, n + 1)
  <2>1. ~TakesNext(word)
    BY <1>2, <1>4 DEF TakesNext, v, len
  <2>2. SUFFICES ASSUME NEW k \in 2..n+1
                 PROVE  /\ IsOption(line[k]) => FlagsOf(line[k]) \subseteq Flags
                        /\ TakesNext(line[k]) => k + 1 <= n + 1 /\ ~IsOption(line[k + 1])
                        /\ ~IsOption(line[k]) => k > 2 /\ TakesNext(line[k - 1])
    BY DEF Readable
  <2>3. CASE k = n + 1
    BY <1>4, <2>1, <2>3 DEF word
  <2>4. CASE k \in 2..n
    BY <1>1, <1>5, <2>4 DEF Readable
  <2>5. QED
    BY <1>5, <2>3, <2>4
<1>7. new.flags = UNION {FlagsOf(line[k]) : k \in 2..n+1}
  BY <1>1, <1>3, <1>5 DEF word
<1>8. \A o \in ValueOptions : Giving(line, n + 1, o) = Giving(line, n, o)
  <2>1. ~(v <= len)
    BY <1>2, <1>4 DEF v, len
  <2>2. QED
    BY <1>5, <2>1 DEF Giving, v, len, word
<1>9. \A o \in ValueOptions : LastGiven(line, n + 1, o, new.value[o])
  BY <1>1, <1>3, <1>8 DEF LastGiven
<1>10. QED
  BY <1>1, <1>3, <1>6, <1>7, <1>9 DEF HasRead, new, word

LEMMA ReadValueStep ==
  ASSUME NEW line \in Lines, NEW n, NEW got, HasRead(line, n, got), n < Len(line),
         IsOption(line[n + 1]), FlagsOf(line[n + 1]) \subseteq Flags,
         NEW m \in {n + 1, n + 2}, NEW value,
         IF m = n + 1
         THEN /\ ValueAt(line[n + 1]) < Len(line[n + 1])
              /\ value = SubSeq(line[n + 1], ValueAt(line[n + 1]) + 1, Len(line[n + 1]))
         ELSE /\ ValueAt(line[n + 1]) = Len(line[n + 1])
              /\ n + 2 <= Len(line) /\ ~IsOption(line[n + 2]) /\ value = line[n + 2]
  PROVE  HasRead(line, m, [flags |-> got.flags \cup FlagsOf(line[n + 1]),
                           value |-> [got.value EXCEPT ![line[n + 1][ValueAt(line[n + 1])]] = value]])
<1> DEFINE word == line[n + 1]
           v == ValueAt(word)
           len == Len(word)
           opt == word[v]
           new == [flags |-> got.flags \cup FlagsOf(word), value |-> [got.value EXCEPT ![opt] = value]]
<1>1. /\ line \in Seq(Words) /\ Len(line) \in Nat /\ n \in 1..Len(line) /\ n + 1 \in 1..Len(line)
      /\ Readable(line, n)
      /\ got = [flags |-> got.flags, value |-> [o \in ValueOptions |-> got.value[o]]]
      /\ got.flags = UNION {FlagsOf(line[k]) : k \in 2..n}
      /\ \A o \in ValueOptions : LastGiven(line, n, o, got.value[o])
  BY DEF HasRead, Lines
<1>2. word \in Words /\ len \in Nat /\ v \in 2..len+1 /\ IsValueAt(word, v)
  <2>1. word \in Words
    BY <1>1
  <2>2. QED
    BY <2>1, WordType, OptionsAre, ValueAtIs
<1>3. /\ IsOption(word) /\ FlagsOf(word) \subseteq Flags
      /\ IF m = n + 1
         THEN v < len /\ value = SubSeq(word, v + 1, len)
         ELSE v = len /\ n + 2 <= Len(line) /\ ~IsOption(line[n + 2]) /\ value = line[n + 2]
  OBVIOUS
<1>4. v <= len /\ opt \in ValueOptions
  BY <1>2, <1>3 DEF IsValueAt
<1>5. got.value = [o \in ValueOptions |-> got.value[o]]
  BY <1>1
<1>6. /\ new.flags = got.flags \cup FlagsOf(word)
      /\ \A o \in ValueOptions : new.value[o] = IF o = opt THEN value ELSE got.value[o]
      /\ new = [flags |-> new.flags, value |-> [o \in ValueOptions |-> new.value[o]]]
  BY <1>4, <1>5
<1> HIDE DEF opt, new
<1>7. ValueGiven(line, n + 1) = value
  <2>1. n + 1 # n + 2
    BY <1>1
  <2>2. CASE m = n + 1
    <3>1. ~TakesNext(word)
      BY <1>2, <1>3, <2>2 DEF TakesNext
    <3>2. QED
      BY <1>3, <2>2, <3>1 DEF ValueGiven
  <2>3. CASE m = n + 2
    <3>1. TakesNext(word) /\ n + 1 + 1 = n + 2
      BY <1>1, <1>3, <2>1, <2>3 DEF TakesNext
    <3>2. QED
      BY <1>1, <1>3, <2>1, <2>3, <3>1 DEF ValueGiven
  <2>4. QED
    BY <2>2, <2>3
<1>8. m \in 1..Len(line)
  BY <1>1, <1>3
<1>9. m = n + 2 => ~IsOption(line[n + 2]) /\ TakesNext(word)
  BY <1>1, <1>3 DEF TakesNext
<1>10. m = n + 1 => ~TakesNext(word)
  BY <1>1, <1>2, <1>3 DEF TakesNext
<1>11. 2..m = 2..n \cup {n + 1} \cup (IF m = n + 2 THEN {n + 2} ELSE {}) /\ n \in Nat
  BY <1>1
<1>12. m = n + 2 => line[n + 2] \in Words /\ FlagsOf(line[n + 2]) = {}
  BY <1>1, <1>8, <1>9, OptionsAre, SMTT(20)
<1>13. Readable(line, m)
  <2>1. SUFFICES ASSUME NEW k \in 2..m
                 PROVE  /\ IsOption(line[k]) => FlagsOf(line[k]) \subseteq Flags
                        /\ TakesNext(line[k]) => k + 1 <= m /\ ~IsOption(line[k + 1])
                        /\ ~IsOption(line[k]) => k > 2 /\ TakesNext(line[k - 1])
    BY DEF Readable
  <2>2. CASE k \in 2..n
    BY <1>1, <1>11, <2>2 DEF Readable
  <2>3. CASE k = n + 1
    <3>1. TakesNext(line[k]) => m = n + 2 /\ k + 1 = n + 2
      BY <1>1, <1>10, <2>3
    <3>2. QED
      BY <1>3, <1>9, <2>3, <3>1, <1>11
  <2>4. CASE k = n + 2 /\ m = n + 2
    <3>1. ~IsOption(line[k]) /\ TakesNext(line[k - 1]) /\ k > 2
      BY <1>1, <1>9, <2>4
    <3>2. QED
      BY <3>1 DEF TakesNext
  <2>5. QED
    BY <1>11, <2>2, <2>3, <2>4
<1>14. new.flags = UNION {FlagsOf(line[k]) : k \in 2..m}
  BY <1>1, <1>6, <1>11, <1>12
<1>15. ASSUME NEW o \in ValueOptions
       PROVE  LastGiven(line, m, o, new.value[o])
  <2>1. Giving(line, m, o) = Giving(line, n, o) \cup (IF o = opt THEN {n + 1} ELSE {})
    BY <1>3, <1>4, <1>9, <1>11 DEF Giving, opt
  <2>2. CASE o = opt
    <3>1. n + 1 \in Giving(line, m, o)
      BY <2>1, <2>2
    <3>2. \A j \in Giving(line, m, o) : j <= n + 1
      BY <1>11, <2>1, <2>2 DEF Giving
    <3>3. new.value[o] = ValueGiven(line, n + 1)
      BY <1>6, <1>7, <2>2
    <3>4. QED
      BY <3>1, <3>2, <3>3 DEF LastGiven
  <2>3. CASE o # opt
    BY <1>1, <1>6, <2>1, <2>3 DEF LastGiven
  <2>4. QED
    BY <2>2, <2>3
<1>16. QED
  BY <1>6, <1>8, <1>13, <1>14, <1>15 DEF HasRead, new, opt

(* A line that can be read is read without the usage message.                 *)
LEMMA NeverUsage ==
  ASSUME NEW line \in Lines, Readable(line, Len(line)), NEW n, NEW got, HasRead(line, n, got),
         n < Len(line)
  PROVE  /\ IsOption(line[n + 1]) /\ FlagsOf(line[n + 1]) \subseteq Flags
         /\ ValueAt(line[n + 1]) = Len(line[n + 1]) =>
              n + 2 <= Len(line) /\ ~IsOption(line[n + 2])
<1>1. n \in Nat /\ n \in 1..Len(line) /\ Len(line) \in Nat /\ Readable(line, n) /\ n + 1 \in 2..Len(line)
  BY DEF HasRead, Lines
<1>2. IsOption(line[n + 1])
  <2>1. SUFFICES ASSUME ~IsOption(line[n + 1]) PROVE FALSE
    OBVIOUS
  <2>2. n + 1 > 2 /\ TakesNext(line[n + 1 - 1]) /\ n + 1 - 1 = n
    BY <1>1, <2>1 DEF Readable
  <2>3. n \in 2..n /\ TakesNext(line[n])
    BY <1>1, <2>2
  <2>4. n + 1 <= n
    BY <1>1, <2>3 DEF Readable
  <2>5. QED
    BY <1>1, <2>4
<1>3. FlagsOf(line[n + 1]) \subseteq Flags
  BY <1>1, <1>2 DEF Readable
<1>4. ASSUME ValueAt(line[n + 1]) = Len(line[n + 1])
      PROVE  n + 2 <= Len(line) /\ ~IsOption(line[n + 2])
  <2>1. TakesNext(line[n + 1]) /\ n + 1 + 1 = n + 2
    BY <1>1, <1>2, <1>4 DEF TakesNext
  <2>2. QED
    BY <1>1, <2>1 DEF Readable
<1>5. QED
  BY <1>2, <1>3, <1>4

(* What was read are the options of the line.                                 *)
LEMMA ReadOptions ==
  ASSUME NEW line \in Lines, NEW got, HasRead(line, Len(line), got)
  PROVE  /\ \A x : x \notin ValueOptions => (x \in got.flags <=> x \in LineOptions(line))
         /\ \A o \in ValueOptions : got.value[o] # <<>> <=> o \in LineOptions(line)
<1> DEFINE n == Len(line)
<1>1. /\ line \in Seq(Words) /\ n \in Nat /\ n \in 1..n /\ Len(line[1]) = 1
      /\ Readable(line, n)
      /\ got.flags = UNION {FlagsOf(line[k]) : k \in 2..n}
      /\ \A o \in ValueOptions : LastGiven(line, n, o, got.value[o])
  BY DEF HasRead, Lines
<1>2. LineOptions(line) = UNION {OptionsOf(line[k]) : k \in 1..n}
  BY DEF LineOptions
<1> HIDE DEF n
<1>3. ASSUME NEW k \in 1..n
      PROVE  /\ line[k] \in Words /\ Len(line[k]) \in Nat
             /\ ValueAt(line[k]) \in 2..Len(line[k])+1 /\ IsValueAt(line[k], ValueAt(line[k]))
             /\ IsOption(line[k]) =>
                  OptionsOf(line[k]) = FlagsOf(line[k]) \cup
                    (IF ValueAt(line[k]) <= Len(line[k]) THEN {line[k][ValueAt(line[k])]} ELSE {})
             /\ ~IsOption(line[k]) => OptionsOf(line[k]) = {} /\ FlagsOf(line[k]) = {}
             /\ FlagsOf(line[k]) \cap ValueOptions = {}
  <2>1. line[k] \in Words
    BY <1>1 DEF n
  <2>2. QED
    BY <2>1, WordType, OptionsAre, ValueAtIs
<1>4. OptionsOf(line[1]) = {} /\ 1..n = {1} \cup 2..n
  <2>1. ~IsOption(line[1]) /\ 1 \in 1..n
    BY <1>1 DEF IsOption
  <2>2. OptionsOf(line[1]) = {}
    BY <1>3, <2>1
  <2>3. 1..n = {1} \cup 2..n
    BY <1>1
  <2>4. QED
    BY <2>2, <2>3
<1>5. LineOptions(line) = UNION {OptionsOf(line[k]) : k \in 2..n}
  BY <1>2, <1>4
<1>6. ASSUME NEW x, x \notin ValueOptions
      PROVE  x \in got.flags <=> x \in LineOptions(line)
  <2>1. ASSUME NEW k \in 2..n
        PROVE  x \in FlagsOf(line[k]) <=> x \in OptionsOf(line[k])
    <3>1. k \in 1..n
      BY <1>4
    <3>2. ValueAt(line[k]) <= Len(line[k]) => line[k][ValueAt(line[k])] \in ValueOptions
      BY <1>3, <3>1 DEF IsValueAt
    <3>3. QED
      BY <1>3, <1>6, <3>1, <3>2
  <2>2. QED
    BY <1>1, <1>5, <2>1
<1>7. ASSUME NEW o \in ValueOptions
      PROVE  got.value[o] # <<>> <=> o \in LineOptions(line)
  <2>1. o \in LineOptions(line) <=> Giving(line, n, o) # {}
    <3>1. ASSUME NEW k \in 2..n
          PROVE  o \in OptionsOf(line[k]) <=>
                   /\ IsOption(line[k]) /\ ValueAt(line[k]) <= Len(line[k])
                   /\ line[k][ValueAt(line[k])] = o
      <4>1. k \in 1..n
        BY <1>4
      <4>2. QED
        BY <1>3, <4>1
    <3>2. QED
      BY <1>5, <3>1 DEF Giving
  <2>2. CASE Giving(line, n, o) = {}
    BY <1>1, <2>1, <2>2 DEF LastGiven
  <2>3. CASE Giving(line, n, o) # {}
    <3>1. PICK k \in Giving(line, n, o) : got.value[o] = ValueGiven(line, k)
      BY <1>1, <2>3 DEF LastGiven
    <3>2. k \in 2..n /\ k \in 1..n /\ ValueAt(line[k]) <= Len(line[k])
      BY <1>4 DEF Giving
    <3>3. CASE TakesNext(line[k])
      <4>1. k + 1 \in 1..n
        BY <1>1, <3>2, <3>3 DEF Readable
      <4>2. line[k + 1] \in Words
        BY <1>3, <4>1
      <4>3. line[k + 1] # <<>>
        BY <4>2 DEF Words, WordOK
      <4>4. QED
        BY <2>1, <2>3, <3>1, <3>3, <4>3 DEF ValueGiven
    <3>4. CASE ~TakesNext(line[k])
      <4> DEFINE w == line[k]
                 v == ValueAt(w)
      <4>1. w \in Seq(STRING) /\ Len(w) \in Nat /\ v \in 2..Len(w) /\ v # Len(w)
        <5>1. w \in Words /\ Len(w) \in Nat /\ v \in 2..Len(w)+1 /\ v <= Len(w)
          BY <1>3, <3>2
        <5>2. v # Len(w)
          BY <3>1, <3>4 DEF Giving, TakesNext
        <5>3. w \in Seq(STRING)
          BY <5>1, WordType
        <5> HIDE DEF w, v
        <5>4. QED
          BY <5>1, <5>2, <5>3
      <4>2. got.value[o] = SubSeq(w, v + 1, Len(w))
        BY <3>1, <3>4 DEF ValueGiven
      <4> HIDE DEF w, v
      <4>3. Len(SubSeq(w, v + 1, Len(w))) = Len(w) - v
        BY <4>1
      <4>4. SubSeq(w, v + 1, Len(w)) # <<>>
        BY <4>1, <4>3
      <4>5. QED
        BY <2>1, <2>3, <4>2, <4>4
    <3>5. QED
      BY <3>3, <3>4
  <2>4. QED
    BY <2>2, <2>3
<1>8. QED
  BY <1>6, <1>7
------------------------------------------------------------------------------
(* The line that the instance inside GDB gets *)

RequotedLine(line) == [k \in DOMAIN line |-> Requoted(line[k])]

LEMMA RequotedLineType ==
  ASSUME NEW line \in Lines, CleanLine(line)
  PROVE  LET new == RequotedLine(line)
         IN /\ new \in Lines /\ Len(new) = Len(line) /\ CleanLine(new)
            /\ \A k \in 1..Len(line) :
                 new[k] = Requoted(line[k]) /\ line[k] \in Words /\ new[k] \in Words
<1> DEFINE new == RequotedLine(line)
<1>1. /\ line \in Seq(Words) /\ Len(line) \in Nat /\ Len(line) >= 1 /\ Len(line[1]) = 1
      /\ DOMAIN line = 1..Len(line)
  BY DEF Lines
<1>2. new = [k \in 1..Len(line) |-> Requoted(line[k])]
  BY <1>1 DEF RequotedLine
<1> HIDE DEF new
<1>3. ASSUME NEW k \in 1..Len(line)
      PROVE  /\ new[k] = Requoted(line[k]) /\ line[k] \in Words /\ new[k] \in Words
             /\ Len(new[k]) = Len(line[k])
  <2>1. new[k] = Requoted(line[k]) /\ line[k] \in Words
    BY <1>1, <1>2
  <2>2. QED
    BY <2>1, RequotedType
<1>4. new \in Seq(Words) /\ Len(new) = Len(line)
  <2>1. new \in [1..Len(line) -> Words]
    BY <1>2, <1>3
  <2>2. QED
    BY <1>1, <2>1
<1>5. Len(new[1]) = 1
  BY <1>1, <1>3
<1>6. ASSUME NEW k \in 1..Len(line)
      PROVE  Clean(new[k])
  <2> DEFINE word == line[k]
  <2>1. word \in Words /\ Clean(word) /\ new[k] = Requoted(word)
    BY <1>3 DEF CleanLine
  <2>2. /\ Len(new[k]) = Len(word) /\ ValueAt(new[k]) = ValueAt(word) /\ Len(word) \in Nat
        /\ Len(word) >= 1 /\ ValueAt(word) \in 2..Len(word)+1
    BY <2>1, RequotedType, RequotedOptions, WordType, OptionsAre
  <2>3. \A j \in 1..Len(word) :
          /\ new[k][j] \in {"-"} => word[j] \in {"-"}
          /\ new[k][j] \in Commands => word[j] \in Commands
    BY <2>1, RequotedType
  <2> HIDE DEF word
  <2>4. SUFFICES ASSUME SingleDash(new[k]), NEW j \in ValueAt(word)+1..Len(word), new[k][j] \in Commands
                 PROVE  FALSE
    BY <2>2 DEF Clean
  <2>5. SingleDash(word)
    BY <2>2, <2>3, <2>4 DEF SingleDash
  <2>6. word[j] \in Commands
    BY <2>2, <2>3, <2>4
  <2>7. QED
    BY <2>1, <2>5, <2>6 DEF Clean
<1>7. QED
  BY <1>1, <1>3, <1>4, <1>5, <1>6 DEF Lines, CleanLine, new

LEMMA RequotedReadable ==
  ASSUME NEW line \in Lines, CleanLine(line), Readable(line, Len(line))
  PROVE  LET new == RequotedLine(line)
         IN /\ Readable(new, Len(new))
            /\ \A k \in 2..Len(line) :
                 /\ IsOption(new[k]) = IsOption(line[k]) /\ ValueAt(new[k]) = ValueAt(line[k])
                 /\ TakesNext(new[k]) = TakesNext(line[k]) /\ FlagsOf(new[k]) = FlagsOf(line[k])
                 /\ ValueAt(line[k]) <= Len(line[k]) =>
                      new[k][ValueAt(line[k])] = line[k][ValueAt(line[k])]
<1> DEFINE new == RequotedLine(line)
           n == Len(line)
<1>1. /\ new \in Lines /\ Len(new) = n /\ n \in Nat
      /\ \A k \in 1..n : new[k] = Requoted(line[k]) /\ line[k] \in Words /\ new[k] \in Words
  BY RequotedLineType DEF Lines
<1> HIDE DEF new, n
<1>2. ASSUME NEW k \in 2..n
      PROVE  /\ IsOption(new[k]) = IsOption(line[k]) /\ ValueAt(new[k]) = ValueAt(line[k])
             /\ TakesNext(new[k]) = TakesNext(line[k]) /\ FlagsOf(new[k]) = FlagsOf(line[k])
             /\ ValueAt(line[k]) <= Len(line[k]) =>
                  new[k][ValueAt(line[k])] = line[k][ValueAt(line[k])]
  <2> DEFINE word == line[k]
  <2>1. word \in Words /\ new[k] = Requoted(word) /\ new[k] \in Words
    BY <1>1
  <2>2. FlagsOf(word) \subseteq Flags
    <3>1. IsOption(word) => FlagsOf(word) \subseteq Flags
      BY <1>1 DEF Readable, n
    <3>2. ~IsOption(word) => FlagsOf(word) = {}
      BY <2>1, OptionsAre
    <3>3. QED
      BY <3>1, <3>2
  <2> HIDE DEF word
  <2>3. /\ ValueAt(new[k]) = ValueAt(word) /\ IsOption(new[k]) = IsOption(word)
        /\ FlagsOf(new[k]) = FlagsOf(word) /\ Len(new[k]) = Len(word)
        /\ ValueAt(word) <= Len(word) => new[k][ValueAt(word)] = word[ValueAt(word)]
    BY <2>1, <2>2, RequotedType, RequotedOptions
  <2>4. TakesNext(new[k]) = TakesNext(word)
    BY <2>3 DEF TakesNext
  <2>5. QED
    BY <2>3, <2>4 DEF word
<1>3. Readable(new, n)
  <2>1. SUFFICES ASSUME NEW k \in 2..n
                 PROVE  /\ IsOption(new[k]) => FlagsOf(new[k]) \subseteq Flags
                        /\ TakesNext(new[k]) => k + 1 <= n /\ ~IsOption(new[k + 1])
                        /\ ~IsOption(new[k]) => k > 2 /\ TakesNext(new[k - 1])
    BY DEF Readable
  <2>2. /\ IsOption(line[k]) => FlagsOf(line[k]) \subseteq Flags
        /\ TakesNext(line[k]) => k + 1 <= n /\ ~IsOption(line[k + 1])
        /\ ~IsOption(line[k]) => k > 2 /\ TakesNext(line[k - 1])
    BY DEF Readable, n
  <2>3. TakesNext(line[k]) => ~IsOption(new[k + 1])
    BY <1>1, <1>2, <2>2
  <2>4. ~IsOption(line[k]) => TakesNext(new[k - 1])
    BY <1>1, <1>2, <2>2
  <2>5. QED
    BY <1>2, <2>2, <2>3, <2>4
<1>4. QED
  BY <1>1, <1>2, <1>3 DEF new, n

(* It reads the same from it but for what a Python string changes.            *)
LEMMA RequotedEmpty == Requoted(<<>>) = <<>>
BY DEF Requoted

LEMMA RequotedValue ==
  ASSUME NEW word \in Words, NEW v \in 2..Len(word)
  PROVE  SubSeq(Requoted(word), v + 1, Len(word)) = Requoted(SubSeq(word, v + 1, Len(word)))
<1> DEFINE new == Requoted(word)
           n == Len(word)
<1>1. /\ word \in Seq(STRING) /\ n \in Nat /\ new \in Seq(STRING) /\ Len(new) = n
      /\ \A j \in 1..n : new[j] = IF word[j] = Escape THEN Escaped ELSE word[j]
  BY WordType, RequotedType DEF Words
<1> DEFINE part == SubSeq(word, v + 1, n)
           got == SubSeq(new, v + 1, n)
<1> HIDE DEF new, n
<1>2. /\ part \in Seq(STRING) /\ Len(part) = n - v /\ n - v \in Nat
      /\ \A j \in 1..n-v : part[j] = word[v + j]
  BY <1>1 DEF n
<1>3. /\ got \in Seq(STRING) /\ Len(got) = n - v
      /\ \A j \in 1..n-v : got[j] = new[v + j]
  BY <1>1 DEF n
<1> HIDE DEF part, got
<1>4. Requoted(part) = [j \in 1..n-v |-> IF part[j] = Escape THEN Escaped ELSE part[j]]
  BY <1>2 DEF Requoted
<1>5. \A j \in 1..n-v : got[j] = IF part[j] = Escape THEN Escaped ELSE part[j]
  <2>1. \A j \in 1..n-v : v + j \in 1..n
    BY <1>1, <1>2 DEF n
  <2>2. QED
    BY <1>1, <1>2, <1>3, <2>1
<1>6. got = [j \in 1..n-v |-> got[j]]
  BY <1>2, <1>3
<1>7. got = Requoted(part)
  BY <1>4, <1>5, <1>6
<1>8. QED
  BY <1>7 DEF got, part, new, n

LEMMA SameReading ==
  ASSUME NEW line \in Lines, CleanLine(line), NEW got, HasRead(line, Len(line), got),
         NEW again, HasRead(RequotedLine(line), Len(line), again)
  PROVE  again = [flags |-> got.flags,
                  value |-> [o \in ValueOptions |-> Requoted(got.value[o])]]
<1> DEFINE new == RequotedLine(line)
           n == Len(line)
<1>1. /\ new \in Lines /\ Len(new) = n /\ n \in Nat
      /\ \A k \in 1..n : new[k] = Requoted(line[k]) /\ line[k] \in Words /\ new[k] \in Words
  BY RequotedLineType DEF Lines
<1>2. /\ Readable(line, n) /\ got.flags = UNION {FlagsOf(line[k]) : k \in 2..n}
      /\ \A o \in ValueOptions : LastGiven(line, n, o, got.value[o])
  BY DEF HasRead
<1>3. /\ again = [flags |-> again.flags, value |-> [o \in ValueOptions |-> again.value[o]]]
      /\ again.flags = UNION {FlagsOf(new[k]) : k \in 2..n}
      /\ \A o \in ValueOptions : LastGiven(new, n, o, again.value[o])
  BY DEF HasRead
<1>4. \A k \in 2..n :
        /\ IsOption(new[k]) = IsOption(line[k]) /\ ValueAt(new[k]) = ValueAt(line[k])
        /\ TakesNext(new[k]) = TakesNext(line[k]) /\ FlagsOf(new[k]) = FlagsOf(line[k])
        /\ ValueAt(line[k]) <= Len(line[k]) =>
             new[k][ValueAt(line[k])] = line[k][ValueAt(line[k])]
  BY <1>2, RequotedReadable
<1> HIDE DEF new, n
<1>5. again.flags = got.flags
  BY <1>2, <1>3, <1>4
<1>6. ASSUME NEW k \in 1..n
      PROVE  Len(new[k]) = Len(line[k]) /\ Len(line[k]) \in Nat /\ ValueAt(line[k]) \in 2..Len(line[k])+1
  BY <1>1, RequotedType, WordType, OptionsAre
<1>7. ASSUME NEW o \in ValueOptions
      PROVE  again.value[o] = Requoted(got.value[o])
  <2>1. Giving(new, n, o) = Giving(line, n, o)
    <3>1. ASSUME NEW k \in 2..n
          PROVE  /\ IsOption(new[k]) = IsOption(line[k]) /\ ValueAt(new[k]) = ValueAt(line[k])
                 /\ Len(new[k]) = Len(line[k])
                 /\ ValueAt(line[k]) <= Len(line[k]) =>
                      new[k][ValueAt(line[k])] = line[k][ValueAt(line[k])]
      <4>1. k \in 1..n
        BY <1>1
      <4>2. QED
        BY <1>4, <1>6, <4>1
    <3>2. QED
      BY <3>1 DEF Giving
  <2>2. CASE Giving(line, n, o) = {}
    BY <1>2, <1>3, <2>1, <2>2, RequotedEmpty DEF LastGiven
  <2>3. CASE Giving(line, n, o) # {}
    <3>1. PICK k \in Giving(line, n, o) :
            (\A j \in Giving(line, n, o) : j <= k) /\ got.value[o] = ValueGiven(line, k)
      BY <1>2, <2>3 DEF LastGiven
    <3>2. PICK i \in Giving(line, n, o) :
            (\A j \in Giving(line, n, o) : j <= i) /\ again.value[o] = ValueGiven(new, i)
      BY <1>3, <2>1, <2>3 DEF LastGiven
    <3>3. /\ k \in 2..n /\ k \in 1..n /\ i = k
          /\ IsOption(line[k]) /\ ValueAt(line[k]) <= Len(line[k])
      BY <1>1, <3>1, <3>2 DEF Giving
    <3>4. CASE TakesNext(line[k])
      <4>1. k + 1 \in 1..n
        BY <1>1, <1>2, <3>3, <3>4 DEF Readable
      <4>2. got.value[o] = line[k + 1] /\ again.value[o] = new[k + 1]
        BY <1>4, <3>1, <3>2, <3>3, <3>4 DEF ValueGiven
      <4>3. QED
        BY <1>1, <4>1, <4>2
    <3>5. CASE ~TakesNext(line[k])
      <4>1. /\ got.value[o] = SubSeq(line[k], ValueAt(line[k]) + 1, Len(line[k]))
            /\ again.value[o] = SubSeq(new[k], ValueAt(line[k]) + 1, Len(line[k]))
        BY <1>4, <1>6, <3>1, <3>2, <3>3, <3>5 DEF ValueGiven
      <4>2. line[k] \in Words /\ ValueAt(line[k]) \in 2..Len(line[k]) /\ new[k] = Requoted(line[k])
        BY <1>1, <1>6, <3>3
      <4>3. SubSeq(Requoted(line[k]), ValueAt(line[k]) + 1, Len(line[k])) =
              Requoted(SubSeq(line[k], ValueAt(line[k]) + 1, Len(line[k])))
        BY <4>2, RequotedValue
      <4>4. QED
        BY <4>1, <4>2, <4>3
    <3>6. QED
      BY <3>4, <3>5
  <2>4. QED
    BY <2>2, <2>3
<1>8. QED
  BY <1>3, <1>5, <1>7

(* What is left when another command is found in it can be read as well.      *)
LEMMA RestReadable ==
  ASSUME NEW line \in Lines, CleanLine(line), Readable(line, Len(line)), Placed(line),
         HitsOf(line) # {}
  PROVE  Readable(OwnOf(line), Len(OwnOf(line)))
<1> DEFINE f == FirstOf(line)
           own1 == OwnOf(line)
           w == RestWord(line[f])
           n == Len(own1)
<1>1. /\ own1 \in Lines /\ \A k \in 1..f-1 : own1[k] = line[k]
      /\ \/ n = f - 1 /\ Len(line[f]) = 2
         \/ n = f /\ Len(line[f]) > 2 /\ own1[f] = w
  BY OwnIs
<1>2. /\ line \in Seq(Words) /\ Len(line) \in Nat /\ f \in 2..Len(line) /\ f \in HitsOf(line)
      /\ DOMAIN line = 1..Len(line)
  BY FirstIs DEF Lines
<1>3. line[f] \in Words /\ Clean(line[f]) /\ \E c \in Commands : Applies(line[f], c)
  BY <1>2 DEF HitsOf, CleanLine
<1>4. ~Misplaced(line[f], CommandOf(line[f]))
  BY DEF Placed
<1> HIDE DEF f
<1>5. \/ Len(line[f]) = 2
      \/ /\ w \in Words /\ Len(w) = Len(line[f]) - 1 /\ IsOption(w)
         /\ ValueAt(w) = Len(w) + 1 /\ OptionsOf(w) \subseteq OptionsOf(line[f])
  BY <1>3, <1>4, HitWord
<1>6. IsOption(line[f])
  <2>1. CommandOf(line[f]) \in OptionsOf(line[f])
    BY <1>3, <1>4, HitWord
  <2>2. QED
    BY <2>1 DEF OptionsOf
<1>7. Len(line[f]) \in Nat
  BY <1>3, WordType
<1> HIDE DEF own1, w, n
<1>8. n \in Nat /\ f \in Nat /\ (n = f - 1 \/ n = f)
  BY <1>1, <1>2
<1>9. ASSUME NEW k \in 2..f-1
      PROVE  /\ IsOption(own1[k]) => FlagsOf(own1[k]) \subseteq Flags
             /\ TakesNext(own1[k]) => k + 1 <= n /\ ~IsOption(own1[k + 1])
             /\ ~IsOption(own1[k]) => k > 2 /\ TakesNext(own1[k - 1])
  <2>1. k \in 2..Len(line) /\ own1[k] = line[k] /\ k \in Nat
    BY <1>1, <1>2
  <2>2. /\ IsOption(line[k]) => FlagsOf(line[k]) \subseteq Flags
        /\ TakesNext(line[k]) => k + 1 <= Len(line) /\ ~IsOption(line[k + 1])
        /\ ~IsOption(line[k]) => k > 2 /\ TakesNext(line[k - 1])
    BY <2>1 DEF Readable
  <2>3. ASSUME TakesNext(line[k])
        PROVE  k + 1 <= n /\ ~IsOption(own1[k + 1])
    <3>1. k + 1 # f
      BY <1>6, <2>2, <2>3
    <3>2. k + 1 \in 1..f-1
      BY <1>2, <2>1, <3>1
    <3>3. own1[k + 1] = line[k + 1]
      BY <1>1, <3>2
    <3>4. QED
      BY <1>8, <2>2, <2>3, <3>2, <3>3
  <2>4. ASSUME ~IsOption(line[k])
        PROVE  TakesNext(own1[k - 1])
    <3>1. k - 1 \in 1..f-1 /\ TakesNext(line[k - 1])
      BY <1>2, <2>1, <2>2, <2>4
    <3>2. QED
      BY <1>1, <3>1
  <2>5. QED
    BY <2>1, <2>2, <2>3, <2>4
<1>10. ASSUME n = f
       PROVE  IsOption(own1[f]) /\ FlagsOf(own1[f]) \subseteq Flags /\ ~TakesNext(own1[f])
  <2>1. own1[f] = w /\ Len(line[f]) # 2
    <3>1. n # f - 1
      BY <1>8, <1>10
    <3>2. Len(line[f]) > 2 /\ own1[f] = w
      BY <1>1, <3>1 DEF n, own1, w
    <3>3. \A i \in Nat : i > 2 => i # 2
      OBVIOUS
    <3>4. QED
      BY <1>7, <3>2, <3>3
  <2>2. /\ w \in Words /\ IsOption(w) /\ ValueAt(w) = Len(w) + 1
        /\ OptionsOf(w) \subseteq OptionsOf(line[f])
    BY <1>5, <2>1
  <2>3. Len(w) \in Nat
    BY <2>2, WordType
  <2>4. OptionsOf(w) = FlagsOf(w) /\ FlagsOf(w) \cap ValueOptions = {}
    <3>1. ~(ValueAt(w) <= Len(w))
      BY <2>2, <2>3
    <3>2. QED
      BY <2>2, <3>1, OptionsAre
  <2>5. OptionsOf(line[f]) \subseteq FlagsOf(line[f]) \cup ValueOptions
    <3>1. ValueAt(line[f]) <= Len(line[f]) => line[f][ValueAt(line[f])] \in ValueOptions
      BY <1>3, ValueAtIs DEF IsValueAt
    <3>2. QED
      BY <1>3, <1>6, <3>1, OptionsAre
  <2>6. FlagsOf(line[f]) \subseteq Flags
    BY <1>2, <1>6 DEF Readable
  <2>7. FlagsOf(w) \subseteq Flags
    BY <2>2, <2>4, <2>5, <2>6
  <2>8. ~TakesNext(w)
    BY <2>2, <2>3 DEF TakesNext
  <2>9. QED
    BY <2>1, <2>2, <2>7, <2>8
<1>11. \A k \in 2..n : k \in 2..f-1 \/ (k = f /\ n = f)
  BY <1>2, <1>8
<1>12. Readable(own1, n)
  BY <1>9, <1>10, <1>11 DEF Readable
<1>13. QED
  BY <1>12 DEF own1, n
------------------------------------------------------------------------------
(* Outside and inside GDB *)

LEMMA ModesAre ==
  /\ "gdb-runner" \in Modes <=> command = "g"
  /\ "run" \in Modes <=> command = "r"
  /\ "gdb-plugin" \in Modes <=> inside
  /\ "load-from-file" \in Modes <=> given.value["l"] # <<>>
  /\ "pipe" \in Modes <=> "p" \in given.flags
  /\ Modes \subseteq {"gdb-runner", "run", "gdb-plugin", "load-from-file", "pipe"}
<1>1. "gdb-runner" \in Modes <=> command = "g"
  BY DEF Modes
<1>2. "run" \in Modes <=> command = "r"
  BY DEF Modes
<1>3. "gdb-plugin" \in Modes <=> inside
  BY DEF Modes
<1>4. "load-from-file" \in Modes <=> given.value["l"] # <<>>
  BY DEF Modes
<1>5. "pipe" \in Modes <=> "p" \in given.flags
  BY DEF Modes
<1>6. Modes \subseteq {"gdb-runner", "run", "gdb-plugin", "load-from-file", "pipe"}
  BY DEF Modes
<1>7. QED
  BY <1>1, <1>2, <1>3, <1>4, <1>5, <1>6

(* The split of what the user typed, and what of it has been read.            *)
OutsideRead ==
  /\ Placed(typed) /\ own = OwnOf(typed) /\ command = CommandIn(typed) /\ passed = PassedOf(typed)
  /\ HasRead(own, at, given)

LEMMA OutsideOwn ==
  ASSUME typed \in Lines, CleanLine(typed), OutsideRead
  PROVE  own \in Lines /\ CleanLine(own)
BY OwnIs DEF OutsideRead, OwnOf

(* One mode is found outside exactly if one is asked for, except for an r in  *)
(* front of the g.                                                            *)
LEMMA OutsideModes ==
  ASSUME typed \in Lines, CleanLine(typed), OutsideRead, at = Len(own), ~inside
  PROVE  LET asked == AskedFor(AllOptions(typed))
         IN /\ "m" \in given.flags <=> "m" \in AllOptions(typed)
            /\ \A mode \in StartedModes : Modes = {mode} => asked = {mode}
            /\ (\E m : asked = {m}) => (\E m : Modes = {m})
            /\ Modes = {"gdb-runner"} =>
                 /\ HitsOf(typed) # {} /\ command = "g"
                 /\ "p" \notin given.flags /\ given.value["l"] = <<>>
<1> DEFINE options == LineOptions(own)
           all == AllOptions(typed)
           asked == AskedFor(all)
<1>1. own \in Lines /\ HasRead(own, Len(own), given) /\ own = OwnOf(typed)
  BY OutsideOwn DEF OutsideRead
<1>2. /\ "m" \in given.flags <=> "m" \in options
      /\ "p" \in given.flags <=> "p" \in options
      /\ given.value["l"] # <<>> <=> "l" \in options
  <2>1. "m" \notin ValueOptions /\ "p" \notin ValueOptions /\ "l" \in ValueOptions
    BY DEF ValueOptions
  <2>2. QED
    BY <1>1, <2>1, ReadOptions
<1>3. \/ HitsOf(typed) = {} /\ command = "" /\ all = options
         /\ "r" \notin options /\ "g" \notin options
      \/ HitsOf(typed) # {} /\ command \in {"g", "r"} /\ all = options \cup {command}
         /\ command \notin options /\ "g" \notin options
  <2>1. CASE HitsOf(typed) = {}
    <3>1. command = "" /\ all = options
      BY <1>1, <2>1 DEF OutsideRead, CommandIn, AllOptions
    <3>2. options \cap Commands = {}
      BY <1>1, <2>1, NoCommand DEF OwnOf
    <3>3. QED
      BY <2>1, <3>1, <3>2 DEF Commands
  <2>2. CASE HitsOf(typed) # {}
    <3>1. command = CommandIn(typed) /\ all = options \cup {command}
      BY <1>1, <2>2 DEF OutsideRead, AllOptions
    <3>2. command \in Commands /\ command \notin options /\ "g" \notin options
      BY <1>1, <2>2, <3>1, OptionsUpTo DEF OutsideRead
    <3>3. QED
      BY <2>2, <3>1, <3>2 DEF Commands
  <2>3. QED
    BY <2>1, <2>2
<1> HIDE DEF options, all, asked
<1>4. /\ "run" \in asked <=> "r" \in all
      /\ "gdb-plugin" \in asked <=> "g" \in all
      /\ "load-from-file" \in asked <=> "l" \in all
      /\ "pipe" \in asked <=> "p" \in all
      /\ asked \subseteq {"run", "gdb-plugin", "load-from-file", "pipe"}
  BY AskedAre DEF asked
<1>5. /\ "m" \in all <=> "m" \in options
      /\ "p" \in all <=> "p" \in options
      /\ "l" \in all <=> "l" \in options
      /\ "g" \in all <=> command = "g"
      /\ command = "r" => "r" \in all
      /\ "r" \in all => command \in {"g", "r"}
  BY <1>3
<1>6. /\ "gdb-runner" \in Modes <=> command = "g"
      /\ "run" \in Modes <=> command = "r"
      /\ "gdb-plugin" \notin Modes
      /\ "load-from-file" \in Modes <=> "l" \in options
      /\ "pipe" \in Modes <=> "p" \in options
      /\ Modes \subseteq {"gdb-runner", "run", "gdb-plugin", "load-from-file", "pipe"}
  BY <1>2, ModesAre
<1>7. ASSUME NEW mode \in StartedModes, Modes = {mode}
      PROVE  asked = {mode}
  <2>1. mode \in {"run", "load-from-file", "pipe"} /\ command # "g"
    BY <1>6, <1>7 DEF StartedModes
  <2>2. "gdb-plugin" \notin asked /\ ("run" \in asked <=> command = "r")
    BY <1>4, <1>5, <2>1
  <2>3. \A m \in {"run", "load-from-file", "pipe"} : m \in asked <=> m \in Modes
    BY <1>4, <1>5, <1>6, <2>2
  <2>4. QED
    BY <1>4, <1>7, <2>1, <2>2, <2>3
<1>8. ASSUME NEW m, asked = {m}
      PROVE  \E mode : Modes = {mode}
  <2>1. m \in {"run", "gdb-plugin", "load-from-file", "pipe"}
    BY <1>4, <1>8
  <2>2. CASE m = "gdb-plugin"
    <3>1. command = "g" /\ "l" \notin all /\ "p" \notin all
      BY <1>4, <1>5, <1>8, <2>2
    <3>2. Modes = {"gdb-runner"}
      BY <1>5, <1>6, <3>1
    <3>3. QED
      BY <3>2
  <2>3. CASE m # "gdb-plugin"
    <3>1. command # "g"
      BY <1>4, <1>5, <1>8, <2>3
    <3>2. "run" \in asked <=> command = "r"
      BY <1>4, <1>5, <3>1
    <3>3. \A n \in {"run", "load-from-file", "pipe"} : n \in asked <=> n \in Modes
      BY <1>4, <1>5, <1>6, <3>2
    <3>4. Modes = {m}
      BY <1>6, <1>8, <2>1, <2>3, <3>1, <3>3
    <3>5. QED
      BY <3>4
  <2>4. QED
    BY <2>2, <2>3
<1>9. ASSUME Modes = {"gdb-runner"}
      PROVE  /\ HitsOf(typed) # {} /\ command = "g"
             /\ "p" \notin given.flags /\ given.value["l"] = <<>>
  BY <1>2, <1>3, <1>6, <1>9
<1>10. QED
  BY <1>2, <1>5, <1>7, <1>8, <1>9 DEF all, asked

(* What the instance outside has accepted when GDB runs.                      *)
Nested ==
  /\ Placed(typed) /\ HitsOf(typed) # {} /\ CommandIn(typed) = "g"
  /\ HasRead(OwnOf(typed), Len(OwnOf(typed)), before)
  /\ "p" \notin before.flags /\ "m" \notin before.flags /\ before.value["l"] = <<>>
  /\ argv = RequotedLine(OwnOf(typed))

LEMMA NestedLine ==
  ASSUME typed \in Lines, CleanLine(typed), Nested
  PROVE  /\ OwnOf(typed) \in Lines /\ CleanLine(OwnOf(typed))
         /\ argv \in Lines /\ CleanLine(argv) /\ Len(argv) = Len(OwnOf(typed))
         /\ Readable(argv, Len(argv))
<1> DEFINE line == OwnOf(typed)
<1>1. line \in Lines /\ CleanLine(line)
  BY OwnIs DEF Nested
<1>2. Readable(line, Len(line)) /\ argv = RequotedLine(line)
  BY DEF Nested, HasRead
<1> HIDE DEF line
<1>3. QED
  BY <1>1, <1>2, RequotedLineType, RequotedReadable DEF line

(* If another command is found inside GDB it is an r in front of the g.       *)
LEMMA NestedHit ==
  ASSUME typed \in Lines, CleanLine(typed), Nested, HitsOf(argv) # {}
  PROVE  "r" \in before.flags /\ CommandIn(argv) = "r"
<1> DEFINE line == OwnOf(typed)
           f == FirstOf(argv)
<1>1. /\ line \in Lines /\ CleanLine(line) /\ argv \in Lines /\ argv = RequotedLine(line)
      /\ HasRead(line, Len(line), before)
  BY NestedLine DEF Nested
<1>2. f \in HitsOf(argv) /\ f \in 2..Len(argv) /\ Len(argv) = Len(line)
  BY <1>1, FirstIs, NestedLine
<1>3. "g" \notin LineOptions(line)
  BY OptionsUpTo DEF Nested
<1> HIDE DEF line, f
<1>4. /\ f \in 1..Len(line) /\ line[f] \in Words /\ argv[f] = Requoted(line[f]) /\ Clean(line[f])
  <2>1. f \in 1..Len(line)
    BY <1>2
  <2>2. QED
    BY <1>1, <2>1, RequotedLineType DEF CleanLine
<1>5. PICK c \in Commands : Applies(argv[f], c)
  BY <1>2 DEF HitsOf
<1>6. \A d \in Commands : Applies(argv[f], d) <=> d \in OptionsOf(line[f])
  BY <1>4, RequotedOptions, HitsAreOptions
<1>7. \A d : d \in OptionsOf(line[f]) => d \in LineOptions(line)
  BY <1>4 DEF LineOptions
<1>8. c = "r" /\ ~Applies(argv[f], "g") /\ "r" \in LineOptions(line)
  BY <1>3, <1>5, <1>6, <1>7 DEF Commands
<1>9. CommandIn(argv) = "r"
  BY <1>8 DEF CommandIn, CommandOf, f
<1>10. "r" \in before.flags
  <2>1. "r" \notin ValueOptions
    BY DEF ValueOptions
  <2>2. QED
    BY <1>1, <1>8, <2>1, ReadOptions
<1>11. QED
  BY <1>9, <1>10

(* What the instance inside GDB has read: the same line, or what is left of   *)
(* it in front of another command.                                            *)
InsideRead ==
  /\ own \in Lines /\ Readable(own, Len(own)) /\ HasRead(own, at, given)
  /\ \/ own = argv /\ command = "" /\ passed = PassedOf(typed)
     \/ command = "r" /\ "r" \in before.flags

Changed == [option \in ValueOptions |-> Requoted(before.value[option])]

LEMMA InsideSame ==
  ASSUME typed \in Lines, CleanLine(typed), inside, Nested, InsideRead, at = Len(own),
         own = argv, command = ""
  PROVE  /\ given = [flags |-> before.flags, value |-> Changed]
         /\ Modes = {"gdb-plugin"} /\ "m" \notin given.flags
<1>1. /\ OwnOf(typed) \in Lines /\ CleanLine(OwnOf(typed))
      /\ HasRead(OwnOf(typed), Len(OwnOf(typed)), before)
      /\ argv = RequotedLine(OwnOf(typed)) /\ Len(argv) = Len(OwnOf(typed))
  BY NestedLine DEF Nested
<1>2. HasRead(RequotedLine(OwnOf(typed)), Len(OwnOf(typed)), given)
  BY <1>1 DEF InsideRead
<1>3. given = [flags |-> before.flags, value |-> Changed]
  BY <1>1, <1>2, SameReading DEF Changed
<1>4. given.flags = before.flags /\ given.value["l"] = <<>>
  <2>1. "l" \in ValueOptions /\ before.value["l"] = <<>>
    BY DEF Nested, ValueOptions
  <2>2. Changed["l"] = <<>>
    BY <2>1, RequotedEmpty DEF Changed
  <2>3. QED
    BY <1>3, <2>2
<1>5. "m" \notin given.flags /\ "p" \notin given.flags
  BY <1>4 DEF Nested
<1>6. Modes = {"gdb-plugin"}
  BY <1>4, <1>5, ModesAre
<1>7. QED
  BY <1>3, <1>5, <1>6

(* With an r in front of the g more than one mode is asked for.               *)
LEMMA AskedTwice ==
  ASSUME typed \in Lines, CleanLine(typed), Nested, "r" \in before.flags
  PROVE  Cardinality(AskedFor(AllOptions(typed))) # 1
<1> DEFINE asked == AskedFor(AllOptions(typed))
<1>1. "r" \in LineOptions(OwnOf(typed))
  <2>1. "r" \notin ValueOptions
    BY DEF ValueOptions
  <2>2. QED
    BY <2>1, NestedLine, ReadOptions DEF Nested
<1>2. "r" \in AllOptions(typed) /\ "g" \in AllOptions(typed)
  BY <1>1 DEF AllOptions, Nested
<1>3. /\ "run" \in asked /\ "gdb-plugin" \in asked
      /\ asked \subseteq {"gdb-runner", "run", "gdb-plugin", "load-from-file", "pipe"}
  BY <1>2, AskedAre
<1> HIDE DEF asked
<1>4. ~\E m : asked = {m}
  BY <1>3
<1>5. QED
  BY <1>3, <1>4, OneMode DEF asked

(* Without one the mode of the plugin is the one that is asked for.           *)
LEMMA AskedOnce ==
  ASSUME typed \in Lines, CleanLine(typed), Nested, HitsOf(argv) = {}
  PROVE  AskedFor(AllOptions(typed)) = {"gdb-plugin"}
<1> DEFINE asked == AskedFor(AllOptions(typed))
           line == OwnOf(typed)
<1>1. /\ line \in Lines /\ CleanLine(line) /\ HasRead(line, Len(line), before)
      /\ argv = RequotedLine(line) /\ "p" \notin before.flags /\ before.value["l"] = <<>>
  BY NestedLine DEF Nested
<1>2. "p" \notin LineOptions(line) /\ "l" \notin LineOptions(line)
  <2>1. "p" \notin ValueOptions /\ "l" \in ValueOptions
    BY DEF ValueOptions
  <2>2. QED
    BY <1>1, <2>1, ReadOptions
<1>3. HitsOf(line) = {}
  <2>1. SUFFICES ASSUME NEW k \in HitsOf(line) PROVE FALSE
    OBVIOUS
  <2>2. k \in 1..Len(line) /\ \E c \in Commands : Applies(line[k], c)
    BY <1>1 DEF HitsOf, Lines
  <2>3. line[k] \in Words /\ argv[k] = Requoted(line[k]) /\ k \in DOMAIN argv
    <3>1. /\ argv[k] = Requoted(line[k]) /\ line[k] \in Words
          /\ argv \in Lines /\ Len(argv) = Len(line)
      BY <1>1, <2>2, RequotedLineType
    <3>2. QED
      BY <2>2, <3>1 DEF Lines
  <2>4. \E c \in Commands : Applies(argv[k], c)
    BY <2>2, <2>3, RequotedOptions
  <2>5. QED
    BY <2>3, <2>4 DEF HitsOf
<1>4. "r" \notin LineOptions(line)
  BY <1>1, <1>3, NoCommand DEF Commands
<1>5. AllOptions(typed) = LineOptions(line) \cup {"g"}
  BY DEF AllOptions, Nested
<1> HIDE DEF line
<1>6. /\ "run" \notin asked /\ "load-from-file" \notin asked /\ "pipe" \notin asked
      /\ "gdb-plugin" \in asked
      /\ asked \subseteq {"run", "gdb-plugin", "load-from-file", "pipe"}
  BY <1>2, <1>4, <1>5, AskedAre
<1>7. QED
  BY <1>6
------------------------------------------------------------------------------
(* From the command line to the mode *)

(* Of a line whose values have no character of a command, while no mode has   *)
(* started and nothing has ended the program.                                 *)
Going ==
  /\ outcome = ""
  /\ pc \in {"gdb", "load"} =>
       at = Len(own) /\ "m" \notin given.flags /\ \E m : Modes = {m}
  /\ pc = "gdb" => ~inside /\ Modes = {"gdb-runner"}
  /\ ~inside =>
       IF pc = "split" THEN argv = typed /\ at = 1 /\ given = Nothing /\ passed = <<>>
       ELSE OutsideRead
  /\ inside =>
       /\ Nested
       /\ IF pc = "split" THEN at = 1 /\ given = Nothing /\ passed = PassedOf(typed)
          ELSE InsideRead
       /\ own = argv /\ command = "" => HitsOf(argv) = {} \/ pc = "split"
       /\ pc # "split" /\ own = argv /\ command = "" => passed = PassedOf(typed)

(* How it ended.                                                              *)
Ended ==
  /\ outcome \in StartedModes \cup {"help"} => Placed(typed)
  /\ outcome = "help" =>
       "m" \in AllOptions(typed) \/ Cardinality(AskedFor(AllOptions(typed))) # 1
  /\ outcome \in StartedModes =>
       AskedFor(AllOptions(typed)) = {outcome} /\ passed = PassedOf(typed)
  /\ outcome = "no plugin" => ScriptFails(typed)
  /\ inside =>
       /\ outcome \in {"gdb-plugin", "help", "error"}
       /\ outcome = "help" => "r" \in before.flags
       /\ outcome = "error" =>
            \/ stage = "raised" \/ "r" \in before.flags
            \/ {Changed["f"], Changed["b"]} \cap BadMatchers # {}

StartInv ==
  /\ typed \in CommandLines
  /\ pc \in {"split", "options", "gdb", "load", "done"}
  /\ CleanLine(typed) => IF pc = "done" THEN Ended ELSE Going

(* The assumptions of the steps: the invariant, before the end.               *)
Starting ==
  /\ typed \in CommandLines /\ typed \in Lines /\ CleanLine(typed) /\ Going /\ pc # "done"

LEMMA HitsAre == Hits = HitsOf(argv) /\ FirstHit = FirstOf(argv)
<1>1. Hits = HitsOf(argv)
  BY DEF Hits, HitsOf
<1>2. QED
  BY <1>1 DEF FirstHit, FirstOf

(* The split leaves what OwnOf says.                                          *)
LEMMA SplitStep ==
  ASSUME Starting, SplitNothing \/ SplitAtCommand, argv \in Lines
  PROVE  /\ pc = "split" /\ pc' = "options" /\ Placed(argv)
         /\ own' = OwnOf(argv) /\ command' = CommandIn(argv)
         /\ UNCHANGED <<typed, inside, argv, at, given, before, outcome>>
         /\ passed' = IF HitsOf(argv) = {} THEN passed ELSE PassedOf(argv)
<1>1. CASE SplitNothing
  BY <1>1, HitsAre DEF SplitNothing, Placed, OwnOf, CommandIn
<1>2. CASE SplitAtCommand
  BY <1>2, HitsAre DEF SplitAtCommand, Placed, OwnOf, CommandIn, PassedOf
<1>3. QED
  BY <1>1, <1>2

LEMMA SplitGoes ==
  ASSUME Starting, SplitNothing \/ SplitAtCommand
  PROVE  Going'
<1>1. CASE ~inside
  <2>1. pc = "split" => argv = typed /\ at = 1 /\ given = Nothing /\ passed = <<>>
    BY <1>1 DEF Starting, Going
  <2>2. pc = "split"
    BY DEF SplitNothing, SplitAtCommand
  <2>3. /\ pc' = "options" /\ Placed(typed) /\ own' = OwnOf(typed) /\ command' = CommandIn(typed)
        /\ UNCHANGED <<typed, inside, argv, at, given, before, outcome>>
        /\ passed' = PassedOf(typed)
    BY <2>1, <2>2, SplitStep DEF Starting, PassedOf
  <2>4. OwnOf(typed) \in Lines
    BY <2>3, OwnIs DEF Starting, OwnOf
  <2>5. HasRead(OwnOf(typed), 1, Nothing)
    BY <2>4, ReadStart
  <2>6. OutsideRead'
    BY <2>1, <2>2, <2>3, <2>5 DEF OutsideRead
  <2>7. QED
    BY <1>1, <2>3, <2>6 DEF Starting, Going
<1>2. CASE inside
  <2>1. Nested /\ (pc = "split" => at = 1 /\ given = Nothing /\ passed = PassedOf(typed))
    BY <1>2 DEF Starting, Going
  <2>2. pc = "split"
    BY DEF SplitNothing, SplitAtCommand
  <2>3. argv \in Lines /\ CleanLine(argv) /\ Readable(argv, Len(argv))
    BY <2>1, NestedLine DEF Starting
  <2>4. /\ pc' = "options" /\ Placed(argv) /\ own' = OwnOf(argv) /\ command' = CommandIn(argv)
        /\ UNCHANGED <<typed, inside, argv, at, given, before, outcome>>
        /\ passed' = IF HitsOf(argv) = {} THEN passed ELSE PassedOf(argv)
    BY <2>3, SplitStep
  <2>5. OwnOf(argv) \in Lines /\ Readable(OwnOf(argv), Len(OwnOf(argv)))
    <3>1. CASE HitsOf(argv) = {}
      BY <2>3, <3>1 DEF OwnOf
    <3>2. CASE HitsOf(argv) # {}
      BY <2>3, <2>4, <3>2, OwnIs, RestReadable
    <3>3. QED
      BY <3>1, <3>2
  <2>6. HasRead(OwnOf(argv), 1, Nothing)
    BY <2>5, ReadStart
  <2>7. \/ HitsOf(argv) = {} /\ own' = argv /\ command' = "" /\ passed' = PassedOf(typed)
        \/ command' = "r" /\ "r" \in before.flags
    <3>1. CASE HitsOf(argv) = {}
      BY <2>1, <2>2, <2>4, <3>1 DEF OwnOf, CommandIn
    <3>2. CASE HitsOf(argv) # {}
      BY <2>1, <2>4, <3>2, NestedHit DEF Starting
    <3>3. QED
      BY <3>1, <3>2
  <2>8. InsideRead'
    BY <2>1, <2>2, <2>4, <2>5, <2>6, <2>7 DEF InsideRead
  <2>9. Nested'
    BY <2>1, <2>4 DEF Nested
  <2>10. QED
    BY <1>2, <2>4, <2>7, <2>8, <2>9 DEF Starting, Going
<1>3. QED
  BY <1>1, <1>2

LEMMA MisplacedEnds ==
  ASSUME Starting, SplitMisplaced
  PROVE  Ended'
<1>1. pc = "split" /\ outcome' = "error" /\ HitsOf(argv) # {}
      /\ UNCHANGED <<typed, inside, argv, own, command, passed, at, given, before>>
  BY HitsAre DEF SplitMisplaced, End
<1>2. inside => "r" \in before.flags
  BY <1>1, NestedHit DEF Starting, Going
<1>3. QED
  BY <1>1, <1>2 DEF Ended, StartedModes

(* A word is read, outside and inside.                                        *)
LEMMA ReadWord ==
  ASSUME own \in Lines, HasRead(own, at, given),
         NEW k \in DOMAIN own, ReadFlags(own[k]) \/ ReadAttached(own[k]) \/ ReadSeparate(own[k])
  PROVE  /\ HasRead(own, at', given') /\ pc = "options"
         /\ UNCHANGED <<typed, inside, pc, argv, own, command, passed, before, outcome>>
<1> DEFINE word == own[k]
<1>1. /\ pc = "options" /\ at < Len(own) /\ word = own[at + 1]
      /\ IsOption(word) /\ FlagsOf(word) \subseteq Flags
      /\ UNCHANGED <<typed, inside, pc, argv, own, command, passed, before, outcome>>
  BY DEF ReadFlags, ReadAttached, ReadSeparate, Reading
<1>2. CASE ReadFlags(word)
  BY <1>1, <1>2, ReadFlagsStep DEF ReadFlags
<1>3. CASE ReadAttached(word)
  <2> DEFINE value == SubSeq(word, ValueAt(word) + 1, Len(word))
             m == at + 1
  <2>1. /\ ValueAt(word) < Len(word) /\ at' = m
        /\ given' = [flags |-> given.flags \cup FlagsOf(word),
                     value |-> [given.value EXCEPT ![word[ValueAt(word)]] = value]]
    BY <1>3 DEF ReadAttached
  <2>2. IF m = at + 1
        THEN /\ ValueAt(own[at + 1]) < Len(own[at + 1])
             /\ value = SubSeq(own[at + 1], ValueAt(own[at + 1]) + 1, Len(own[at + 1]))
        ELSE /\ ValueAt(own[at + 1]) = Len(own[at + 1])
             /\ at + 2 <= Len(own) /\ ~IsOption(own[at + 2]) /\ value = own[at + 2]
    BY <1>1, <2>1
  <2>3. m \in {at + 1, at + 2}
    OBVIOUS
  <2> HIDE DEF m, value, word
  <2>4. HasRead(own, m, [flags |-> given.flags \cup FlagsOf(own[at + 1]),
                         value |-> [given.value EXCEPT ![own[at + 1][ValueAt(own[at + 1])]] = value]])
    BY <1>1, <2>2, <2>3, ReadValueStep
  <2>5. QED
    BY <1>1, <2>1, <2>4
<1>4. CASE ReadSeparate(word)
  <2> DEFINE value == own[at + 2]
             m == at + 2
  <2>1. /\ ValueAt(word) = Len(word) /\ at + 2 <= Len(own) /\ ~IsOption(own[at + 2]) /\ at' = m
        /\ given' = [flags |-> given.flags \cup FlagsOf(word),
                     value |-> [given.value EXCEPT ![word[ValueAt(word)]] = value]]
    BY <1>4 DEF ReadSeparate, HasNext
  <2>2. IF m = at + 1
        THEN /\ ValueAt(own[at + 1]) < Len(own[at + 1])
             /\ value = SubSeq(own[at + 1], ValueAt(own[at + 1]) + 1, Len(own[at + 1]))
        ELSE /\ ValueAt(own[at + 1]) = Len(own[at + 1])
             /\ at + 2 <= Len(own) /\ ~IsOption(own[at + 2]) /\ value = own[at + 2]
    <3>1. m # at + 1
      BY DEF HasRead
    <3>2. QED
      BY <1>1, <2>1, <3>1
  <2>3. m \in {at + 1, at + 2}
    OBVIOUS
  <2> HIDE DEF m, value, word
  <2>4. HasRead(own, m, [flags |-> given.flags \cup FlagsOf(own[at + 1]),
                         value |-> [given.value EXCEPT ![own[at + 1][ValueAt(own[at + 1])]] = value]])
    BY <1>1, <2>2, <2>3, ReadValueStep
  <2>5. QED
    BY <1>1, <2>1, <2>4
<1>5. QED
  BY <1>2, <1>3, <1>4

LEMMA ReadGoes ==
  ASSUME Starting, NEW k \in DOMAIN own,
         ReadFlags(own[k]) \/ ReadAttached(own[k]) \/ ReadSeparate(own[k])
  PROVE  Going'
<1>1. pc = "options"
  BY DEF ReadFlags, ReadAttached, ReadSeparate, Reading
<1>2. own \in Lines /\ HasRead(own, at, given)
  <2>1. CASE inside
    BY <1>1, <2>1 DEF Starting, Going, InsideRead
  <2>2. CASE ~inside
    BY <1>1, <2>2, OutsideOwn DEF Starting, Going, OutsideRead
  <2>3. QED
    BY <2>1, <2>2
<1>3. /\ HasRead(own, at', given')
      /\ UNCHANGED <<typed, inside, pc, argv, own, command, passed, before, outcome>>
  BY <1>2, ReadWord
<1>4. CASE inside
  <2>1. Nested' /\ InsideRead'
    BY <1>1, <1>3, <1>4 DEF Starting, Going, Nested, InsideRead
  <2>2. QED
    BY <1>1, <1>3, <1>4, <2>1 DEF Starting, Going
<1>5. CASE ~inside
  <2>1. OutsideRead'
    BY <1>1, <1>3, <1>5 DEF Starting, Going, OutsideRead
  <2>2. QED
    BY <1>1, <1>3, <1>5, <2>1 DEF Starting, Going
<1>6. QED
  BY <1>4, <1>5

LEMMA UsageEnds ==
  ASSUME Starting, NEW k \in DOMAIN own, Usage(own[k])
  PROVE  Ended'
<1>1. /\ pc = "options" /\ outcome' = "usage" /\ at < Len(own) /\ own[k] = own[at + 1]
      /\ \/ ~IsOption(own[k]) \/ ~(FlagsOf(own[k]) \subseteq Flags)
         \/ ValueAt(own[k]) = Len(own[k]) /\ ~HasNext
      /\ UNCHANGED <<typed, inside>>
  BY DEF Usage, End
<1>2. ~inside
  <2>1. SUFFICES ASSUME inside PROVE FALSE
    OBVIOUS
  <2>2. own \in Lines /\ Readable(own, Len(own)) /\ HasRead(own, at, given)
    BY <1>1, <2>1 DEF Starting, Going, InsideRead
  <2>3. /\ IsOption(own[at + 1]) /\ FlagsOf(own[at + 1]) \subseteq Flags
        /\ ValueAt(own[at + 1]) = Len(own[at + 1]) =>
             at + 2 <= Len(own) /\ ~IsOption(own[at + 2])
    BY <1>1, <2>2, NeverUsage
  <2>4. QED
    BY <1>1, <2>3 DEF HasNext
<1>3. QED
  BY <1>1, <1>2 DEF Ended, StartedModes
------------------------------------------------------------------------------
(* All options are read: what has been found, outside and inside.             *)
LEMMA ParsedOutside ==
  ASSUME Starting, pc \in {"options", "gdb", "load"}, at = Len(own), ~inside
  PROVE  LET asked == AskedFor(AllOptions(typed))
         IN /\ OutsideRead /\ own \in Lines
            /\ "m" \in given.flags <=> "m" \in AllOptions(typed)
            /\ \A mode \in StartedModes : Modes = {mode} => asked = {mode}
            /\ (\E m : asked = {m}) => (\E m : Modes = {m})
            /\ Modes = {"gdb-runner"} =>
                 /\ HitsOf(typed) # {} /\ command = "g"
                 /\ "p" \notin given.flags /\ given.value["l"] = <<>>
<1>1. OutsideRead
  BY DEF Starting, Going
<1>2. own \in Lines
  BY <1>1, OutsideOwn DEF Starting
<1>3. QED
  BY <1>1, <1>2, OutsideModes DEF Starting

LEMMA ParsedInside ==
  ASSUME Starting, pc \in {"options", "load"}, at = Len(own), inside
  PROVE  /\ Nested
         /\ \/ /\ own = argv /\ command = "" /\ Modes = {"gdb-plugin"}
               /\ "m" \notin given.flags /\ given = [flags |-> before.flags, value |-> Changed]
               /\ HitsOf(argv) = {} /\ passed = PassedOf(typed)
            \/ "r" \in before.flags /\ {"run", "gdb-plugin"} \subseteq Modes
<1>1. /\ Nested /\ InsideRead /\ typed \in Lines /\ CleanLine(typed)
      /\ own = argv /\ command = "" => HitsOf(argv) = {} /\ passed = PassedOf(typed)
  BY DEF Starting, Going
<1>2. CASE own = argv /\ command = ""
  BY <1>1, <1>2, InsideSame
<1>3. CASE command = "r" /\ "r" \in before.flags
  BY <1>1, <1>3, ModesAre
<1>4. QED
  BY <1>1, <1>2, <1>3 DEF InsideRead

LEMMA ManyModes == Cardinality(Modes) = 1 <=> \E m : Modes = {m}
BY OneMode, ModesAre

LEMMA HelpEnds ==
  ASSUME Starting, Help
  PROVE  Ended'
<1>1. /\ pc = "options" /\ at = Len(own) /\ outcome' = "help"
      /\ "m" \in given.flags \/ Cardinality(Modes) # 1
      /\ UNCHANGED <<typed, inside, before>>
  BY DEF Help, Parsed, End
<1> DEFINE asked == AskedFor(AllOptions(typed))
<1>2. CASE ~inside
  <2>1. /\ OutsideRead
        /\ "m" \in given.flags <=> "m" \in AllOptions(typed)
        /\ (\E m : asked = {m}) => (\E m : Modes = {m})
    BY <1>1, <1>2, ParsedOutside
  <2>2. asked \subseteq {"gdb-runner", "run", "gdb-plugin", "load-from-file", "pipe"}
    BY AskedAre
  <2>3. Cardinality(asked) = 1 <=> \E m : asked = {m}
    <3> HIDE DEF asked
    <3> QED
      BY <2>2, OneMode
  <2>4. "m" \in AllOptions(typed) \/ Cardinality(asked) # 1
    BY <1>1, <2>1, <2>3, ManyModes
  <2>5. Placed(typed)
    BY <2>1 DEF OutsideRead
  <2>6. QED
    BY <1>1, <1>2, <2>4, <2>5 DEF Ended, StartedModes
<1>3. CASE inside
  <2>1. Nested /\ "r" \in before.flags
    <3>1. Nested /\ ("r" \in before.flags \/ (Modes = {"gdb-plugin"} /\ "m" \notin given.flags))
      BY <1>1, <1>3, ParsedInside
    <3>2. QED
      BY <1>1, <3>1, ManyModes
  <2>2. Cardinality(asked) # 1
    BY <2>1, AskedTwice DEF Starting
  <2>3. Placed(typed)
    BY <2>1 DEF Nested
  <2>4. QED
    BY <1>1, <2>1, <2>2, <2>3 DEF Ended, StartedModes
<1>4. QED
  BY <1>2, <1>3

LEMMA RefuseEnds ==
  ASSUME Starting, Refuse
  PROVE  Ended'
<1>1. /\ pc = "options" /\ at = Len(own) /\ outcome' = "error" /\ MatcherFails
      /\ UNCHANGED <<typed, inside, before>>
  BY DEF Refuse, Parsed, End
<1>2. inside => "r" \in before.flags \/ given = [flags |-> before.flags, value |-> Changed]
  BY <1>1, ParsedInside
<1>3. given = [flags |-> before.flags, value |-> Changed] =>
        {Changed["f"], Changed["b"]} \cap BadMatchers # {}
  BY <1>1 DEF MatcherFails
<1>4. Changed' = Changed
  BY <1>1 DEF Changed
<1>5. QED
  BY <1>1, <1>2, <1>3, <1>4 DEF Ended, StartedModes

LEMMA AcceptGoes ==
  ASSUME Starting, Accept
  PROVE  Going'
<1>1. /\ pc = "options" /\ at = Len(own) /\ "m" \notin given.flags /\ Cardinality(Modes) = 1
      /\ pc' = IF Modes = {"gdb-runner"} THEN "gdb" ELSE "load"
      /\ UNCHANGED <<typed, inside, argv, own, command, passed, at, given, before, outcome>>
  BY DEF Accept, Parsed
<1>2. Modes' = Modes /\ \E m : Modes = {m}
  BY <1>1, ManyModes DEF Modes
<1>3. CASE ~inside
  <2>1. OutsideRead'
    BY <1>1, <1>3 DEF Starting, Going, OutsideRead
  <2>2. QED
    BY <1>1, <1>2, <1>3, <2>1 DEF Starting, Going
<1>4. CASE inside
  <2>1. "gdb-plugin" \in Modes
    BY <1>4, ModesAre
  <2>2. pc' = "load"
    BY <1>1, <2>1
  <2>3. Nested' /\ InsideRead'
    BY <1>1, <1>4 DEF Starting, Going, Nested, InsideRead
  <2>4. own' = argv' /\ command' = "" => HitsOf(argv') = {} /\ passed' = PassedOf(typed')
    BY <1>1, <1>4 DEF Starting, Going
  <2>5. QED
    BY <1>1, <1>2, <1>4, <2>2, <2>3, <2>4 DEF Starting, Going
<1>5. QED
  BY <1>3, <1>4

LEMMA RunGdbGoes ==
  ASSUME Starting, RunGdb
  PROVE  Going'
<1>1. /\ pc = "gdb" /\ inside' = TRUE /\ pc' = "split"
      /\ argv' = [k \in DOMAIN own |-> Requoted(own[k])]
      /\ at' = 1 /\ given' = Nothing /\ before' = given
      /\ UNCHANGED <<typed, command, passed, outcome>>
  BY DEF RunGdb
<1>2. /\ ~inside /\ Modes = {"gdb-runner"} /\ at = Len(own) /\ "m" \notin given.flags
      /\ outcome = ""
  BY <1>1 DEF Starting, Going
<1>3. /\ OutsideRead /\ HitsOf(typed) # {} /\ command = "g"
      /\ "p" \notin given.flags /\ given.value["l"] = <<>>
  BY <1>1, <1>2, ParsedOutside
<1>4. /\ Placed(typed) /\ own = OwnOf(typed) /\ CommandIn(typed) = "g"
      /\ HasRead(OwnOf(typed), Len(OwnOf(typed)), given) /\ passed = PassedOf(typed)
  BY <1>2, <1>3 DEF OutsideRead
<1>5. argv' = RequotedLine(OwnOf(typed))
  BY <1>1, <1>4 DEF RequotedLine
<1>6. Nested'
  BY <1>1, <1>2, <1>3, <1>4, <1>5 DEF Nested
<1>7. QED
  BY <1>1, <1>2, <1>4, <1>6 DEF Going

LEMMA RunGdbFailsEnds ==
  ASSUME Starting, RunGdbFails
  PROVE  Ended'
<1>1. pc = "gdb" /\ outcome' = "no gdb" /\ UNCHANGED inside
  BY DEF RunGdbFails, End
<1>2. ~inside
  BY <1>1 DEF Starting, Going
<1>3. QED
  BY <1>1, <1>2 DEF Ended, StartedModes

(* What is wrong with what was left of the line is wrong with the line.       *)
LEMMA ScriptFailsTyped ==
  ASSUME NEW line \in Lines, CleanLine(line), Placed(line), ScriptFails(OwnOf(line))
  PROVE  ScriptFails(line)
<1>1. CASE HitsOf(line) = {}
  BY <1>1 DEF OwnOf
<1>2. CASE HitsOf(line) # {}
  <2> DEFINE f == FirstOf(line)
             own1 == OwnOf(line)
             w == RestWord(line[f])
  <2>1. /\ own1 \in Lines /\ f \in 2..Len(line)
        /\ \A k \in 1..f-1 : own1[k] = line[k]
        /\ Len(own1) = f - 1 \/ (Len(own1) = f /\ Len(line[f]) > 2 /\ own1[f] = w)
    BY <1>2, OwnIs, FirstIs
  <2>2. f \in Int /\ Len(line) \in Int /\ f <= Len(line)
    BY <2>1 DEF Lines
  <2>3. /\ Len(line) \in Nat /\ DOMAIN line = 1..Len(line) /\ DOMAIN own1 = 1..Len(own1)
        /\ line[f] \in Words
    BY <2>1 DEF Lines
  <2>4. Len(line[f]) > 2 => DOMAIN w \subseteq DOMAIN line[f] /\ \A j \in DOMAIN w : w[j] = line[f][j]
    <3>1. line[f] \in Seq(STRING) /\ Len(line[f]) \in Nat
      BY <2>3, WordType
    <3> HIDE DEF f
    <3>2. QED
      BY <3>1 DEF RestWord
  <2> HIDE DEF f, own1, w
  <2>5. ASSUME NEW k \in DOMAIN own1, NEW j \in DOMAIN own1[k], own1[k][j] = Unreadable
        PROVE  ScriptFails(line)
    <3>1. CASE k \in 1..f-1
      <4>1. k \in 1..Len(line) /\ own1[k] = line[k]
        BY <2>2, <2>1, <3>1
      <4>2. QED
        BY <2>3, <2>5, <4>1, Zenon DEF ScriptFails
    <3>2. CASE k = f /\ Len(line[f]) > 2 /\ own1[f] = w
      <4>1. f \in DOMAIN line /\ j \in DOMAIN line[f] /\ line[f][j] = Unreadable
        BY <2>1, <2>3, <2>4, <2>5, <3>2
      <4>2. QED
        BY <4>1, Zenon DEF ScriptFails
    <3>3. k \in 1..f-1 \/ (k = f /\ Len(line[f]) > 2 /\ own1[f] = w)
      <4>1. k \in 1..Len(own1)
        BY <2>3, <2>5
      <4>2. QED
        BY <2>2, <2>1, <4>1
    <3>4. QED
      BY <3>1, <3>2, <3>3
  <2>6. own1[1] = line[1]
    BY <2>1
  <2>7. QED
    BY <2>5, <2>6, Zenon DEF ScriptFails, own1
<1>3. QED
  BY <1>1, <1>2

LEMMA WithoutPluginEnds ==
  ASSUME Starting, RunGdbWithoutPlugin
  PROVE  Ended'
<1>1. pc = "gdb" /\ ScriptFails(own) /\ outcome' = "no plugin" /\ UNCHANGED <<inside, typed>>
  BY DEF RunGdbWithoutPlugin, End
<1>2. ~inside
  BY <1>1 DEF Starting, Going
<1>3. OutsideRead
  BY <1>1, <1>2 DEF Starting, Going
<1>4. ScriptFails(typed)
  BY <1>1, <1>3, ScriptFailsTyped DEF Starting, OutsideRead
<1>5. ScriptFails(typed)'
  BY <1>1, <1>4 DEF ScriptFails
<1>6. QED
  BY <1>1, <1>2, <1>5 DEF Ended, StartedModes

LEMMA LoadRaisedEnds ==
  ASSUME Starting, LoadRaised
  PROVE  Ended'
<1>1. outcome' = "error" /\ stage' = "raised" /\ UNCHANGED inside
  BY DEF LoadRaised, End, protocolVars
<1>2. QED
  BY <1>1 DEF Ended, StartedModes

LEMMA StartEnds ==
  ASSUME Starting, Start
  PROVE  Ended'
<1>1. /\ pc = "load" /\ outcome' \in Modes
      /\ UNCHANGED <<typed, inside, passed, before>>
  BY DEF Start, End
<1>2. at = Len(own) /\ Modes = {outcome'}
  BY <1>1 DEF Starting, Going
<1>3. CASE ~inside
  <2>1. /\ OutsideRead
        /\ \A mode \in StartedModes : Modes = {mode} => AskedFor(AllOptions(typed)) = {mode}
    BY <1>1, <1>2, <1>3, ParsedOutside
  <2>2. Placed(typed) /\ passed = PassedOf(typed)
    BY <2>1 DEF OutsideRead
  <2>3. "help" # outcome' /\ "no plugin" # outcome'
    BY <1>1, ModesAre
  <2>4. outcome' \in StartedModes => AskedFor(AllOptions(typed)) = {outcome'}
    BY <1>2, <2>1
  <2>5. QED
    BY <1>1, <1>3, <2>2, <2>3, <2>4 DEF Ended
<1>4. CASE inside
  <2>1. /\ Nested /\ Modes = {"gdb-plugin"} /\ HitsOf(argv) = {} /\ passed = PassedOf(typed)
    <3>1. {"run", "gdb-plugin"} \subseteq Modes => FALSE
      BY <1>2
    <3>2. QED
      BY <1>1, <1>2, <1>4, <3>1, ParsedInside
  <2>2. outcome' = "gdb-plugin"
    BY <1>1, <2>1
  <2>3. AskedFor(AllOptions(typed)) = {"gdb-plugin"}
    BY <2>1, AskedOnce DEF Starting
  <2>4. Placed(typed)
    BY <2>1 DEF Nested
  <2>5. QED
    BY <1>1, <2>1, <2>2, <2>3, <2>4 DEF Ended
<1>5. QED
  BY <1>3, <1>4

(* Nothing of it looks at the protocols while they are loaded, nor later.     *)
LEMMA StartStutters ==
  ASSUME UNCHANGED startVars
  PROVE  /\ Going => Going'
         /\ UNCHANGED vars /\ Ended => Ended'
<1>1. UNCHANGED <<typed, inside, pc, argv, own, command, passed, at, given, before, outcome>>
  BY DEF startVars
<1>2. ASSUME Going PROVE Going'
  <2>1. (Nested => Nested') /\ (InsideRead => InsideRead')
    BY <1>1 DEF Nested, InsideRead
  <2>2. OutsideRead => OutsideRead'
    BY <1>1 DEF OutsideRead
  <2>3. Modes' = Modes
    BY <1>1 DEF Modes
  <2>4. QED
    BY <1>1, <1>2, <2>1, <2>2, <2>3 DEF Going
<1>3. ASSUME UNCHANGED vars, Ended PROVE Ended'
  <2>1. Changed' = Changed
    BY <1>1 DEF Changed
  <2>2. stage' = stage
    BY <1>3 DEF vars, protocolVars
  <2>3. QED
    BY <1>1, <1>3, <2>1, <2>2 DEF Ended
<1>4. QED
  BY <1>2, <1>3
------------------------------------------------------------------------------
LEMMA StartInitially ==
  ASSUME Init
  PROVE  StartInv
<1>1. /\ typed \in CommandLines /\ argv = typed /\ inside = FALSE /\ pc = "split"
      /\ passed = <<>> /\ at = 1 /\ given = Nothing /\ outcome = ""
  BY DEF Init
<1>2. QED
  BY <1>1 DEF StartInv, Going

LEMMA StartStep ==
  ASSUME StartInv, [Next]_vars
  PROVE  StartInv'
<1> DEFINE pcs == {"split", "options", "gdb", "load", "done"}
<1>1. typed \in CommandLines /\ pc \in pcs
  BY DEF StartInv
<1>2. /\ typed' = typed /\ pc' \in pcs
      /\ UNCHANGED vars \/ pc # "done"
  <2>1. CASE UNCHANGED vars
    BY <1>1, <2>1 DEF vars, startVars
  <2>2. CASE SplitNothing \/ SplitMisplaced \/ SplitAtCommand
    BY <2>2 DEF SplitNothing, SplitMisplaced, SplitAtCommand, End
  <2>3. CASE ReadOption
    <3>1. PICK k \in DOMAIN own :
            ReadFlags(own[k]) \/ ReadAttached(own[k]) \/ ReadSeparate(own[k]) \/ Usage(own[k])
      BY <2>3 DEF ReadOption
    <3>2. QED
      BY <3>1 DEF ReadFlags, ReadAttached, ReadSeparate, Usage, Reading, End
  <2>4. CASE Help \/ Refuse \/ Accept
    BY <2>4 DEF Help, Refuse, Accept, Parsed, End
  <2>5. CASE RunGdb \/ RunGdbFails \/ RunGdbWithoutPlugin
    BY <2>5 DEF RunGdb, RunGdbFails, RunGdbWithoutPlugin, End
  <2>6. CASE LoadProtocols \/ LoadRaised \/ Start
    BY <1>1, <2>6 DEF LoadProtocols, LoadRaised, Start, startVars, End
  <2>7. QED
    BY <2>1, <2>2, <2>3, <2>4, <2>5, <2>6 DEF Next
<1>3. CASE ~CleanLine(typed)
  BY <1>1, <1>2, <1>3 DEF StartInv
<1>4. CASE CleanLine(typed) /\ UNCHANGED vars
  <2>1. UNCHANGED startVars /\ pc' = pc
    BY <1>4 DEF vars, startVars
  <2>2. (Going => Going') /\ (Ended => Ended')
    BY <1>4, <2>1, StartStutters
  <2>3. QED
    BY <1>1, <1>2, <1>4, <2>1, <2>2 DEF StartInv
<1>5. CASE CleanLine(typed) /\ pc # "done" /\ ~UNCHANGED vars
  <2>1. Starting /\ typed \in Lines
    BY <1>1, <1>5, LineType DEF Starting, StartInv
  <2>2. \/ pc' # "done" /\ Going'
        \/ pc' = "done" /\ Ended'
    <3>1. CASE SplitNothing \/ SplitAtCommand
      BY <2>1, <3>1, SplitGoes DEF SplitNothing, SplitAtCommand
    <3>2. CASE SplitMisplaced
      BY <2>1, <3>2, MisplacedEnds DEF SplitMisplaced, End
    <3>3. CASE ReadOption
      <4>1. PICK k \in DOMAIN own :
              ReadFlags(own[k]) \/ ReadAttached(own[k]) \/ ReadSeparate(own[k]) \/ Usage(own[k])
        BY <3>3 DEF ReadOption
      <4>2. CASE Usage(own[k])
        BY <2>1, <4>2, UsageEnds DEF Usage, End
      <4>3. CASE ReadFlags(own[k]) \/ ReadAttached(own[k]) \/ ReadSeparate(own[k])
        <5>1. Going'
          BY <2>1, <4>3, ReadGoes
        <5>2. pc' # "done"
          BY <4>3, <1>5 DEF ReadFlags, ReadAttached, ReadSeparate
        <5>3. QED
          BY <5>1, <5>2
      <4>4. QED
        BY <4>1, <4>2, <4>3
    <3>4. CASE Help
      BY <2>1, <3>4, HelpEnds DEF Help, End
    <3>5. CASE Refuse
      BY <2>1, <3>5, RefuseEnds DEF Refuse, End
    <3>6. CASE Accept
      BY <2>1, <3>6, AcceptGoes DEF Accept
    <3>7. CASE RunGdb
      BY <2>1, <3>7, RunGdbGoes DEF RunGdb
    <3>8. CASE RunGdbFails
      BY <2>1, <3>8, RunGdbFailsEnds DEF RunGdbFails, End
    <3>9. CASE LoadProtocols
      <4>1. UNCHANGED startVars /\ pc' = pc /\ Going
        BY <2>1, <3>9 DEF LoadProtocols, startVars, Starting
      <4>2. Going'
        BY <4>1, StartStutters
      <4>3. QED
        BY <1>5, <4>1, <4>2
    <3>10. CASE LoadRaised
      BY <2>1, <3>10, LoadRaisedEnds DEF LoadRaised, End
    <3>11. CASE Start
      BY <2>1, <3>11, StartEnds DEF Start, End
    <3>12. CASE RunGdbWithoutPlugin
      BY <2>1, <3>12, WithoutPluginEnds DEF RunGdbWithoutPlugin, End
    <3>13. QED
      BY <1>5, <3>1, <3>2, <3>3, <3>4, <3>5, <3>6, <3>7, <3>8, <3>9, <3>10, <3>11, <3>12 DEF Next
  <2>3. QED
    BY <1>1, <1>2, <2>2 DEF StartInv
<1>6. QED
  BY <1>2, <1>3, <1>4, <1>5

(* What is known of every command line while the program starts, outside and  *)
(* inside GDB: what the split has left of it, what has been read, and how it  *)
(* may end.                                                                   *)
THEOREM StartInvariant == Spec => []StartInv
<1>1. Init => StartInv
  BY StartInitially
<1>2. StartInv /\ [Next]_vars => StartInv'
  BY StartStep
<1>3. QED
  BY <1>1, <1>2, PTL DEF Spec

LEMMA CleanTyped ==
  ASSUME typed \in Lines
  PROVE  CleanLine(typed) <=> ~CommandInValue
BY DEF CleanLine, Clean, CommandInValue, Lines

LEMMA AsAskedAlways ==
  ASSUME StartInv
  PROVE  StartsAsAsked
<1>1. typed \in Lines
  BY LineType DEF StartInv
<1>2. CASE CleanLine(typed) /\ pc = "done" /\ outcome \in StartedModes \cup {"help"}
  <2>1. Ended
    BY <1>2 DEF StartInv
  <2>2. QED
    BY <1>1, <1>2, <2>1, AsAsked DEF Ended
<1>3. CASE ~CleanLine(typed)
  BY <1>1, <1>3, CleanTyped DEF StartsAsAsked
<1>4. CASE outcome \notin StartedModes \cup {"help"}
  BY <1>4 DEF StartsAsAsked
<1>5. CASE CleanLine(typed) /\ pc # "done"
  <2>1. outcome = ""
    BY <1>5 DEF StartInv, Going
  <2>2. QED
    BY <2>1 DEF StartsAsAsked, StartedModes
<1>6. QED
  BY <1>2, <1>3, <1>4, <1>5

LEMMA GdbAgrees ==
  ASSUME StartInv, NeverNested
  PROVE  GdbInstanceAgrees
<1>1. typed \in Lines
  BY LineType DEF StartInv
<1> DEFINE value == [option \in ValueOptions |-> Requoted(before.value[option])]
           agree == /\ outcome \in {"", "gdb-plugin", "help", "error"}
                    /\ outcome = "help" => "r" \in before.flags
                    /\ outcome = "error" =>
                         \/ stage = "raised"
                         \/ "r" \in before.flags
                         \/ {value["f"], value["b"]} \cap BadMatchers # {}
                    /\ pc = "load" => given = [flags |-> before.flags, value |-> value]
<1>2. value = Changed
  BY DEF Changed
<1>3. ASSUME inside, CleanLine(typed), pc = "done" PROVE agree
  <2>1. Ended
    BY <1>3 DEF StartInv
  <2>2. QED
    BY <1>2, <1>3, <2>1 DEF Ended
<1>4. ASSUME inside, CleanLine(typed), pc # "done" PROVE agree
  <2>1. Starting /\ outcome = ""
    BY <1>1, <1>4 DEF Starting, StartInv, Going
  <2>2. ASSUME pc = "load" PROVE given = [flags |-> before.flags, value |-> Changed]
    <3>1. at = Len(own) /\ \E m : Modes = {m}
      BY <2>1, <2>2 DEF Starting, Going
    <3>2. {"run", "gdb-plugin"} \subseteq Modes => FALSE
      BY <3>1
    <3>3. QED
      BY <1>4, <2>1, <2>2, <3>1, <3>2, ParsedInside
  <2>3. QED
    BY <1>2, <2>1, <2>2
<1>5. inside => pc # "gdb"
  BY DEF NeverNested
<1>6. ASSUME outcome = "no plugin", CleanLine(typed) PROVE ScriptFails(typed)
  <2>1. Ended
    BY <1>6 DEF StartInv, Going
  <2>2. QED
    BY <1>6, <2>1 DEF Ended
<1>7. QED
  BY <1>1, <1>3, <1>4, <1>5, <1>6, CleanTyped DEF GdbInstanceAgrees

(* Of every command line: the mode that starts is the only one the line asks  *)
(* for, and the program or GDB gets all words behind the command.             *)
THEOREM StartsAlwaysAsAsked == Spec => []StartsAsAsked
<1>1. StartInv => StartsAsAsked
  BY AsAskedAlways
<1>2. QED
  BY <1>1, StartInvariant, PTL

(* Of every command line: the instance inside GDB reads what the one outside  *)
(* read, but for what a Python string changes.                                *)
THEOREM GdbAlwaysAgrees == Spec => []GdbInstanceAgrees
<1>1. StartInv /\ NeverNested => GdbInstanceAgrees
  BY GdbAgrees
<1>2. QED
  BY <1>1, StartInvariant, GdbNotNested, PTL
==============================================================================
