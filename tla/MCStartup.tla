------------------------------ MODULE MCStartup -------------------------------
(* Every command line of up to three words out of these; and every content of *)
(* three files, started with one command line.                                *)
EXTENDS Startup

CONSTANTS f1, f2, f3, NoProtocol, MaxWords

MCFiles == {f1, f2, f3}

\* f1 is the system's, f2 and f3 are shipped.
MCDirectory == [f \in MCFiles |-> IF f = f1 THEN 1 ELSE 3]

(* Enums: one bit each, one composite entry, and no bitfield.                 *)
Actions == [bitfield |-> TRUE, entries |-> <<[name |-> "none", value |-> {}],
             [name |-> "copy", value |-> {0}], [name |-> "move", value |-> {1}]>>]
Edges == [bitfield |-> TRUE, entries |-> <<[name |-> "top", value |-> {0}],
             [name |-> "left", value |-> {2}], [name |-> "top_left", value |-> {0, 2}]>>]
Buttons == [bitfield |-> FALSE, entries |-> <<[name |-> "left", value |-> {1}],
             [name |-> "right", value |-> {0, 1}]>>]

MCFakeInterface ==
  [version |-> 1, file |-> "fake_enums", messages |-> <<>>, enums |-> [button |-> Buttons]]

Arg(name, path) == [name |-> name, enum |-> path]

(* An offer has a message with an enum only since version 2, a pointer names  *)
(* an enum of its own, and the enum of an offer is that of the manager.       *)
Offer(v) ==
  [version |-> v, enums |-> [x \in {} |-> Actions],
   messages |-> IF v = 1 THEN [accept |-> <<Arg("serial", <<>>)>>]
                ELSE [action |-> <<Arg("actions", <<>>), Arg("preferred", <<>>)>>]]
Pointer(v) ==
  [version |-> v, enums |-> [edge |-> Edges],
   messages |-> [button |-> <<Arg("button", IF v = 1 THEN <<>> ELSE <<"edge">>)>>]]
Manager ==
  [version |-> 1, enums |-> [action |-> Actions],
   messages |-> [choose |-> <<Arg("actions", <<>>), Arg("edge", <<"pointer", "edge">>)>>]]

File(offer, pointer, manager) ==
  [name \in (IF offer = 0 THEN {} ELSE {"offer"}) \cup (IF pointer = 0 THEN {} ELSE {"pointer"})
              \cup (IF manager THEN {"manager"} ELSE {}) |->
     CASE name = "offer" -> Offer(offer) [] name = "pointer" -> Pointer(pointer)
       [] name = "manager" -> Manager]

MCContents ==
  {NoProtocol} \cup {File(o, p, m) : o \in 0..2, p \in 0..2, m \in BOOLEAN}

MCTags == <<
  [interface |-> "offer", message |-> "action", arg |-> "preferred", enum |-> <<"manager", "action">>],
  [interface |-> "offer", message |-> "action", arg |-> "actions", enum |-> <<"manager", "action">>],
  [interface |-> "pointer", message |-> "button", arg |-> "button", enum |-> <<"fake_enums", "button">>],
  [interface |-> "manager", message |-> "choose", arg |-> "actions", enum |-> <<"action">>]>>

Words == {
  <<"-", "g">>, <<"-", "r">>, <<"--", "g">>, <<"-", "p">>, <<"-", "l">>, <<"--", "f">>,
  <<"--", "m">>, <<"-", "r", "g">>, <<"-", "g", "r">>, <<"-", "C", "g">>, <<"-", "p", "r">>,
  <<"-", "f", "x">>, <<"-", "C", "b", "x">>, <<"-", "l", "x", "r">>, <<"--", "l", "x", "g">>,
  <<"-", "r", "r", "g">>, <<"file">>, <<"bad">>, <<"escape">>, <<"unreadable">>}

LinesOf(max) == UNION {[1..n -> Words] : n \in 0..max}

\* Short lines also of a program whose name is not what a Python string says.
MCCommandLines ==
  {<<<<line[1]>>>> \o line[2] :
     line \in ({"main"} \X LinesOf(MaxWords)) \cup ({"escape", "unreadable", "quote"} \X LinesOf(2))}

\* What the escape becomes inside GDB is no matcher.
MCBadMatchers == {<<"bad">>, <<"newline">>}

LoadFromFile == << <<"main">>, <<"-", "l">>, <<"file">> >>

(* Any files with one command line, or any command line with all interfaces   *)
(* or none that can be read.                                                  *)
MCInit ==
  /\ \/ typed = LoadFromFile /\ content \in [Files -> Contents]
     \/ typed \in CommandLines /\ content = [f \in Files |-> File(2, 2, TRUE)]
     \/ typed \in {line \in CommandLines : Len(line) <= 3} /\ content = [f \in Files |-> Broken]
  /\ Init

MCSpec == MCInit /\ [][Next]_vars
==============================================================================
