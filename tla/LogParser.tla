------------------------------ MODULE LogParser ------------------------------
(* backends/libwayland_debug_output/parse.py: reads the lines libwayland     *)
(* prints under WAYLAND_DEBUG, from a file or a pipe, and feeds them to the  *)
(* connection manager.  It opens a connection when an id first appears and   *)
(* closes all of them when the input ends.                                   *)
(*                                                                           *)
(* One iteration of parse_all is split where the manager is called, so that  *)
(* a KeyboardInterrupt can come between two calls.  What a line says is      *)
(* abstracted to how it is read: as a message of a connection, as something  *)
(* else (parse.message raises RuntimeError), or as a message with an object  *)
(* id of 0 (the assert in ObjectBase.__init__ fails).                        *)
EXTENDS ConnectionManager, Selection

CONSTANTS
  MaxLines   \* bound: lines of the input

ASSUME ParserAssumption == MaxLines \in Nat

Lines ==
  [kind : {"message"}, conn : ConnIds, payload : Payloads]
  \cup [kind : {"unprocessed", "malformed"}]

VARIABLES
  known_connections,  \* ids a connection was opened for
  parse,              \* FALSE after an exception that is not a RuntimeError
  at,                 \* where the thread is: "readline", "open", "message",
                      \* "cleanup", "done", or "killed"
  lines,              \* the lines read so far
  cleaned,            \* ids cleanup has closed
  stopped_at          \* how many lines were read when parse became FALSE

parserVars == <<known_connections, parse, at, lines, cleaned, stopped_at>>
vars == <<managerVars, parserVars>>

ParserInit ==
  /\ Init
  /\ known_connections = {}
  /\ parse = TRUE
  /\ at = "readline"
  /\ lines = <<>>
  /\ cleaned = {}
  /\ stopped_at = 0

Line == lines[Len(lines)]

(* The handler of "except Exception": from now on lines are read and parsed, *)
(* but no message is handled any more.                                       *)
StopParsing(n) ==
  /\ parse' = FALSE
  /\ stopped_at' = IF parse THEN n ELSE stopped_at

(* Mutants: the id is not remembered; the flag is not looked at.             *)
ReadLineForgetting(l) ==
  /\ at = "readline"
  /\ Len(lines) < MaxLines
  /\ lines' = Append(lines, l)
  /\ IF l.kind = "message" /\ parse THEN at' = "open" ELSE UNCHANGED at
  /\ IF l.kind = "malformed" THEN StopParsing(Len(lines) + 1)
     ELSE UNCHANGED <<parse, stopped_at>>
  /\ UNCHANGED <<managerVars, known_connections, cleaned>>

ReadLineAnyway(l) ==
  /\ at = "readline"
  /\ Len(lines) < MaxLines
  /\ lines' = Append(lines, l)
  /\ IF l.kind = "message"
     THEN /\ known_connections' = known_connections \cup {l.conn}
          /\ at' = IF l.conn \in known_connections THEN "message" ELSE "open"
     ELSE UNCHANGED <<known_connections, at>>
  /\ IF l.kind = "malformed" THEN StopParsing(Len(lines) + 1)
     ELSE UNCHANGED <<parse, stopped_at>>
  /\ UNCHANGED <<managerVars, cleaned>>

(* readline returned a line, and parse.message looked at it.                 *)
ReadLine(l) ==
  /\ at = "readline"
  /\ Len(lines) < MaxLines
  /\ lines' = Append(lines, l)
  /\ \/ /\ l.kind = "message" /\ parse
        /\ known_connections' = known_connections \cup {l.conn}
        /\ at' = IF l.conn \in known_connections THEN "message" ELSE "open"
        /\ UNCHANGED <<parse, stopped_at>>
     \/ /\ l.kind = "message" /\ ~parse
        /\ UNCHANGED <<known_connections, parse, at, stopped_at>>
     \/ /\ l.kind = "unprocessed"
        /\ UNCHANGED <<known_connections, parse, at, stopped_at>>
     \/ /\ l.kind = "malformed"
        /\ StopParsing(Len(lines) + 1)
        /\ UNCHANGED <<known_connections, at>>
  /\ UNCHANGED <<managerVars, cleaned>>

(* Mutant: the message that opens a connection is not handled itself.        *)
HandleOpenOnly ==
  /\ at = "open"
  /\ OpenConnection(Line.conn)
  /\ at' = "readline"
  /\ UNCHANGED <<known_connections, parse, lines, cleaned, stopped_at>>

HandleOpen ==
  /\ at = "open"
  /\ OpenConnection(Line.conn)
  /\ at' = "message"
  /\ UNCHANGED <<known_connections, parse, lines, cleaned, stopped_at>>

(* A RuntimeError is shown as an unprocessed line and forgotten.             *)
HandleMessage ==
  /\ at = "message"
  /\ Message(Line.conn, Line.payload)
  /\ at' = "readline"
  /\ IF raised' = "AssertionError"
     THEN StopParsing(Len(lines))
     ELSE UNCHANGED <<parse, stopped_at>>
  /\ UNCHANGED <<known_connections, lines, cleaned>>

(* Mutant: the end of the input is taken for an empty line.                  *)
EndOfInputMissed ==
  /\ at = "readline"
  /\ UNCHANGED vars

(* readline returns '' at the end of the input.                              *)
EndOfInput ==
  /\ at = "readline"
  /\ at' = "cleanup"
  /\ UNCHANGED <<managerVars, known_connections, parse, lines, cleaned, stopped_at>>

(* A KeyboardInterrupt in readline ends the input...                         *)
InterruptReading ==
  /\ at = "readline"
  /\ at' = "cleanup"
  /\ UNCHANGED <<managerVars, known_connections, parse, lines, cleaned, stopped_at>>

(* ...but anywhere else nothing catches it, and the program ends.            *)
InterruptHandling ==
  /\ at \in {"open", "message", "cleanup"}
  /\ at' = "killed"
  /\ UNCHANGED <<managerVars, known_connections, parse, lines, cleaned, stopped_at>>

(* Mutant: cleanup stops at the first.                                       *)
CleanupDoneEarly ==
  /\ at = "cleanup"
  /\ known_connections # {} => cleaned # {}
  /\ at' = "done"
  /\ UNCHANGED <<managerVars, known_connections, parse, lines, cleaned, stopped_at>>

(* One iteration of the loop in cleanup; a set has no order.                 *)
CleanupOne ==
  /\ at = "cleanup"
  /\ \E id \in known_connections \ cleaned :
       /\ CloseConnection(id)
       /\ cleaned' = cleaned \cup {id}
  /\ UNCHANGED <<known_connections, parse, at, lines, stopped_at>>

CleanupDone ==
  /\ at = "cleanup"
  /\ known_connections \subseteq cleaned
  /\ at' = "done"
  /\ UNCHANGED <<managerVars, known_connections, parse, lines, cleaned, stopped_at>>

Read == EndOfInput \/ \E l \in Lines : ReadLine(l)

Handle == HandleOpen \/ HandleMessage \/ CleanupOne \/ CleanupDone

Interrupt == InterruptReading \/ InterruptHandling

Next == Read \/ Handle \/ Interrupt

(* The thread runs whenever it can, and readline returns: the input is a     *)
(* finite file, or a pipe whose writer ends.  Nobody has to press Ctrl-C.    *)
Spec == ParserInit /\ [][Next]_vars /\ WF_vars(Read) /\ WF_vars(Handle)

------------------------------------------------------------------------------
(* Properties *)

ParserTypeOK ==
  /\ ManagerTypeOK
  /\ known_connections \subseteq ConnIds
  /\ parse \in BOOLEAN
  /\ at \in {"readline", "open", "message", "cleanup", "done", "killed"}
  /\ lines \in Seq(Lines)
  /\ cleaned \subseteq known_connections
  /\ stopped_at \in Nat
  /\ at \in {"open", "message"} => lines # <<>> /\ Line.kind = "message"

(* The parser's set of ids and the manager's dictionary, kept apart, agree   *)
(* at every call: handle_message never sends to an id that is not open (the  *)
(* assert in ConnectionManager.message) and never reopens one.               *)
KnownAreOpen ==
  /\ at \in {"readline", "message"} =>
       \A id \in ConnIds : IsOpen(id) <=> id \in known_connections
  /\ at = "open" =>
       \A id \in ConnIds : IsOpen(id) <=> id \in known_connections \ {Line.conn}
  /\ at = "message" => Line.conn \in known_connections

(* A log has one connection per id, so that a connection's name stands for   *)
(* one id in the whole session.                                              *)
OneConnectionPerId ==
  \A c, d \in Connections :
    connection_list[c].id = connection_list[d].id => c = d

(* Whatever else the input contains, and whatever handling a message raises, *)
(* each connection holds exactly the messages the input has for it, in that  *)
(* order, up to the line that made the parser stop: while the lines are read *)
(* and until the program has ended.  Of the lines read, the one in hand is   *)
(* missing until it is handled, and Ctrl-C loses no other.                   *)
NothingLost ==
  LET all == IF parse THEN Len(lines) ELSE stopped_at
      said(id, upto) ==
        Selected(lines, {i \in 1..upto : lines[i].kind = "message" /\ lines[i].conn = id})
  IN \E upto \in CASE at \in {"open", "message"} -> {all - 1}
                   [] at = "killed" /\ parse /\ cleaned = {} -> {all - 1, all}
                   [] OTHER -> {all} :
       /\ \A c \in Connections :
            LET stored == connection_list[c].stored
                asked == said(connection_list[c].id, upto)
            IN /\ Len(stored) = Len(asked)
               /\ \A n \in 1..Len(asked) : stored[n] = asked[n].payload
       /\ \A i \in 1..upto : lines[i].kind = "message" =>
            \E c \in Connections : connection_list[c].id = lines[i].conn

(* Only the loop in cleanup closes connections, and wherever Ctrl-C ends it, *)
(* each connection is either closed, which the listener was told once and    *)
(* after everything else about it, or still open and the listener was told   *)
(* nothing of it being closed.  When the program is done all are closed.     *)
ClosedByCleanup ==
  \A c \in Connections :
    LET about == {i \in 1..Len(events) : events[i].conn = c}
        closing == {i \in about : events[i].kind = "closed"}
    IN /\ at = "done" => connection_list[c].id \in cleaned
       /\ IF connection_list[c].id \in cleaned
          THEN ~connection_list[c].open /\ \E i \in about : closing = {i} /\ \A j \in about : j <= i
          ELSE connection_list[c].open /\ closing = {}

(* The parser reaches its end, whatever the lines are.                       *)
Terminates == <>(at \in {"done", "killed"})
==============================================================================
