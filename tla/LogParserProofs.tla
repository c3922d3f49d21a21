--------------------------- MODULE LogParserProofs ---------------------------
(* Theorems about parse.py: LogParser for any set of ids and messages and an *)
(* input of any length, interrupted anywhere; and what both backends make of *)
(* the arguments of a message of any length (ArgumentText).                  *)
EXTENDS LogParser, ArgumentText, ManagerProofs, SelectionProofs, FiniteSetTheorems

OwnTypes ==
  /\ raised \in {"none", "RuntimeError", "AssertionError"}
  /\ known_connections \subseteq ConnIds
  /\ parse \in BOOLEAN
  /\ at \in {"readline", "open", "message", "cleanup", "done", "killed"}
  /\ lines \in Seq(Lines)
  /\ cleaned \subseteq known_connections
  /\ stopped_at \in Nat
  /\ at \in {"open", "message"} =>
       lines # <<>> /\ Line.kind = "message" /\ Line.conn \in known_connections

(* Every connection has an id the parser knows, and one that is about to be  *)
(* opened has an id no connection has.                                       *)
IdsAreKnown ==
  \A conn \in Connections :
    /\ connection_list[conn].id \in known_connections
    /\ at = "open" => connection_list[conn].id # Line.conn

(* The inductive invariant.                                                  *)
LInv == Inv /\ OwnTypes /\ KnownAreOpen /\ IdsAreKnown /\ OneConnectionPerId

(* The id and the payload of a message line are what the manager expects.    *)
LEMMA LineTypes ==
  ASSUME OwnTypes, at \in {"open", "message"}
  PROVE  Line.conn \in ConnIds /\ Line.payload \in Payloads
<1>1. lines \in Seq(Lines) /\ lines # <<>> /\ Line.kind = "message"
  BY DEF OwnTypes
<1>2. Line \in Lines
  BY <1>1 DEF Line
<1>3. QED
  BY <1>1, <1>2 DEF Lines, OwnTypes

LEMMA ParserTypes ==
  ASSUME LInv
  PROVE  /\ connection_list \in Seq(Entry) /\ Connections = 1..Len(connection_list)
         /\ Len(connection_list) \in Nat
         /\ \A conn \in Connections : connection_list[conn] \in Entry
         /\ lines \in Seq(Lines) /\ Len(lines) \in Nat /\ stopped_at \in Nat /\ parse \in BOOLEAN
<1>1. connection_list \in Seq(Entry) /\ Connections = 1..Len(connection_list)
  BY DEF LInv, Inv, RecordsOK, Entry, Connections
<1>2. lines \in Seq(Lines) /\ stopped_at \in Nat /\ parse \in BOOLEAN
  BY DEF LInv, OwnTypes
<1> HIDE DEF Lines, Entry
<1>3. QED
  BY <1>1, <1>2

(* Steps that leave the manager alone leave its invariant alone.             *)
LEMMA ManagerUntouched ==
  ASSUME Inv, UNCHANGED managerVars
  PROVE  Inv'
  BY DEF Inv, RecordsOK, OpenIsReachable, OnlyNewestOpen, Connections, IsOpen, managerVars

(* Reading a line: its id becomes known, and at = "open" says that it is not *)
(* open yet.                                                                 *)
LEMMA ReadLineKeepsInv ==
  ASSUME LInv, NEW l \in Lines, ReadLine(l)
  PROVE  LInv'
<1>1. /\ at = "readline" /\ UNCHANGED managerVars /\ UNCHANGED cleaned
      /\ lines \in Seq(Lines) /\ lines' = Append(lines, l)
  BY DEF ReadLine, LInv, OwnTypes
<1>2. lines' \in Seq(Lines) /\ lines' # <<>> /\ Line' = l /\ Len(lines) + 1 \in Nat
  BY <1>1 DEF Line
<1>3. /\ known_connections \subseteq ConnIds
      /\ \A id \in ConnIds : IsOpen(id) <=> id \in known_connections
      /\ \A conn \in Connections : connection_list[conn].id \in known_connections
  BY <1>1 DEF LInv, OwnTypes, KnownAreOpen, IdsAreKnown
<1>4. /\ Inv' /\ OneConnectionPerId' /\ Connections' = Connections
      /\ connection_list' = connection_list
      /\ \A id \in ConnIds : IsOpen(id)' <=> IsOpen(id)
  BY <1>1, ManagerUntouched DEF LInv, managerVars, OneConnectionPerId, Connections, IsOpen
<1>5. CASE l.kind = "message" /\ parse
  <2>1. /\ known_connections' = known_connections \cup {l.conn}
        /\ at' = IF l.conn \in known_connections THEN "message" ELSE "open"
        /\ parse' = parse /\ stopped_at' = stopped_at
    BY <1>5 DEF ReadLine
  <2>2. l.conn \in ConnIds
    BY <1>5 DEF Lines
  <2>3. OwnTypes'
    BY <1>1, <1>2, <1>5, <2>1, <2>2 DEF LInv, OwnTypes, managerVars
  <2>4. KnownAreOpen'
    BY <1>2, <1>3, <1>4, <2>1, <2>2 DEF KnownAreOpen
  <2>5. IdsAreKnown'
    BY <1>2, <1>3, <1>4, <2>1, <2>2 DEF IdsAreKnown
  <2>6. QED
    BY <1>4, <2>3, <2>4, <2>5 DEF LInv
<1>6. CASE ~(l.kind = "message" /\ parse)
  <2>1. /\ known_connections' = known_connections /\ at' = "readline"
        /\ parse' \in BOOLEAN /\ stopped_at' \in Nat
    BY <1>1, <1>2, <1>6 DEF ReadLine, StopParsing, LInv, OwnTypes
  <2>2. OwnTypes'
    BY <1>1, <1>2, <2>1 DEF LInv, OwnTypes, managerVars
  <2>3. KnownAreOpen'
    BY <1>3, <1>4, <2>1 DEF KnownAreOpen
  <2>4. IdsAreKnown'
    BY <1>3, <1>4, <2>1 DEF IdsAreKnown
  <2>5. QED
    BY <1>4, <2>2, <2>3, <2>4 DEF LInv
<1>7. QED
  BY <1>5, <1>6

(* The connection of a new id is opened: no other has that id.               *)
LEMMA HandleOpenKeepsInv ==
  ASSUME LInv, HandleOpen
  PROVE  LInv'
<1> DEFINE n == Len(connection_list)
           e == [id |-> Line.conn, open |-> TRUE, stored |-> <<>>]
<1>1. /\ at = "open" /\ at' = "message" /\ OpenConnection(Line.conn)
      /\ UNCHANGED <<known_connections, parse, lines, cleaned, stopped_at>>
  BY DEF HandleOpen
<1>2. Line.conn \in ConnIds /\ Line.conn \in known_connections /\ Line' = Line
  BY <1>1, LineTypes DEF LInv, OwnTypes, Line
<1>3. Inv'
  BY <1>1, <1>2, OpenKeepsInv DEF LInv
<1>4. ~IsOpen(Line.conn)
  BY <1>1, <1>2 DEF LInv, KnownAreOpen
<1>5. /\ connection_list' = Append(connection_list, e)
      /\ open_connections' = [open_connections EXCEPT ![Line.conn] = n + 1]
      /\ raised' = "none"
  BY <1>1, <1>4 DEF OpenConnection, Closed
<1>6. /\ connection_list \in Seq(Entry) /\ open_connections \in [ConnIds -> Nat]
      /\ n \in Nat /\ Connections = 1..n
  BY DEF LInv, Inv, RecordsOK, Entry, Connections
<1>7. e \in Entry /\ e.id = Line.conn
  BY <1>2 DEF Entry
<1> HIDE DEF e
<1>8. /\ Connections' = 1..n+1 /\ connection_list'[n + 1] = e
      /\ \A conn \in 1..n : connection_list'[conn] = connection_list[conn]
  BY <1>5, <1>6, <1>7 DEF Connections
<1>9. OwnTypes'
  BY <1>1, <1>2, <1>5 DEF LInv, OwnTypes
<1>10. KnownAreOpen'
  <2>1. \A id \in ConnIds : IsOpen(id)' <=> id = Line.conn \/ IsOpen(id)
    BY <1>2, <1>5, <1>6 DEF IsOpen
  <2>2. QED
    BY <1>1, <1>2, <2>1 DEF LInv, KnownAreOpen
<1>11. IdsAreKnown'
  BY <1>1, <1>2, <1>6, <1>7, <1>8 DEF LInv, IdsAreKnown
<1>12. OneConnectionPerId'
  <2>1. \A conn \in 1..n :
          /\ connection_list'[conn].id = connection_list[conn].id
          /\ connection_list'[conn].id # connection_list'[n + 1].id
    BY <1>1, <1>6, <1>7, <1>8 DEF LInv, IdsAreKnown
  <2>2. \A conn, other \in 1..n :
          connection_list[conn].id = connection_list[other].id => conn = other
    BY <1>6 DEF LInv, OneConnectionPerId
  <2>3. \A conn \in Connections' : conn \in 1..n \/ conn = n + 1
    BY <1>6, <1>8
  <2>4. QED
    BY <2>1, <2>2, <2>3 DEF OneConnectionPerId
<1>13. QED
  BY <1>3, <1>9, <1>10, <1>11, <1>12 DEF LInv

(* A message changes no id, and opens and closes nothing.                    *)
LEMMA MessageOpensNothing ==
  ASSUME LInv, Message(Line.conn, Line.payload)
  PROVE  /\ Connections' = Connections
         /\ \A conn \in Connections :
              /\ connection_list'[conn].id = connection_list[conn].id
              /\ connection_list'[conn].open = connection_list[conn].open
<1>1. CASE MessageRefused(Line.conn)
  BY <1>1 DEF MessageRefused, Connections
<1>2. CASE MessageAccepted(Line.conn, Line.payload)
  <2> DEFINE o == open_connections[Line.conn]
             t == Append(connection_list[o].stored, Line.payload)
  <2>1. connection_list \in Seq(Entry) /\ Connections = 1..Len(connection_list)
    BY DEF LInv, Inv, RecordsOK, Entry, Connections
  <2>2. connection_list' = [connection_list EXCEPT ![o].stored = t]
    BY <1>2 DEF MessageAccepted
  <2> HIDE DEF t
  <2>3. DOMAIN connection_list = Connections /\ \A conn \in Connections : connection_list[conn] \in Entry
    BY <2>1
  <2>4. Len(connection_list') = Len(connection_list)
    BY <2>1, <2>2
  <2>5. \A conn \in Connections :
          /\ connection_list'[conn].id = connection_list[conn].id
          /\ connection_list'[conn].open = connection_list[conn].open
    BY <2>2, <2>3 DEF Entry
  <2>6. QED
    BY <2>1, <2>4, <2>5 DEF Connections
<1>3. QED
  BY <1>1, <1>2 DEF Message

LEMMA HandleMessageKeepsInv ==
  ASSUME LInv, HandleMessage
  PROVE  LInv'
<1>1. /\ at = "message" /\ at' = "readline" /\ Message(Line.conn, Line.payload)
      /\ parse' \in BOOLEAN /\ stopped_at' \in Nat
      /\ UNCHANGED <<known_connections, lines, cleaned>>
  <2>1. Len(lines) \in Nat /\ stopped_at \in Nat /\ parse \in BOOLEAN
    BY DEF LInv, OwnTypes
  <2>2. /\ parse' = FALSE \/ parse' = parse
        /\ stopped_at' = stopped_at \/ stopped_at' = Len(lines)
    BY DEF HandleMessage, StopParsing
  <2>3. QED
    BY <2>1, <2>2 DEF HandleMessage
<1>2. Line.conn \in ConnIds /\ Line.payload \in Payloads
  BY <1>1, LineTypes DEF LInv
<1>3. Inv'
  BY <1>1, <1>2, MessageKeepsInv DEF LInv
<1>4. /\ open_connections' = open_connections
      /\ raised' \in {"none", "RuntimeError", "AssertionError"}
  BY <1>1 DEF Message, MessageRefused, MessageAccepted
<1>5. /\ Connections' = Connections
      /\ \A conn \in Connections : connection_list'[conn].id = connection_list[conn].id
  BY <1>1, MessageOpensNothing
<1>6. OwnTypes'
  BY <1>1, <1>4 DEF LInv, OwnTypes
<1>7. KnownAreOpen'
  BY <1>1, <1>4 DEF LInv, KnownAreOpen, IsOpen
<1>8. IdsAreKnown' /\ OneConnectionPerId'
  BY <1>1, <1>5 DEF LInv, IdsAreKnown, OneConnectionPerId
<1>9. QED
  BY <1>3, <1>6, <1>7, <1>8 DEF LInv

(* Closing at the end changes no id.                                         *)
LEMMA CleanupKeepsInv ==
  ASSUME LInv, CleanupOne
  PROVE  LInv'
<1>1. PICK id \in known_connections \ cleaned :
        CloseConnection(id) /\ cleaned' = cleaned \cup {id}
  BY DEF CleanupOne
<1>2. at = "cleanup" /\ UNCHANGED <<known_connections, parse, at, lines, stopped_at>>
  BY DEF CleanupOne
<1>3. id \in ConnIds
  BY <1>1 DEF LInv, OwnTypes
<1>4. Inv'
  BY <1>1, <1>3, CloseKeepsInv DEF LInv
<1>5. /\ Connections' = Connections
      /\ \A conn \in Connections : connection_list'[conn].id = connection_list[conn].id
  BY <1>1, <1>3, ClosedEffect DEF LInv, CloseConnection, Connections
<1>6. OwnTypes'
  BY <1>1, <1>2 DEF LInv, OwnTypes, CloseConnection
<1>7. KnownAreOpen' /\ IdsAreKnown' /\ OneConnectionPerId'
  BY <1>2, <1>5 DEF LInv, KnownAreOpen, IdsAreKnown, OneConnectionPerId
<1>8. QED
  BY <1>4, <1>6, <1>7 DEF LInv

(* The end of the input, the end of the cleaning up, and Ctrl-C move the     *)
(* thread and change nothing else.                                           *)
LEMMA MovesKeepInv ==
  ASSUME LInv, EndOfInput \/ CleanupDone \/ Interrupt \/ UNCHANGED vars
  PROVE  LInv'
<1>1. /\ UNCHANGED <<managerVars, known_connections, parse, lines, cleaned, stopped_at>>
      /\ at' = at \/ at' \in {"cleanup", "done", "killed"}
  BY DEF EndOfInput, CleanupDone, Interrupt, InterruptReading, InterruptHandling, vars, parserVars
<1>2. Inv' /\ OneConnectionPerId'
  BY <1>1, ManagerUntouched DEF LInv, managerVars, OneConnectionPerId, Connections
<1>3. OwnTypes'
  BY <1>1 DEF LInv, OwnTypes, managerVars, Line
<1>4. KnownAreOpen' /\ IdsAreKnown'
  BY <1>1 DEF LInv, KnownAreOpen, IdsAreKnown, managerVars, IsOpen, Connections, Line
<1>5. QED
  BY <1>2, <1>3, <1>4 DEF LInv

(* The invariant holds in every state of the parser.                         *)
THEOREM ParserInvariant == Spec => []LInv
<1>1. ParserInit => LInv
  <2>1. SUFFICES ASSUME ParserInit PROVE LInv
    OBVIOUS
  <2>2. Inv
    BY <2>1 DEF ParserInit, Init, Inv, RecordsOK, OpenIsReachable, OnlyNewestOpen,
                Connections, IsOpen
  <2>3. Connections = {}
    BY <2>1 DEF ParserInit, Init, Connections
  <2>4. IdsAreKnown /\ OneConnectionPerId
    BY <2>3 DEF IdsAreKnown, OneConnectionPerId
  <2>5. OwnTypes /\ KnownAreOpen
    BY <2>1 DEF ParserInit, Init, OwnTypes, KnownAreOpen, IsOpen
  <2>6. QED
    BY <2>2, <2>4, <2>5 DEF LInv
<1>2. LInv /\ [Next]_vars => LInv'
  BY ReadLineKeepsInv, HandleOpenKeepsInv, HandleMessageKeepsInv, CleanupKeepsInv, MovesKeepInv
  DEF Next, Read, Handle
<1>3. QED
  BY <1>1, <1>2, PTL DEF Spec

(* The parser's set of ids and the manager's dictionary agree at every call. *)
THEOREM KnownStayOpen == Spec => []KnownAreOpen
<1>1. LInv => KnownAreOpen
  BY DEF LInv
<1>2. QED
  BY <1>1, ParserInvariant, PTL

(* A log has one connection per id, however long it is.                      *)
THEOREM OneConnectionEach == Spec => []OneConnectionPerId
<1>1. LInv => OneConnectionPerId
  BY DEF LInv
<1>2. QED
  BY <1>1, ParserInvariant, PTL

(* The parser is well typed, and raises nothing unexpected.                  *)
THEOREM ParserTypeCorrect == Spec => []ParserTypeOK
<1>1. LInv => ParserTypeOK
  BY DEF LInv, Inv, OwnTypes, ParserTypeOK, ManagerTypeOK
<1>2. QED
  BY <1>1, ParserInvariant, PTL

(* Whatever the input, the manager goes through steps of its own             *)
(* specification, so that all that is proved of it holds here.               *)
THEOREM ParserDrivesManager == Spec => ManagerSpec
<1>1. ParserInit => Init
  BY DEF ParserInit
<1>2. LInv /\ [Next]_vars => [ManagerNext]_managerVars
  <2> SUFFICES ASSUME LInv, [Next]_vars PROVE [ManagerNext]_managerVars
    OBVIOUS
  <2>1. CASE Read \/ CleanupDone \/ Interrupt \/ UNCHANGED vars
    BY <2>1 DEF Read, EndOfInput, ReadLine, CleanupDone, Interrupt, InterruptReading,
                InterruptHandling, vars
  <2>2. CASE HandleOpen \/ HandleMessage
    <3>1. Line.conn \in ConnIds /\ Line.payload \in Payloads
      BY <2>2, LineTypes DEF HandleOpen, HandleMessage, LInv
    <3>2. QED
      BY <2>2, <3>1 DEF HandleOpen, HandleMessage, ManagerNext
  <2>3. CASE CleanupOne
    <3>1. PICK id \in known_connections : CloseConnection(id)
      BY <2>3 DEF CleanupOne
    <3>2. id \in ConnIds
      BY <3>1 DEF LInv, OwnTypes
    <3>3. QED
      BY <3>1, <3>2 DEF ManagerNext
  <2>4. QED
    BY <2>1, <2>2, <2>3 DEF Next, Handle
<1>3. QED
  BY <1>1, <1>2, ParserInvariant, PTL DEF Spec, ManagerSpec

(* What cleanup has closed stays closed, nothing else is closed, and cleanup  *)
(* ends when that is all.                                                    *)
CleanedAreClosed ==
  /\ at \notin {"cleanup", "done", "killed"} => cleaned = {}
  /\ \A id \in cleaned : ~IsOpen(id)
  /\ \A conn \in Connections :
       connection_list[conn].id \notin cleaned => connection_list[conn].open
  /\ at = "done" => known_connections \subseteq cleaned

LEMMA StepKeepsCleaned ==
  ASSUME LInv, CleanedAreClosed, [Next]_vars
  PROVE  CleanedAreClosed'
<1>1. CASE Read
  <2>1. /\ at = "readline" /\ at' # "done"
        /\ UNCHANGED <<cleaned, connection_list, open_connections>>
    BY <1>1 DEF Read, ReadLine, EndOfInput, managerVars
  <2>2. QED
    BY <2>1 DEF CleanedAreClosed, IsOpen, Connections
<1>2. CASE HandleOpen
  <2> DEFINE n == Len(connection_list)
             e == [id |-> Line.conn, open |-> TRUE, stored |-> <<>>]
  <2>1. cleaned = {} /\ cleaned' = {} /\ at' # "done" /\ at = "open"
    BY <1>2 DEF HandleOpen, CleanedAreClosed
  <2>2. ~IsOpen(Line.conn)
    BY <2>1, LineTypes DEF LInv, KnownAreOpen
  <2>3. connection_list' = Append(connection_list, e)
    BY <1>2, <2>2 DEF HandleOpen, OpenConnection, Closed
  <2>4. connection_list \in Seq(Entry) /\ n \in Nat /\ Connections = 1..n
    BY ParserTypes
  <2>5. e.open
    OBVIOUS
  <2> HIDE DEF e
  <2>6. /\ Connections' = 1..n+1 /\ connection_list'[n + 1] = e
        /\ \A conn \in 1..n : connection_list'[conn] = connection_list[conn]
    BY <2>3, <2>4 DEF Connections
  <2>7. \A conn \in Connections' : connection_list'[conn].open
    <3>1. \A conn \in Connections' : conn \in 1..n \/ conn = n + 1
      BY <2>4, <2>6
    <3>2. QED
      BY <2>1, <2>4, <2>5, <2>6, <3>1 DEF CleanedAreClosed
  <2>8. QED
    BY <2>1, <2>7 DEF CleanedAreClosed
<1>3. CASE HandleMessage
  <2>1. cleaned = {} /\ cleaned' = {} /\ at' # "done" /\ Message(Line.conn, Line.payload)
    BY <1>3 DEF HandleMessage, CleanedAreClosed
  <2>2. QED
    BY <2>1, MessageOpensNothing DEF CleanedAreClosed
<1>4. CASE CleanupOne
  <2>1. PICK id \in known_connections \ cleaned :
          CloseConnection(id) /\ cleaned' = cleaned \cup {id}
    BY <1>4 DEF CleanupOne
  <2>2. at = "cleanup" /\ at' = "cleanup"
    BY <1>4 DEF CleanupOne
  <2>3. id \in ConnIds /\ cleaned \subseteq ConnIds /\ open_connections \in [ConnIds -> Nat]
    BY <2>1 DEF LInv, OwnTypes, Inv, RecordsOK
  <2>4. open_connections' = [open_connections EXCEPT ![id] = 0]
    BY <2>1 DEF CloseConnection
  <2>5. /\ Connections' = Connections
        /\ \A conn \in Connections :
             /\ connection_list'[conn].id = connection_list[conn].id
             /\ connection_list'[conn].open <=>
                  connection_list[conn].open /\ connection_list[conn].id # id
    BY <2>1, <2>3, ClosedEffect DEF LInv, CloseConnection, Connections
  <2>6. \A other \in cleaned' : ~IsOpen(other)'
    BY <2>1, <2>3, <2>4 DEF CleanedAreClosed, IsOpen
  <2>7. QED
    BY <2>1, <2>2, <2>5, <2>6 DEF CleanedAreClosed
<1>5. CASE CleanupDone \/ Interrupt \/ UNCHANGED vars
  <2>1. /\ UNCHANGED <<connection_list, open_connections, cleaned, known_connections>>
        /\ at' = at \/ at' \in {"cleanup", "killed"} \/ (at' = "done" /\ known_connections \subseteq cleaned)
    BY <1>5 DEF CleanupDone, Interrupt, InterruptReading, InterruptHandling, vars, parserVars, managerVars
  <2>2. QED
    BY <2>1 DEF CleanedAreClosed, IsOpen, Connections
<1>6. QED
  BY <1>1, <1>2, <1>3, <1>4, <1>5 DEF Next, Handle

THEOREM CleanedStayClosed == Spec => []CleanedAreClosed
<1>1. ParserInit => CleanedAreClosed
  BY DEF ParserInit, Init, CleanedAreClosed, Connections
<1>2. LInv /\ CleanedAreClosed /\ [Next]_vars => CleanedAreClosed'
  BY StepKeepsCleaned
<1>3. QED
  BY <1>1, <1>2, ParserInvariant, PTL DEF Spec

(* Only cleanup closes connections, and wherever Ctrl-C ends it, those that  *)
(* were closed were told to be closed, once and last, and no others; when    *)
(* the program is done those are all.                                        *)
THEOREM OnlyCleanupCloses == Spec => []ClosedByCleanup
<1>1. LInv /\ CleanedAreClosed /\ ClosingIsTold => ClosedByCleanup
  <2> DEFINE about(conn) == {x \in 1..Len(events) : events[x].conn = conn}
             closing(conn) == {x \in about(conn) : events[x].kind = "closed"}
  <2>1. SUFFICES ASSUME LInv, CleanedAreClosed, ClosingIsTold, NEW conn \in Connections
                 PROVE  /\ at = "done" => connection_list[conn].id \in cleaned
                        /\ IF connection_list[conn].id \in cleaned
                           THEN /\ ~connection_list[conn].open
                                /\ \E x \in about(conn) :
                                     closing(conn) = {x} /\ \A j \in about(conn) : j <= x
                           ELSE connection_list[conn].open /\ closing(conn) = {}
    BY DEF ClosedByCleanup
  <2>2. at = "done" => connection_list[conn].id \in cleaned
    BY <2>1 DEF LInv, IdsAreKnown, CleanedAreClosed
  <2>3. conn # 0 /\ conn \in 1..Len(connection_list)
    BY <2>1 DEF Connections
  <2>4. CASE connection_list[conn].id \in cleaned
    <3>1. open_connections[connection_list[conn].id] = 0
      BY <2>1, <2>4 DEF CleanedAreClosed, IsOpen
    <3>2. ~connection_list[conn].open
      BY <2>1, <2>3, <3>1 DEF LInv, Inv, OpenIsReachable
    <3>3. PICK x \in 1..Len(events) :
            /\ events[x].kind = "closed" /\ events[x].conn = conn
            /\ \A j \in 1..Len(events) : events[j].conn = conn /\ j # x =>
                 j < x /\ events[j].kind # "closed"
      BY <2>1, <2>3, <3>2 DEF ClosingIsTold, EndsTold
    <3>4. x \in about(conn) /\ closing(conn) = {x} /\ \A j \in about(conn) : j <= x
      BY <3>3
    <3>5. QED
      BY <2>2, <2>4, <3>2, <3>4
  <2>5. CASE connection_list[conn].id \notin cleaned
    <3>1. connection_list[conn].open
      BY <2>1, <2>5 DEF CleanedAreClosed
    <3>2. \A x \in about(conn) : events[x].kind # "closed"
      BY <2>1, <3>1 DEF ClosingIsTold, EndsTold
    <3>3. QED
      BY <2>2, <2>5, <3>1, <3>2
  <2>6. QED
    BY <2>4, <2>5
<1>2. Spec => []ClosingIsTold
  BY ParserDrivesManager, ClosingAlwaysTold, PTL
<1>3. QED
  BY <1>1, <1>2, CleanedStayClosed, ParserInvariant, PTL
------------------------------------------------------------------------------
(* Every message of the input reaches its connection *)

(* How much of the input has been handled.                                   *)
HandledLines ==
  IF at \in {"open", "message"} THEN Len(lines) - 1
  ELSE IF parse THEN Len(lines) ELSE stopped_at

(* Where the first n of the lines ls have messages of the id.                *)
PlacesOf(ls, id, n) == {x \in 1..n : ls[x].kind = "message" /\ ls[x].conn = id}

SaidTo(ls, id, n) == Selected(ls, PlacesOf(ls, id, n))

(* A connection has stored what the lines say.                               *)
HasStored(conn, said) ==
  /\ Len(conn.stored) = Len(said)
  /\ \A n \in 1..Len(said) : conn.stored[n] = said[n].payload

HasAll(cs, ls, n) ==
  /\ \A conn \in 1..Len(cs) : HasStored(cs[conn], SaidTo(ls, cs[conn].id, n))
  /\ \A x \in 1..n : ls[x].kind = "message" => \E conn \in 1..Len(cs) : cs[conn].id = ls[x].conn

CountsOK ==
  /\ stopped_at <= Len(lines)
  /\ at \in {"open", "message"} => parse

(* After Ctrl-C outside readline, the last line may be missing.              *)
LeftBehind ==
  IF parse /\ cleaned = {} THEN {Len(lines) - 1, Len(lines)} ELSE {HandledLines}

LostInv ==
  /\ CountsOK
  /\ at # "killed" => HasAll(connection_list, lines, HandledLines)
  /\ at = "killed" => \E n \in LeftBehind : HasAll(connection_list, lines, n)

LEMMA LostDef ==
  ASSUME LostInv
  PROVE  NothingLost
<1> DEFINE all == IF parse THEN Len(lines) ELSE stopped_at
           uptos == CASE at \in {"open", "message"} -> {all - 1}
                      [] at = "killed" /\ parse /\ cleaned = {} -> {all - 1, all}
                      [] OTHER -> {all}
<1>1. PICK n \in uptos : HasAll(connection_list, lines, n)
  <2>1. CASE at = "killed"
    <3>1. PICK n \in LeftBehind : HasAll(connection_list, lines, n)
      BY <2>1 DEF LostInv
    <3>2. n \in uptos
      BY <2>1, <3>1 DEF LeftBehind, HandledLines
    <3>3. QED
      BY <3>1, <3>2
  <2>2. CASE at # "killed"
    <3>1. HandledLines \in uptos
      BY <2>2 DEF HandledLines, LostInv, CountsOK
    <3>2. QED
      BY <2>2, <3>1 DEF LostInv
  <2>3. QED
    BY <2>1, <2>2
<1>2. QED
  BY <1>1, Zenon DEF NothingLost, HasAll, SaidTo, PlacesOf, HasStored, Connections

(* A line that is not a message of the id says nothing to it.                *)
LEMMA LineSaysNothing ==
  ASSUME NEW ls \in Seq(Lines), NEW l \in Lines, NEW id, NEW n \in Nat, NEW m \in Nat,
         n <= Len(ls), n <= m, m <= Len(ls) + 1,
         m = n \/ (n = Len(ls) /\ m = n + 1 /\ ~(l.kind = "message" /\ l.conn = id))
  PROVE  SaidTo(Append(ls, l), id, m) = SaidTo(ls, id, n)
<1> DEFINE t == Append(ls, l)
           P == PlacesOf(ls, id, n)
           Q == PlacesOf(t, id, m)
           k == Len(ls)
<1>1. k \in Nat /\ t[k + 1] = l /\ \A x \in 1..k : t[x] = ls[x]
  OBVIOUS
<1> HIDE DEF t
<1>2. \A x \in 1..k : x \in P <=> x \in Q
  BY <1>1 DEF PlacesOf
<1>3. k + 1 \notin Q
  BY <1>1 DEF PlacesOf
<1> HIDE DEF P, Q
<1>4. Selected(t, Q) = IF k + 1 \in Q THEN Append(Selected(ls, P), l) ELSE Selected(ls, P)
  BY <1>2, SelectedAppend DEF t
<1>5. QED
  BY <1>3, <1>4 DEF SaidTo, t, P, Q

(* The last line is a message of one id.                                     *)
LEMMA LastLineSays ==
  ASSUME NEW ls \in Seq(Lines), ls # <<>>, NEW id,
         ls[Len(ls)].kind = "message"
  PROVE  SaidTo(ls, id, Len(ls)) =
           IF ls[Len(ls)].conn = id
           THEN Append(SaidTo(ls, id, Len(ls) - 1), ls[Len(ls)])
           ELSE SaidTo(ls, id, Len(ls) - 1)
<1> DEFINE n == Len(ls)
           P == PlacesOf(ls, id, n - 1)
           Q == PlacesOf(ls, id, n)
<1>1. n \in Nat /\ n \in 1..n
  OBVIOUS
<1>2. SameUpTo(ls, P, ls, Q, n - 1) /\ n \notin P
  BY <1>1 DEF SameUpTo, PlacesOf
<1>3. n \in Q <=> ls[n].conn = id
  BY <1>1 DEF PlacesOf
<1> HIDE DEF P, Q
<1>4. Selected(ls, Q) = IF n \in Q THEN Append(Selected(ls, P), ls[n]) ELSE Selected(ls, P)
  BY <1>2, SelectedLast
<1>5. QED
  BY <1>3, <1>4 DEF SaidTo, P, Q

LEMMA SaidType ==
  ASSUME NEW ls \in Seq(Lines), NEW id, NEW n
  PROVE  SaidTo(ls, id, n) \in Seq(Lines)
BY SelectedType DEF SaidTo

(* A new line that is not handled yet, or that is no message, takes nothing  *)
(* away.                                                                     *)
LEMMA LineTakesNothing ==
  ASSUME NEW cs, NEW ls \in Seq(Lines), NEW l \in Lines, NEW n \in Nat, NEW m \in Nat,
         n <= Len(ls), m = n \/ (n = Len(ls) /\ m = n + 1 /\ l.kind # "message"),
         HasAll(cs, ls, n)
  PROVE  HasAll(cs, Append(ls, l), m)
<1> DEFINE t == Append(ls, l)
           k == Len(ls)
<1>1. k \in Nat /\ t[k + 1] = l /\ \A x \in 1..k : t[x] = ls[x]
  OBVIOUS
<1>2. n <= m /\ m <= Len(ls) + 1
  BY <1>1
<1>3. ASSUME NEW id PROVE SaidTo(t, id, m) = SaidTo(ls, id, n)
  BY <1>2, LineSaysNothing
<1> HIDE DEF t
<1>4. \A conn \in 1..Len(cs) : HasStored(cs[conn], SaidTo(t, cs[conn].id, m))
  BY <1>3 DEF HasAll
<1>5. ASSUME NEW x \in 1..m, t[x].kind = "message"
      PROVE  \E conn \in 1..Len(cs) : cs[conn].id = t[x].conn
  <2>1. x \in 1..n /\ t[x] = ls[x]
    BY <1>1, <1>5
  <2>2. QED
    BY <1>5, <2>1 DEF HasAll
<1>6. QED
  BY <1>4, <1>5 DEF HasAll, t

LEMMA ReadLineLosesNothing ==
  ASSUME LInv, LostInv, NEW l \in Lines, ReadLine(l)
  PROVE  LostInv'
<1> DEFINE n == HandledLines
           k == Len(lines)
<1>1. /\ lines \in Seq(Lines) /\ k \in Nat /\ stopped_at \in Nat /\ parse \in BOOLEAN
      /\ at = "readline" /\ connection_list' = connection_list /\ lines' = Append(lines, l)
      /\ stopped_at <= k /\ HasAll(connection_list, lines, n)
  BY ParserTypes DEF ReadLine, managerVars, LostInv, CountsOK
<1>2. n = IF parse THEN k ELSE stopped_at
  BY <1>1 DEF HandledLines
<1>3. Len(lines') = k + 1
  BY <1>1
<1>4. CASE l.kind = "message" /\ parse
  <2>1. at' \in {"open", "message"} /\ parse' = parse /\ stopped_at' = stopped_at
    BY <1>4 DEF ReadLine
  <2>2. HandledLines' = k /\ n = k
    BY <1>1, <1>2, <1>3, <1>4, <2>1 DEF HandledLines
  <2>3. HasAll(connection_list, lines', k)
    BY <1>1, <2>2, LineTakesNothing
  <2>4. QED
    BY <1>1, <1>3, <1>4, <2>1, <2>2, <2>3 DEF LostInv, CountsOK
<1>5. CASE l.kind # "message" /\ parse
  <2>1. at' = "readline"
    BY <1>1, <1>5 DEF ReadLine
  <2>2. \/ stopped_at' = stopped_at /\ parse'
        \/ stopped_at' = k + 1 /\ ~parse'
    <3>1. CASE l.kind = "unprocessed"
      BY <1>5, <3>1, Zenon DEF ReadLine
    <3>2. CASE l.kind = "malformed"
      BY <1>5, <3>2, Zenon DEF ReadLine, StopParsing
    <3>3. QED
      BY <1>5, <3>1, <3>2 DEF ReadLine
  <2>3. HandledLines' = k + 1 /\ n = k
    BY <1>1, <1>2, <1>3, <1>5, <2>1, <2>2 DEF HandledLines
  <2>4. HasAll(connection_list, lines', k + 1)
    BY <1>1, <1>5, <2>3, LineTakesNothing
  <2>5. QED
    BY <1>1, <1>3, <2>1, <2>2, <2>3, <2>4 DEF LostInv, CountsOK
<1>6. CASE ~parse
  <2>1. at' = "readline" /\ parse' = FALSE /\ stopped_at' = stopped_at
    BY <1>1, <1>6 DEF ReadLine, StopParsing
  <2>2. HandledLines' = stopped_at /\ n = stopped_at
    BY <1>2, <1>6, <2>1 DEF HandledLines
  <2>3. HasAll(connection_list, lines', stopped_at)
    BY <1>1, <2>2, LineTakesNothing
  <2>4. QED
    BY <1>1, <1>3, <2>1, <2>2, <2>3 DEF LostInv, CountsOK
<1>7. QED
  BY <1>1, <1>4, <1>5, <1>6

(* The connection of a new id is opened: nothing was said to it yet.         *)
LEMMA OpenLosesNothing ==
  ASSUME LInv, LostInv, HandleOpen
  PROVE  LostInv'
<1> DEFINE n == HandledLines
           k == Len(connection_list)
           e == [id |-> Line.conn, open |-> TRUE, stored |-> <<>>]
<1>1. /\ at = "open" /\ at' = "message" /\ OpenConnection(Line.conn)
      /\ UNCHANGED <<parse, lines, stopped_at>>
  BY DEF HandleOpen
<1>2. Line.conn \in ConnIds /\ Line.conn \in known_connections
  BY <1>1, LineTypes DEF LInv, OwnTypes
<1>3. ~IsOpen(Line.conn)
  BY <1>1, <1>2 DEF LInv, KnownAreOpen
<1>4. connection_list' = Append(connection_list, e)
  BY <1>1, <1>3 DEF OpenConnection, Closed
<1>5. /\ connection_list \in Seq(Entry) /\ k \in Nat /\ Connections = 1..k
      /\ lines \in Seq(Lines) /\ Len(lines) \in Nat
      /\ CountsOK /\ HasAll(connection_list, lines, n)
  BY <1>1, ParserTypes DEF LostInv
<1>6. n \in Int /\ n <= Len(lines) /\ HandledLines' = n
  BY <1>1, <1>5 DEF HandledLines
<1>7. e \in Entry /\ e.id = Line.conn /\ e.stored = <<>>
  BY <1>2 DEF Entry
<1> HIDE DEF e, n
<1>8. /\ Len(connection_list') = k + 1 /\ connection_list'[k + 1] = e
      /\ \A conn \in 1..k : connection_list'[conn] = connection_list[conn]
  BY <1>4, <1>5, <1>7
<1>9. SaidTo(lines, Line.conn, n) = <<>>
  <2>1. \A conn \in 1..k : connection_list[conn].id # Line.conn
    BY <1>1, <1>5 DEF LInv, IdsAreKnown
  <2>2. PlacesOf(lines, Line.conn, n) = {}
    <3>1. ASSUME NEW x \in 1..n, lines[x].kind = "message", lines[x].conn = Line.conn
          PROVE  FALSE
      BY <1>5, <2>1, <3>1 DEF HasAll
    <3>2. QED
      BY <3>1 DEF PlacesOf
  <2>3. QED
    BY <1>5, <2>2, SelectedNone DEF SaidTo
<1>10. ASSUME NEW conn \in 1..k+1
       PROVE  HasStored(connection_list'[conn], SaidTo(lines, connection_list'[conn].id, n))
  <2>1. CASE conn = k + 1
    <3>1. HasStored(e, <<>>)
      BY <1>7 DEF HasStored
    <3>2. QED
      BY <1>7, <1>8, <1>9, <2>1, <3>1
  <2>2. CASE conn \in 1..k
    BY <1>5, <1>8, <2>2 DEF HasAll
  <2>3. QED
    BY <1>5, <2>1, <2>2
<1>11. ASSUME NEW x \in 1..n, lines[x].kind = "message"
       PROVE  \E conn \in 1..k+1 : connection_list'[conn].id = lines[x].conn
  <2>1. PICK conn \in 1..k : connection_list[conn].id = lines[x].conn
    BY <1>5, <1>11 DEF HasAll
  <2>2. QED
    BY <1>5, <1>8, <2>1
<1>12. HasAll(connection_list', lines, n)
  BY <1>8, <1>10, <1>11 DEF HasAll
<1>13. CountsOK'
  BY <1>1, <1>5 DEF CountsOK
<1>14. QED
  BY <1>1, <1>6, <1>12, <1>13 DEF LostInv

(* The message of the last line is stored in the one connection of its id,   *)
(* whatever handling it raises.                                              *)
LEMMA MessageIsStored ==
  ASSUME LInv, LostInv, HandleMessage
  PROVE  LostInv'
<1> DEFINE n == Len(lines)
           o == open_connections[Line.conn]
           old == connection_list[o].stored
           t == Append(old, Line.payload)
<1>1. /\ at = "message" /\ at' = "readline" /\ Message(Line.conn, Line.payload)
      /\ UNCHANGED lines
      /\ \/ parse' = FALSE /\ stopped_at' = IF parse THEN n ELSE stopped_at
         \/ UNCHANGED <<parse, stopped_at>>
  BY DEF HandleMessage, StopParsing
<1>2. /\ connection_list \in Seq(Entry) /\ Connections = 1..Len(connection_list)
      /\ \A conn \in Connections : connection_list[conn] \in Entry
      /\ lines \in Seq(Lines) /\ n \in Nat /\ stopped_at \in Nat
      /\ CountsOK /\ HasAll(connection_list, lines, n - 1)
  <2>1. HandledLines = n - 1
    BY <1>1 DEF HandledLines
  <2>2. QED
    BY <1>1, <2>1, ParserTypes DEF LostInv
<1>3. /\ lines # <<>> /\ Line = lines[n] /\ Line.kind = "message"
      /\ Line.conn \in ConnIds /\ Line.payload \in Payloads
  BY <1>1, LineTypes DEF LInv, OwnTypes, Line
<1>4. parse /\ HandledLines' = n
  BY <1>1, <1>2 DEF HandledLines, CountsOK
<1>5. CountsOK'
  <2>1. stopped_at' \in {stopped_at, n}
    BY <1>1, <1>4
  <2>2. QED
    BY <1>1, <1>2, <2>1 DEF CountsOK
<1>6. IsOpen(Line.conn) /\ MessageAccepted(Line.conn, Line.payload)
  BY <1>1, <1>3 DEF LInv, KnownAreOpen, Message, MessageRefused
<1>7. /\ connection_list' = [connection_list EXCEPT ![o].stored = t]
      /\ o \in Connections /\ connection_list[o].id = Line.conn
  BY <1>3, <1>6 DEF MessageAccepted, LInv, Inv, OpenIsReachable
<1>8. connection_list[o] \in Entry /\ old \in Seq(Payloads)
  <2>1. connection_list[o] \in Entry
    BY <1>2, <1>7
  <2>2. QED
    BY <2>1 DEF Entry
<1> HIDE DEF t
<1>9. /\ Len(connection_list') = Len(connection_list)
      /\ connection_list'[o].id = Line.conn /\ connection_list'[o].stored = t
      /\ \A conn \in Connections : conn # o => connection_list'[conn] = connection_list[conn]
  BY <1>2, <1>7, <1>8 DEF Entry
<1>10. \A conn \in Connections : conn # o => connection_list[conn].id # Line.conn
  BY <1>7 DEF LInv, OneConnectionPerId
<1> HIDE DEF old, o
<1>11. HasStored(connection_list'[o], SaidTo(lines, Line.conn, n))
  <2> DEFINE said == SaidTo(lines, Line.conn, n - 1)
  <2>1. said \in Seq(Lines)
    BY <1>2, SaidType
  <2>2. Line \in Lines
    BY <1>2, <1>3
  <2>3. SaidTo(lines, Line.conn, n) = Append(said, Line)
    BY <1>2, <1>3, LastLineSays
  <2>4. Len(old) = Len(said) /\ \A x \in 1..Len(said) : old[x] = said[x].payload
    BY <1>2, <1>7 DEF HasAll, HasStored, old
  <2> HIDE DEF said
  <2>5. /\ Len(t) = Len(old) + 1 /\ Len(Append(said, Line)) = Len(said) + 1
        /\ t[Len(old) + 1] = Line.payload /\ Append(said, Line)[Len(said) + 1] = Line
        /\ \A x \in 1..Len(old) : t[x] = old[x]
        /\ \A x \in 1..Len(said) : Append(said, Line)[x] = said[x]
    <3> HIDE DEF Lines
    <3>1. /\ Len(t) = Len(old) + 1 /\ t[Len(old) + 1] = Line.payload
          /\ \A x \in 1..Len(old) : t[x] = old[x]
      BY <1>3, <1>8 DEF t
    <3>2. /\ Len(Append(said, Line)) = Len(said) + 1
          /\ Append(said, Line)[Len(said) + 1] = Line
          /\ \A x \in 1..Len(said) : Append(said, Line)[x] = said[x]
      BY <2>1, <2>2
    <3>3. QED
      BY <3>1, <3>2
  <2> DEFINE s == Append(said, Line)
  <2> HIDE DEF s
  <2>6. ASSUME NEW x \in 1..Len(s)
        PROVE  t[x] = s[x].payload
    <3>1. CASE x = Len(said) + 1
      BY <2>4, <2>5, <3>1 DEF s
    <3>2. CASE x \in 1..Len(said)
      BY <2>4, <2>5, <3>2 DEF s
    <3>3. Len(said) \in Nat
      BY <2>1
    <3>4. QED
      BY <2>5, <2>6, <3>1, <3>2, <3>3 DEF s
  <2>7. QED
    BY <1>9, <2>3, <2>4, <2>5, <2>6 DEF HasStored, s
<1>12. ASSUME NEW conn \in Connections
       PROVE  HasStored(connection_list'[conn], SaidTo(lines, connection_list'[conn].id, n))
  <2>1. CASE conn = o
    BY <1>9, <1>11, <2>1
  <2>2. CASE conn # o
    <3>1. connection_list'[conn] = connection_list[conn] /\ connection_list[conn].id # Line.conn
      BY <1>9, <1>10, <2>2
    <3>2. SaidTo(lines, connection_list[conn].id, n) = SaidTo(lines, connection_list[conn].id, n - 1)
      BY <1>2, <1>3, <3>1, LastLineSays
    <3>3. QED
      BY <1>2, <3>1, <3>2 DEF HasAll
  <2>3. QED
    BY <2>1, <2>2
<1>13. ASSUME NEW x \in 1..n, lines[x].kind = "message"
       PROVE  \E conn \in Connections : connection_list'[conn].id = lines[x].conn
  <2>1. CASE x = n
    BY <1>3, <1>7, <1>9, <2>1 DEF o
  <2>2. CASE x # n
    <3>1. x \in 1..n-1
      BY <1>2, <2>2
    <3>2. PICK conn \in Connections : connection_list[conn].id = lines[x].conn
      BY <1>2, <1>13, <3>1 DEF HasAll
    <3>3. connection_list'[conn].id = connection_list[conn].id
      BY <1>7, <1>9 DEF o
    <3>4. QED
      BY <3>2, <3>3
  <2>3. QED
    BY <2>1, <2>2
<1>14. HasAll(connection_list', lines, n)
  BY <1>2, <1>9, <1>12, <1>13 DEF HasAll
<1>15. QED
  BY <1>1, <1>4, <1>5, <1>14 DEF LostInv

(* Closing connections takes no message from them.                           *)
LEMMA CleanupLosesNothing ==
  ASSUME LInv, LostInv, CleanupOne
  PROVE  LostInv'
<1>1. PICK id \in known_connections \ cleaned : CloseConnection(id)
  BY DEF CleanupOne
<1>2. at = "cleanup" /\ UNCHANGED <<parse, at, lines, stopped_at>>
  BY DEF CleanupOne
<1>3. id \in ConnIds
  BY <1>1 DEF LInv, OwnTypes
<1>4. /\ Len(connection_list') = Len(connection_list)
      /\ \A conn \in 1..Len(connection_list) :
           /\ connection_list'[conn].id = connection_list[conn].id
           /\ connection_list'[conn].stored = connection_list[conn].stored
  BY <1>1, <1>3, ClosedEffect DEF LInv, CloseConnection, Connections
<1>5. HasAll(connection_list, lines, HandledLines) /\ HandledLines' = HandledLines
  BY <1>2 DEF LostInv, HandledLines
<1>6. HasAll(connection_list', lines, HandledLines)
  BY <1>4, <1>5 DEF HasAll, HasStored
<1>7. QED
  BY <1>2, <1>5, <1>6 DEF LostInv, CountsOK

(* Whatever else the input contains and whatever handling a message raises,  *)
(* each connection holds exactly the messages the input has for it, in       *)
(* order, up to the line that made the parser stop; Ctrl-C loses no other    *)
(* than the one in hand.                                                     *)
THEOREM NothingIsLost == Spec => []NothingLost
<1>1. ParserInit => LostInv
  <2> SUFFICES ASSUME ParserInit PROVE LostInv
    OBVIOUS
  <2>1. lines = <<>> /\ connection_list = <<>> /\ parse = TRUE /\ at = "readline" /\ stopped_at = 0
    BY DEF ParserInit, Init
  <2>2. HandledLines = 0 /\ Len(lines) = 0
    BY <2>1 DEF HandledLines
  <2>3. QED
    BY <2>1, <2>2 DEF LostInv, CountsOK, HasAll
<1>2. LInv /\ CleanedAreClosed /\ LostInv /\ [Next]_vars => LostInv'
  <2> SUFFICES ASSUME LInv, CleanedAreClosed, LostInv, [Next]_vars PROVE LostInv'
    OBVIOUS
  <2>1. CASE EndOfInput \/ CleanupDone \/ InterruptReading
    <3>1. /\ at \notin {"open", "message", "killed"} /\ at' \notin {"open", "message", "killed"}
          /\ UNCHANGED <<managerVars, parse, lines, stopped_at>>
      BY <2>1 DEF EndOfInput, CleanupDone, InterruptReading
    <3>2. HandledLines' = HandledLines
      BY <3>1 DEF HandledLines
    <3>3. QED
      BY <3>1, <3>2, Zenon DEF LostInv, CountsOK, managerVars
  <2>2. CASE InterruptHandling
    <3>1. /\ at \in {"open", "message", "cleanup"} /\ at' = "killed"
          /\ UNCHANGED <<connection_list, cleaned, parse, lines, stopped_at>>
      BY <2>2 DEF InterruptHandling, managerVars
    <3>2. HasAll(connection_list, lines, HandledLines) /\ CountsOK
      BY <3>1 DEF LostInv
    <3>3. HandledLines \in LeftBehind'
      BY <3>1, <3>2 DEF LeftBehind, HandledLines, CountsOK, CleanedAreClosed
    <3>4. CountsOK'
      BY <3>1, <3>2 DEF CountsOK
    <3>5. QED
      BY <3>1, <3>2, <3>3, <3>4, Zenon DEF LostInv
  <2>3. CASE CleanupOne
    BY <2>3, CleanupLosesNothing
  <2>4. CASE UNCHANGED vars
    BY <2>4, Zenon DEF vars, parserVars, managerVars, LostInv, LeftBehind, CountsOK, HandledLines
  <2>5. QED
    BY <2>1, <2>2, <2>3, <2>4, ReadLineLosesNothing, OpenLosesNothing, MessageIsStored
       DEF Next, Read, Handle, Interrupt
<1>3. LostInv => NothingLost
  BY LostDef
<1>4. QED
  BY <1>1, <1>2, <1>3, CleanedStayClosed, ParserInvariant, PTL DEF Spec

------------------------------------------------------------------------------
(* The arguments of a message *)

(* The places of the characters that are types, and the slots up to each      *)
(* character.                                                                 *)
Types == {k \in 1..Len(signature) : IsType(signature[k])}

Upto == SelectedUpTo(signature, Types)

(* As many arguments as types were dealt with, and the next one is read from  *)
(* its own slot as long as no array has changed the count.                    *)
ExtractInv ==
  /\ signature \in Seq(Char) /\ c \in 0..Len(signature) /\ i \in Nat
  /\ args \in Seq([code : TypeCodes, slot : Nat])
  /\ Len(args) = Len(Upto[c])
  /\ \A k \in 1..Len(args) : Harmless(k) => args[k] = [code |-> Slots[k].code, slot |-> k - 1]
  /\ Harmless(Len(args) + 1) => i = Len(args) /\ ~failed

(* The slots: one more for each type, which stays where it is.                *)
LEMMA SlotsAre ==
  ASSUME signature \in Seq(Char)
  PROVE  /\ Slots = Selected(signature, Types) /\ Slots \in Seq(Char) /\ Len(Slots) \in Nat
         /\ Len(signature) \in Nat /\ \A k \in 1..Len(Slots) : IsType(Slots[k])
         /\ Upto[0] = <<>> /\ Upto[Len(signature)] = Slots
         /\ \A n \in 0..Len(signature) : Len(Upto[n]) \in Nat /\ Len(Upto[n]) <= Len(Slots)
         /\ \A n \in 1..Len(signature) :
              IF IsType(signature[n])
              THEN Len(Upto[n]) = Len(Upto[n - 1]) + 1 /\ Slots[Len(Upto[n])] = signature[n]
              ELSE Len(Upto[n]) = Len(Upto[n - 1])
<1>1. Types = {k \in DOMAIN signature : IsType(signature[k])} /\ Len(signature) \in Nat
  BY DEF Types
<1>2. Slots = Selected(signature, Types)
  BY <1>1 DEF Slots
<1>3. Slots \in Seq(Char)
  BY <1>2, SelectedType
<1>4. Upto[0] = <<>> /\ Upto \in [0..Len(signature) -> Seq(Char)] /\ Upto[Len(signature)] = Slots
      /\ \A n \in 1..Len(signature) :
           Upto[n] = IF n \in Types THEN Append(Upto[n - 1], signature[n]) ELSE Upto[n - 1]
  BY <1>2, SelectedStep DEF Upto, Selected
<1>5. ASSUME NEW n \in 0..Len(signature)
      PROVE  /\ Upto[n] \in Seq(Char) /\ Len(Upto[n]) \in Nat /\ Len(Upto[n]) <= Len(Slots)
             /\ \A k \in 1..Len(Upto[n]) : Slots[k] = Upto[n][k]
  BY <1>2, <1>4, SelectedPrefix DEF Upto, Continues
<1>6. ASSUME NEW n \in 1..Len(signature)
      PROVE  IF IsType(signature[n])
             THEN Len(Upto[n]) = Len(Upto[n - 1]) + 1 /\ Slots[Len(Upto[n])] = signature[n]
             ELSE Len(Upto[n]) = Len(Upto[n - 1])
  <2>1. n - 1 \in 0..Len(signature) /\ n \in 0..Len(signature) /\ (n \in Types <=> IsType(signature[n]))
        /\ signature[n] \in Char
    BY <1>1 DEF Types
  <2>2. Upto[n] = IF IsType(signature[n]) THEN Append(Upto[n - 1], signature[n]) ELSE Upto[n - 1]
    BY <1>4, <2>1
  <2>3. Upto[n - 1] \in Seq(Char)
    BY <1>5, <2>1
  <2>4. CASE IsType(signature[n])
    <3>1. Len(Upto[n]) = Len(Upto[n - 1]) + 1 /\ Upto[n][Len(Upto[n])] = signature[n]
      BY <2>1, <2>2, <2>3, <2>4
    <3>2. Len(Upto[n]) \in 1..Len(Upto[n])
      BY <2>3, <3>1
    <3>3. QED
      BY <1>5, <2>1, <2>4, <3>1, <3>2
  <2>5. QED
    BY <2>2, <2>4
<1>7. ASSUME NEW k \in 1..Len(Slots)
      PROVE  IsType(Slots[k])
  <2>1. PICK pos1 \in [1..Len(Slots) -> Types \cap 1..Len(signature)] :
          \A j \in 1..Len(Slots) : Slots[j] = signature[pos1[j]]
    BY <1>2, SelectedPlaces, SMTT(20)
  <2>2. pos1[k] \in Types /\ Slots[k] = signature[pos1[k]]
    BY <2>1
  <2>3. QED
    BY <2>2 DEF Types
<1>8. /\ \A k \in 1..Len(Slots) : IsType(Slots[k])
      /\ \A n \in 0..Len(signature) : Len(Upto[n]) \in Nat /\ Len(Upto[n]) <= Len(Slots)
  BY <1>5, <1>7
<1>9. Upto[0] = <<>> /\ Upto[Len(signature)] = Slots /\ Len(Slots) \in Nat
  BY <1>3, <1>4
<1> HIDE DEF Slots, Upto, Types
<1>10. QED
  BY <1>1, <1>2, <1>3, <1>6, <1>8, <1>9

(* Before the first character nothing is read.                                *)
LEMMA ExtractInitially ==
  ASSUME ExtractInit
  PROVE  ExtractInv
<1>1. PICK n \in 0..MaxLength : signature \in [1..n -> Char]
  BY DEF ExtractInit
<1>2. signature \in Seq(Char)
  BY <1>1, ExtractAssumption
<1>3. c = 0 /\ i = 0 /\ args = <<>> /\ failed = FALSE
  BY DEF ExtractInit
<1>4. Len(Upto[0]) = 0 /\ Len(signature) \in Nat
  BY <1>2, SlotsAre
<1>5. QED
  BY <1>2, <1>3, <1>4 DEF ExtractInv

(* Each step of extract_message reads the next argument from the next slot,   *)
(* until an array changes the count.                                          *)
LEMMA ExtractStep ==
  ASSUME ExtractInv, ExtractNext
  PROVE  ExtractInv' /\ signature' = signature /\ ~ExtractDone
<1>1. PICK char \in Char :
        SkipMark(char) \/ ReadPlain(char) \/ ReadArray(char) \/ ReadFails(char)
  BY DEF ExtractNext
<1> DEFINE k == Len(args) + 1
<1>2. /\ ~failed /\ c < Len(signature) /\ char = signature[c + 1] /\ signature' = signature
  BY <1>1 DEF SkipMark, ReadPlain, ReadArray, ReadFails, Running
<1>3. /\ signature \in Seq(Char) /\ c \in 0..Len(signature) /\ i \in Nat
      /\ args \in Seq([code : TypeCodes, slot : Nat]) /\ Len(args) = Len(Upto[c])
      /\ \A j \in 1..Len(args) : Harmless(j) => args[j] = [code |-> Slots[j].code, slot |-> j - 1]
      /\ Harmless(k) => i = Len(args) /\ ~failed
  BY DEF ExtractInv
<1>4. Slots' = Slots /\ Upto' = Upto /\ \A j : Harmless(j)' = Harmless(j)
  BY <1>2 DEF Slots, Upto, Types, Harmless
<1>5. /\ Len(Slots) \in Nat /\ c + 1 \in 1..Len(signature) /\ (c + 1) - 1 = c
      /\ Len(Upto[c + 1]) <= Len(Slots)
      /\ IF IsType(char)
         THEN Len(Upto[c + 1]) = Len(Upto[c]) + 1 /\ Slots[Len(Upto[c + 1])] = char
         ELSE Len(Upto[c + 1]) = Len(Upto[c])
  BY <1>2, <1>3, SlotsAre
<1>6. ~ExtractDone
  BY <1>2, <1>3 DEF ExtractDone
<1>7. Harmless(k + 1) => Harmless(k)
  BY <1>3 DEF Harmless
<1>8. CASE SkipMark(char)
  <2>1. c' = c + 1 /\ i' = i /\ args' = args /\ failed' = failed /\ ~IsType(char)
    BY <1>8 DEF SkipMark
  <2>2. QED
    BY <1>2, <1>3, <1>4, <1>5, <1>6, <2>1, SMTT(20) DEF ExtractInv
<1>9. CASE ReadFails(char)
  <2>1. c' = c /\ i' = i /\ args' = args /\ IsType(char) /\ ~Holds(char.code)
    BY <1>9 DEF ReadFails
  <2>2. Slots[k] = char /\ k <= Len(Slots)
    BY <1>3, <1>5, <2>1
  <2>3. ~Harmless(k)
    BY <1>3, <2>1, <2>2 DEF Holds
  <2>4. QED
    BY <1>2, <1>3, <1>4, <1>6, <2>1, <2>3 DEF ExtractInv
<1>10. CASE ReadPlain(char) \/ ReadArray(char)
  <2>1. /\ c' = c + 1 /\ failed' = failed /\ IsType(char)
        /\ args' = Append(args, [code |-> char.code, slot |-> i])
    BY <1>10 DEF ReadPlain, ReadArray, Take, IsType, TypeCodes
  <2>2. Slots[k] = char /\ k <= Len(Slots) /\ k \in Nat
    BY <1>3, <1>5, <2>1
  <2>3. i' \in Nat /\ (Harmless(k + 1) => i' = k)
    <3>1. CASE ReadPlain(char)
      BY <1>3, <1>7, <3>1 DEF ReadPlain
    <3>2. CASE ReadArray(char)
      <4>1. PICK size \in IF Holds("a") THEN {Slots[i + 1].elements} ELSE 0..MaxElements :
              i' = IF size = 0 THEN i + 1 ELSE (size - 1) + 1
        BY <3>2 DEF ReadArray
      <4>2. char.code = "a"
        BY <3>2 DEF ReadArray
      <4>3. size \in Nat
        <5>1. CASE Holds("a")
          <6>1. Slots[i + 1] \in Char
            BY <1>3, <5>1, SlotsAre DEF Holds
          <6>2. QED
            BY <4>1, <5>1, <6>1, ExtractAssumption DEF Char
        <5>2. CASE ~Holds("a")
          BY <4>1, <5>2, ExtractAssumption
        <5>3. QED
          BY <5>1, <5>2
      <4>4. ASSUME Harmless(k + 1) PROVE i' = k
        <5>1. i = Len(args)
          BY <1>3, <1>7, <4>4
        <5>2. Holds("a") /\ Slots[i + 1] = char
          BY <1>3, <2>2, <4>2, <5>1 DEF Holds
        <5>3. char.elements \in {0, k}
          BY <2>2, <4>2, <4>4 DEF Harmless
        <5>4. size = char.elements
          BY <4>1, <5>2
        <5>5. QED
          BY <1>3, <4>1, <5>1, <5>3, <5>4
      <4>5. QED
        BY <1>3, <4>1, <4>3, <4>4
    <3>3. QED
      BY <1>10, <3>1, <3>2
  <2>4. [code |-> char.code, slot |-> i] \in [code : TypeCodes, slot : Nat]
    BY <1>3, <2>1 DEF IsType
  <2>5. /\ args' \in Seq([code : TypeCodes, slot : Nat]) /\ Len(args') = k
        /\ \A j \in 1..Len(args) : args'[j] = args[j]
        /\ args'[k] = [code |-> char.code, slot |-> i]
    BY <1>3, <2>1, <2>4
  <2>6. Len(args') = Len(Upto[c'])
    BY <1>3, <1>5, <2>1, <2>5
  <2>7. ASSUME NEW j \in 1..Len(args'), Harmless(j)
        PROVE  args'[j] = [code |-> Slots[j].code, slot |-> j - 1]
    <3>1. CASE j = k
      BY <1>3, <2>2, <2>5, <2>7, <3>1
    <3>2. CASE j # k
      <4>1. j \in 1..Len(args)
        BY <1>3, <2>5, <3>2, SMTT(20)
      <4>2. QED
        BY <1>3, <2>5, <2>7, <4>1
    <3>3. QED
      BY <3>1, <3>2
  <2>8. \A j \in 1..Len(args') :
          Harmless(j)' => args'[j] = [code |-> Slots'[j].code, slot |-> j - 1]
    BY <1>4, <2>7
  <2>9. Harmless(Len(args) + 1)' => i' = Len(args') /\ ~failed'
    <3>1. Harmless(Len(args) + 1)' <=> Harmless(k + 1)
      BY <1>4, <2>5 DEF Harmless
    <3>2. QED
      BY <1>2, <2>1, <2>3, <2>5, <3>1
  <2>10. c' \in 0..Len(signature)
    BY <1>3, <1>5, <2>1
  <2>11. ExtractInv'
    BY <1>2, <1>3, <1>4, <2>3, <2>5, <2>6, <2>8, <2>9, <2>10 DEF ExtractInv
  <2>12. QED
    BY <1>2, <1>6, <2>11
<1>11. QED
  BY <1>1, <1>8, <1>9, <1>10

(* The invariant says what RightUntilArray asks for.                          *)
LEMMA ExtractRight ==
  ASSUME ExtractInv
  PROVE  RightUntilArray
<1>1. DOMAIN args = 1..Len(args)
  BY DEF ExtractInv
<1>2. QED
  BY <1>1 DEF ExtractInv, RightUntilArray

(* What a text is made of.                                                    *)
Kinds == {"nil", "int", "float", "object", "new id", "array", "fd"}

Symbols == STRING \cup Kinds \cup {"quote", "separator"}

(* Where the k-th argument ends and begins in the text.                       *)
EndOf(k) == Len(PrintedUpTo[k])

BeginOf(k) == IF k = 1 THEN 0 ELSE EndOf(k - 1) + 1

AllPlain(k) == \A j \in 1..k : IsPlain(Slots[j])

IsString(slot) == slot.code = "s" /\ ~slot.null

(* The rest of a string is not backslashes in an odd number: the quote behind *)
(* it is not taken for one behind a backslash.                                *)
EvenTail(t, q) ==
  (\A j \in q + 1..Len(t) : t[j] = "backslash") => ((Len(t) - q) % 2) = 0

(* At p the scan is in the k-th argument, or at its end.                      *)
InsideArgument(k, p, from, in_string) ==
  LET m == p - BeginOf(k)
      last == Len(Printed(Slots[k]))
  IN /\ from = BeginOf(k) /\ m \in 0..last
     /\ in_string <=> IsString(Slots[k]) /\ m \in 1..last - 1
     /\ in_string => EvenTail(Slots[k].text, m - 1)

(* As long as no string is odd the pieces are the arguments.                  *)
ScanInv ==
  /\ text = PrintedUpTo[Len(Slots)]
  /\ pos \in Nat /\ start \in Nat /\ quoted \in BOOLEAN /\ done \in BOOLEAN
  /\ pieces \in Seq(Seq(Symbols))
  /\ done => ExtractDone
  /\ \A k \in 1..Len(Slots) :
       AllPlain(k) =>
         /\ k <= Len(pieces) => pieces[k] = Printed(Slots[k])
         /\ k = Len(pieces) + 1 => InsideArgument(k, pos, start, quoted)
         /\ done => k <= Len(pieces)

(* What is printed for an argument: one symbol, or a string within quotes.    *)
LEMMA PrintedIs ==
  ASSUME NEW slot \in Char, IsType(slot)
  PROVE  LET shown == Printed(slot)
         IN /\ shown \in Seq(Symbols) /\ Len(shown) \in Nat /\ Len(shown) >= 1
            /\ IF IsString(slot)
               THEN /\ slot.text \in Seq(Symbols) /\ Len(slot.text) \in Nat
                    /\ Len(shown) = Len(slot.text) + 2
                    /\ shown[1] = "quote" /\ shown[Len(shown)] = "quote"
                    /\ \A x \in 1..Len(slot.text) : shown[x + 1] = slot.text[x]
               ELSE Len(shown) = 1 /\ shown[1] \in Kinds
<1>1. /\ slot.code \in TypeCodes /\ slot.text \in Seq(Symbols) /\ slot.null \in BOOLEAN
      /\ slot.null => slot.code \in {"s", "o"}
  <2>1. /\ slot.code \in TypeCodes /\ slot.text \in Texts \cup {<<>>} /\ slot.null \in BOOLEAN
        /\ slot.null => slot.code \in {"s", "o"}
    BY DEF Char, IsType
  <2>2. <<>> \in Seq(Symbols) /\ \A t \in Seq(STRING) : t \in Seq(Symbols)
    BY DEF Symbols
  <2>3. QED
    BY <2>1, <2>2, ExtractAssumption
<1>2. CASE IsString(slot)
  <2> DEFINE t == slot.text
             shown == Printed(slot)
  <2>1. shown = <<"quote">> \o t \o <<"quote">>
    BY <1>2 DEF Printed, IsString
  <2>2. t \in Seq(Symbols)
    BY <1>1
  <2> HIDE DEF t, shown
  <2>3. <<"quote">> \in Seq(Symbols) /\ Len(<<"quote">>) = 1 /\ <<"quote">>[1] = "quote"
    <3>1. "quote" \in Symbols
      BY DEF Symbols
    <3>2. QED
      BY <3>1
  <2>4. /\ shown \in Seq(Symbols) /\ Len(t) \in Nat /\ Len(shown) = Len(t) + 2
        /\ shown[1] = "quote" /\ shown[Len(t) + 2] = "quote"
        /\ \A x \in 1..Len(t) : shown[x + 1] = t[x]
    BY <2>1, <2>2, <2>3
  <2>5. QED
    BY <1>2, <2>2, <2>4 DEF t, shown
<1>3. CASE ~IsString(slot)
  <2>1. \E kind \in Kinds : Printed(slot) = <<kind>>
    <3>1. CASE slot.null
      <4>1. Printed(slot) = <<"nil">>
        BY <1>1, <3>1 DEF Printed
      <4>2. QED
        BY <4>1 DEF Kinds
    <3>2. CASE ~slot.null
      <4>1. Printed(slot) \in {<<"int">>, <<"float">>, <<"object">>, <<"new id">>, <<"array">>, <<"fd">>}
        BY <1>1, <1>3, <3>2 DEF Printed, IsString, TypeCodes
      <4>2. QED
        BY <4>1 DEF Kinds
    <3>3. QED
      BY <1>1, <3>1, <3>2
  <2>2. PICK kind \in Kinds : Printed(slot) = <<kind>>
    BY <2>1
  <2>3. kind \in Symbols
    BY DEF Symbols
  <2>4. QED
    BY <1>3, <2>2, <2>3
<1>4. QED
  BY <1>2, <1>3

(* What is printed in front of an argument.                                   *)
Between(k) == IF k = 1 THEN <<>> ELSE <<"separator">>

(* The text as it grows, argument by argument.                                *)
LEMMA PrintedStep ==
  ASSUME signature \in Seq(Char)
  PROVE  /\ PrintedUpTo \in [0..Len(Slots) -> Seq(Symbols)] /\ PrintedUpTo[0] = <<>>
         /\ \A k \in 1..Len(Slots) :
              PrintedUpTo[k] = PrintedUpTo[k - 1] \o Between(k) \o Printed(Slots[k])
<1> DEFINE N == Len(Slots)
           S == Seq(Symbols)
           start1 == <<>>
           step == [k \in 1..N |-> [t \in S |-> t \o Between(k) \o Printed(Slots[k])]]
           Def(f) == [n \in 0..N |->
                        IF n = 0 THEN <<>>
                        ELSE f[n - 1] \o (IF n = 1 THEN <<>> ELSE <<"separator">>) \o Printed(Slots[n])]
<1>1. N \in Nat /\ start1 \in S
  BY SlotsAre
<1>2. ASSUME NEW k \in 1..N, NEW t \in S
      PROVE  t \o Between(k) \o Printed(Slots[k]) \in S
  <2>1. Slots[k] \in Char /\ IsType(Slots[k])
    BY SlotsAre
  <2>2. Printed(Slots[k]) \in S /\ Between(k) \in S
    <3>1. <<>> \in S /\ <<"separator">> \in S
      <4>1. "separator" \in Symbols
        BY DEF Symbols
      <4>2. QED
        BY <4>1
    <3>2. QED
      BY <2>1, <3>1, PrintedIs DEF Between
  <2>3. QED
    BY <2>2
<1>3. step \in [1..N -> [S -> S]]
  BY <1>2
<1>4. \A k \in 1..N, t \in S : step[k][t] = t \o Between(k) \o Printed(Slots[k])
  OBVIOUS
<1> HIDE DEF step, S, start1, N
<1>5. PICK f \in [0..N -> S] : f[0] = start1 /\ \A n \in 1..N : f[n] = step[n][f[n - 1]]
  <2>1. \E f : IsStepwise(f, N, S, start1, step)
    BY <1>1, <1>3, Stepwise
  <2>2. QED
    BY <2>1 DEF IsStepwise
<1>6. ASSUME NEW n \in 1..N
      PROVE  f[n] = f[n - 1] \o Between(n) \o Printed(Slots[n])
  <2>1. n - 1 \in 0..N /\ f[n - 1] \in S
    BY <1>1
  <2>2. QED
    BY <1>4, <1>5, <2>1
<1>7. f = Def(f)
  <2>1. ASSUME NEW n \in 0..N
        PROVE  f[n] = Def(f)[n]
    <3>1. CASE n = 0
      BY <1>5, <3>1 DEF start1
    <3>2. CASE n # 0
      <4>1. n \in 1..N
        BY <1>1, <3>2
      <4>2. QED
        BY <1>6, <3>2, <4>1 DEF Between
    <3>3. QED
      BY <3>1, <3>2
  <2>2. f = [n \in 0..N |-> f[n]]
    BY <1>5
  <2>3. QED
    BY <2>1, <2>2
<1> DEFINE g == PrintedUpTo
<1>8. g = CHOOSE h : h = Def(h)
  BY Zenon DEF PrintedUpTo, N
<1> HIDE DEF g
<1>9. g = Def(g)
  <2> HIDE DEF Def
  <2>1. QED
    BY <1>7, <1>8, Zenon
<1>10. /\ g[0] = <<>> /\ DOMAIN g = 0..N
       /\ \A n \in 1..N : g[n] = g[n - 1] \o Between(n) \o Printed(Slots[n])
  <2> DEFINE d == Def(g)
  <2>1. /\ d[0] = <<>> /\ DOMAIN d = 0..N
        /\ \A n \in 1..N : d[n] = g[n - 1] \o Between(n) \o Printed(Slots[n])
    BY <1>1, SMTT(20) DEF Between
  <2> HIDE DEF d
  <2>2. g = d
    BY <1>9 DEF d
  <2>3. QED
    BY <2>1, <2>2
<1>11. \A n \in 0..N : g[n] \in S
  <2> DEFINE T == {n \in Nat : n <= N => g[n] \in S}
  <2>1. 0 \in T
    BY <1>1, <1>10 DEF start1
  <2>2. ASSUME NEW n \in Nat, n \in T
        PROVE  n + 1 \in T
    <3>1. SUFFICES ASSUME n + 1 <= N PROVE g[n + 1] \in S
      OBVIOUS
    <3>2. n + 1 \in 1..N /\ g[n] \in S /\ (n + 1) - 1 = n
      BY <1>1, <2>2, <3>1
    <3>3. g[n + 1] = g[n] \o Between(n + 1) \o Printed(Slots[n + 1])
      BY <1>10, <3>2
    <3>4. QED
      BY <1>2, <3>2, <3>3
  <2> HIDE DEF T
  <2>3. Nat \subseteq T
    BY <2>1, <2>2, Induction
  <2>4. QED
    BY <1>1, <2>3 DEF T
<1>12. g = [n \in 0..N |-> g[n]]
  BY <1>9
<1>13. QED
  BY <1>10, <1>11, <1>12 DEF g, N, S

(* Where the arguments are in the text.                                       *)
LEMMA Layout ==
  ASSUME signature \in Seq(Char), NEW k \in 1..Len(Slots)
  PROVE  LET whole == PrintedUpTo[Len(Slots)]
             shown == Printed(Slots[k])
         IN /\ whole \in Seq(Symbols)
            /\ BeginOf(k) \in Nat /\ EndOf(k) = BeginOf(k) + Len(shown) /\ EndOf(k) <= Len(whole)
            /\ \A x \in 1..Len(shown) : whole[BeginOf(k) + x] = shown[x]
            /\ k < Len(Slots) =>
                 /\ EndOf(k) < Len(whole) /\ whole[EndOf(k) + 1] = "separator"
                 /\ BeginOf(k + 1) = EndOf(k) + 1
            /\ k = Len(Slots) => EndOf(k) = Len(whole)
<1> DEFINE n == Len(Slots)
           whole == PrintedUpTo[n]
           shown == Printed(Slots[k])
<1>1. /\ PrintedUpTo \in [0..n -> Seq(Symbols)] /\ PrintedUpTo[0] = <<>>
      /\ \A j \in 1..n : PrintedUpTo[j] = PrintedUpTo[j - 1] \o Between(j) \o Printed(Slots[j])
  BY PrintedStep
<1>2. n \in Nat /\ \A j \in 1..n : Slots[j] \in Char /\ IsType(Slots[j])
  BY SlotsAre
<1>3. \A j \in 1..n : Printed(Slots[j]) \in Seq(Symbols) /\ Len(Printed(Slots[j])) >= 1
  BY <1>2, PrintedIs
<1>4. \A j \in 0..n : PrintedUpTo[j] \in Seq(Symbols) /\ Len(PrintedUpTo[j]) \in Nat
  <2>1. \A j \in 0..n : PrintedUpTo[j] \in Seq(Symbols)
    BY <1>1
  <2>2. QED
    BY <2>1
<1> HIDE DEF n
<1>5. ASSUME NEW j \in 1..n
      PROVE  LET new == PrintedUpTo[j]
                 old == PrintedUpTo[j - 1]
             IN /\ Continues(new, old)
                /\ j = 1 => BeginOf(j) = 0
                /\ j > 1 => BeginOf(j) = Len(old) + 1 /\ new[Len(old) + 1] = "separator"
                /\ BeginOf(j) \in Nat /\ Len(new) = BeginOf(j) + Len(Printed(Slots[j]))
                /\ \A x \in 1..Len(Printed(Slots[j])) : new[BeginOf(j) + x] = Printed(Slots[j])[x]
  <2> DEFINE new == PrintedUpTo[j]
             old == PrintedUpTo[j - 1]
             last == Printed(Slots[j])
  <2>1. new = old \o Between(j) \o last /\ old \in Seq(Symbols) /\ last \in Seq(Symbols)
        /\ Len(old) \in Nat /\ (j = 1 => old = <<>>)
    <3>1. j - 1 \in 0..n /\ (j = 1 => j - 1 = 0)
      BY <1>2
    <3>2. old \in Seq(Symbols) /\ Len(old) \in Nat /\ (j = 1 => old = <<>>)
      BY <1>1, <1>4, <3>1
    <3>3. new = old \o Between(j) \o last /\ last \in Seq(Symbols)
      BY <1>1, <1>3
    <3>4. QED
      BY <3>2, <3>3
  <2>2. BeginOf(j) = IF j = 1 THEN 0 ELSE Len(old) + 1
    BY DEF BeginOf, EndOf
  <2> HIDE DEF new, old, last
  <2>3. CASE j = 1
    <3>1. new = last /\ old = <<>>
      <4>1. Between(j) = <<>> /\ old = <<>>
        BY <2>1, <2>3 DEF Between
      <4>2. QED
        BY <2>1, <4>1
    <3>2. QED
      BY <2>1, <2>2, <2>3, <3>1 DEF Continues, new, old, last
  <2>4. CASE j # 1
    <3>1. new = old \o <<"separator">> \o last /\ j > 1
      BY <1>2, <2>1, <2>4, SMTT(20) DEF Between
    <3>2. /\ Len(new) = Len(old) + 1 + Len(last) /\ new[Len(old) + 1] = "separator"
          /\ \A x \in 1..Len(old) : new[x] = old[x]
          /\ \A x \in 1..Len(last) : new[Len(old) + 1 + x] = last[x]
      BY <2>1, <3>1
    <3>3. Len(new) \in Nat /\ Len(last) \in Nat /\ Len(old) <= Len(new) /\ BeginOf(j) = Len(old) + 1
      BY <2>1, <2>2, <2>4, <3>1, <3>2
    <3>4. Continues(new, old)
      BY <3>2, <3>3 DEF Continues
    <3>5. Len(new) = BeginOf(j) + Len(last) /\ \A x \in 1..Len(last) : new[BeginOf(j) + x] = last[x]
      BY <3>2, <3>3
    <3>6. /\ Continues(new, old)
          /\ j = 1 => BeginOf(j) = 0
          /\ j > 1 => BeginOf(j) = Len(old) + 1 /\ new[Len(old) + 1] = "separator"
          /\ BeginOf(j) \in Nat /\ Len(new) = BeginOf(j) + Len(last)
          /\ \A x \in 1..Len(last) : new[BeginOf(j) + x] = last[x]
      BY <2>1, <2>4, <3>2, <3>3, <3>4, <3>5, SMTT(20)
    <3>7. QED
      BY <3>6 DEF new, old, last
  <2>5. QED
    BY <2>3, <2>4
<1>6. \A j \in 0..n : Continues(whole, PrintedUpTo[j])
  BY <1>1, <1>2, <1>5, LastContinues
<1>7. /\ BeginOf(k) \in Nat /\ EndOf(k) = BeginOf(k) + Len(shown) /\ EndOf(k) <= Len(whole)
      /\ \A x \in 1..Len(shown) : whole[BeginOf(k) + x] = shown[x]
  <2>1. k \in 1..n /\ k \in 0..n /\ Continues(whole, PrintedUpTo[k])
    BY <1>2, <1>6 DEF n
  <2>2. /\ BeginOf(k) \in Nat /\ EndOf(k) = BeginOf(k) + Len(shown)
        /\ \A x \in 1..Len(shown) : PrintedUpTo[k][BeginOf(k) + x] = shown[x]
    BY <1>5, <2>1 DEF EndOf
  <2>3. Len(shown) \in Nat /\ EndOf(k) = Len(PrintedUpTo[k])
    BY <1>3, <2>1 DEF EndOf
  <2>4. BeginOf(k) \in Nat /\ EndOf(k) \in Nat /\ EndOf(k) = BeginOf(k) + Len(shown)
    BY <2>2, <2>3
  <2> HIDE DEF whole, shown
  <2>5. /\ Len(PrintedUpTo[k]) <= Len(whole)
        /\ \A x \in 1..Len(PrintedUpTo[k]) : whole[x] = PrintedUpTo[k][x]
    BY <2>1 DEF Continues
  <2>6. ASSUME NEW x \in 1..Len(shown)
        PROVE  whole[BeginOf(k) + x] = shown[x]
    <3>1. BeginOf(k) + x \in 1..Len(PrintedUpTo[k])
      BY <2>3, <2>4
    <3>2. QED
      BY <2>2, <2>5, <3>1
  <2>7. QED
    BY <2>3, <2>4, <2>5, <2>6
<1>8. ASSUME k < n
      PROVE  /\ EndOf(k) < Len(whole) /\ whole[EndOf(k) + 1] = "separator"
             /\ BeginOf(k + 1) = EndOf(k) + 1
  <2>1. k + 1 \in 1..n /\ k + 1 \in 0..n /\ (k + 1) - 1 = k /\ k + 1 > 1 /\ k \in 0..n
    BY <1>2, <1>8 DEF n
  <2>2. /\ Continues(whole, PrintedUpTo[k + 1]) /\ Continues(PrintedUpTo[k + 1], PrintedUpTo[k])
        /\ BeginOf(k + 1) = EndOf(k) + 1
        /\ PrintedUpTo[k + 1][EndOf(k) + 1] = "separator"
        /\ Len(PrintedUpTo[k + 1]) = BeginOf(k + 1) + Len(Printed(Slots[k + 1]))
    BY <1>5, <1>6, <2>1 DEF EndOf
  <2>3. EndOf(k) \in Nat /\ Len(PrintedUpTo[k + 1]) \in Nat /\ Len(Printed(Slots[k + 1])) \in Nat
        /\ Len(whole) \in Nat
    BY <1>2, <1>3, <1>4, <2>1 DEF EndOf
  <2> DEFINE next == PrintedUpTo[k + 1]
             e == EndOf(k) + 1
  <2>4. next[e] = "separator" /\ e \in Nat /\ e <= Len(next) /\ Len(next) \in Nat
    <3> DEFINE d == Len(Printed(Slots[k + 1]))
    <3>1. next[e] = "separator" /\ Len(next) = e + d /\ Len(next) \in Nat
      BY <2>2, <2>3
    <3>2. e \in Nat /\ d \in Nat
      BY <2>3
    <3> HIDE DEF next, e, d
    <3>3. QED
      BY <3>1, <3>2
  <2>5. Continues(whole, next)
    BY <2>2
  <2> HIDE DEF whole, next, e
  <2>6. e <= Len(whole) /\ whole[e] = "separator"
    <3>1. e \in 1..Len(next)
      BY <2>3, <2>4 DEF e
    <3>2. QED
      BY <2>3, <2>4, <2>5, <3>1 DEF Continues
  <2>7. QED
    BY <2>2, <2>3, <2>6 DEF e
<1>9. k = n => EndOf(k) = Len(whole)
  BY DEF EndOf
<1>10. whole \in Seq(Symbols)
  BY <1>2, <1>4
<1>11. QED
  BY <1>7, <1>8, <1>9, <1>10 DEF n

(* What is behind a character that is no backslash is not an odd number of    *)
(* backslashes.                                                               *)
LEMMA PlainTail ==
  ASSUME NEW slot \in Char, IsType(slot), IsString(slot), IsPlain(slot),
         NEW q \in 0..Len(slot.text), q = 0 \/ slot.text[q] # "backslash"
  PROVE  EvenTail(slot.text, q)
<1> DEFINE t == slot.text
           len == Len(t)
           trailing == {j \in DOMAIN t : \A m \in j..Len(t) : t[m] = "backslash"}
<1>1. t \in Seq(Symbols) /\ len \in Nat
  BY PrintedIs
<1>2. Cardinality(trailing) % 2 = 0
  BY DEF IsPlain
<1>3. DOMAIN t = 1..len /\ q \in 0..len
  BY <1>1
<1>4. ASSUME \A j \in q + 1..len : t[j] = "backslash"
      PROVE  trailing = q + 1..len
  <2>1. ASSUME NEW j \in trailing PROVE j \in q + 1..len
    <3>1. j \in 1..len /\ \A m \in j..len : t[m] = "backslash"
      BY <1>3, <2>1
    <3>2. j <= q => q \in j..len
      BY <1>1, <1>3, <3>1
    <3>3. QED
      BY <1>1, <1>3, <3>1, <3>2
  <2>2. ASSUME NEW j \in q + 1..len PROVE j \in trailing
    <3>1. j \in 1..len /\ \A m \in j..len : m \in q + 1..len
      BY <1>1, <1>3, <2>2
    <3>2. QED
      BY <1>3, <1>4, <3>1
  <2>3. QED
    BY <2>1, <2>2
<1>5. Cardinality(q + 1..len) = len - q
  <2>1. Cardinality(q + 1..len) = IF q + 1 > len THEN 0 ELSE len - (q + 1) + 1
    <3>1. q + 1 \in Int /\ len \in Int
      BY <1>1, <1>3
    <3> HIDE DEF len
    <3>2. QED
      BY <3>1, FS_Interval
  <2>2. QED
    BY <1>1, <1>3, <2>1
<1>6. (\A j \in q + 1..len : t[j] = "backslash") => ((len - q) % 2) = 0
  <2> HIDE DEF trailing, len, t
  <2> QED
    BY <1>2, <1>4, <1>5
<1>7. QED
  BY <1>6 DEF EvenTail

(* In a string that is not odd: a character is skipped only with a backslash  *)
(* in front of it, and never the quote at the end.                            *)
LEMMA TailStep ==
  ASSUME NEW slot \in Char, IsType(slot), IsString(slot), IsPlain(slot),
         NEW q \in 0..Len(slot.text) - 1, EvenTail(slot.text, q)
  PROVE  LET t == slot.text
         IN /\ t[q + 1] # "quote"
            /\ IF t[q + 1] = "backslash" THEN q + 2 <= Len(t) /\ EvenTail(t, q + 2)
               ELSE EvenTail(t, q + 1)
<1> DEFINE t == slot.text
           len == Len(t)
<1>1. t \in Seq(Symbols) /\ len \in Nat /\ DOMAIN t = 1..len
  BY PrintedIs
<1>2. q \in Nat /\ q < len /\ q + 1 \in 1..len /\ q + 1 \in 0..len
  BY <1>1
<1>3. t[q + 1] # "quote"
  BY <1>1, <1>2 DEF IsPlain
<1>4. CASE t[q + 1] # "backslash"
  BY <1>2, <1>3, <1>4, PlainTail
<1>5. CASE t[q + 1] = "backslash"
  <2>1. (\A j \in q + 1..len : t[j] = "backslash") => ((len - q) % 2) = 0
    BY DEF EvenTail
  <2>2. q + 2 <= len
    <3>1. SUFFICES ASSUME len = q + 1 PROVE FALSE
      BY <1>1, <1>2
    <3>2. \A j \in q + 1..len : j = q + 1
      BY <1>2, <3>1
    <3>3. len - q = 1
      BY <1>2, <3>1
    <3>4. \A j \in q + 1..len : t[j] = "backslash"
      BY <1>5, <3>2
    <3>5. (1 % 2) = 0
      BY <2>1, <3>3, <3>4
    <3>6. QED
      BY <3>5
  <2>3. q + 2 \in 0..len /\ q + 2 \in 1..len
    BY <1>1, <1>2, <2>2
  <2>4. CASE t[q + 2] # "backslash"
    <3>1. EvenTail(t, q + 2)
      BY <2>3, <2>4, PlainTail
    <3>2. QED
      BY <1>3, <1>5, <2>2, <3>1
  <2>5. CASE t[q + 2] = "backslash"
    <3>1. ASSUME \A j \in q + 3..len : t[j] = "backslash"
          PROVE  ((len - (q + 2)) % 2) = 0
      <4>1. ASSUME NEW j \in q + 1..len PROVE t[j] = "backslash"
        <5>1. j = q + 1 \/ j = q + 2 \/ j \in q + 3..len
          BY <1>1, <1>2
        <5>2. QED
          BY <1>5, <2>5, <3>1, <5>1
      <4>2. ((len - q) % 2) = 0
        BY <2>1, <4>1
      <4> HIDE DEF len
      <4>3. QED
        BY <1>1, <1>2, <2>2, <4>2
    <3>2. q + 2 + 1 = q + 3
      BY <1>2
    <3>3. EvenTail(t, q + 2)
      BY <3>1, <3>2 DEF EvenTail
    <3>4. QED
      BY <1>3, <1>5, <2>2, <3>3
  <2>6. QED
    BY <2>4, <2>5
<1>6. QED
  BY <1>4, <1>5

(* The symbol the scan is at.                                                 *)
LEMMA AtSymbol ==
  ASSUME signature \in Seq(Char), text = PrintedUpTo[Len(Slots)],
         NEW k \in 1..Len(Slots), NEW p \in Nat, NEW from, NEW in_string,
         InsideArgument(k, p, from, in_string)
  PROVE  LET m == p - BeginOf(k)
             shown == Printed(Slots[k])
             last == Len(shown)
         IN /\ text \in Seq(Symbols) /\ m \in 0..last /\ p \in Nat /\ from = BeginOf(k)
            /\ p = BeginOf(k) + m /\ BeginOf(k) \in Nat /\ last \in Nat /\ last >= 1
            /\ m < last => p < Len(text) /\ text[p + 1] = shown[m + 1]
            /\ m = last =>
                 /\ SubSeq(text, from + 1, p) = shown /\ p # from
                 /\ IF k < Len(Slots)
                    THEN /\ p < Len(text) /\ text[p + 1] = "separator"
                         /\ BeginOf(k + 1) = p + 1
                    ELSE p = Len(text)
<1> DEFINE b == BeginOf(k)
           m == p - b
           shown == Printed(Slots[k])
           last == Len(shown)
           n == Len(Slots)
<1>1. from = b /\ m \in 0..last
  BY DEF InsideArgument
<1>2. /\ text \in Seq(Symbols) /\ b \in Nat /\ EndOf(k) = b + last /\ EndOf(k) <= Len(text)
      /\ \A x \in 1..last : text[b + x] = shown[x]
      /\ k < n =>
           /\ EndOf(k) < Len(text) /\ text[EndOf(k) + 1] = "separator"
           /\ BeginOf(k + 1) = EndOf(k) + 1
      /\ k = n => EndOf(k) = Len(text)
  BY Layout
<1>3. shown \in Seq(Symbols) /\ last \in Nat /\ last >= 1 /\ n \in Nat /\ k \in Nat /\ k <= n
  <2>1. Slots[k] \in Char /\ IsType(Slots[k]) /\ n \in Nat
    BY SlotsAre
  <2>2. QED
    BY <2>1, PrintedIs
<1>4. p \in Nat /\ p = b + m
  BY <1>1, <1>2, <1>3
<1>5. Len(text) \in Nat
  BY <1>2
<1> HIDE DEF n, last, shown, b
<1>6. ASSUME m < last PROVE p < Len(text) /\ text[p + 1] = shown[m + 1]
  <2>1. m + 1 \in 1..last /\ b + (m + 1) = p + 1
    BY <1>1, <1>2, <1>3, <1>4, <1>6
  <2>2. text[b + (m + 1)] = shown[m + 1]
    BY <1>2, <2>1
  <2>3. b + last <= Len(text) /\ p + 1 <= b + last
    <3> HIDE DEF m
    <3>1. QED
      BY <1>2, <1>3, <1>4, <2>1
  <2>4. p < Len(text)
    BY <1>2, <1>3, <1>4, <1>5, <2>3
  <2>5. QED
    BY <2>1, <2>2, <2>4
<1>7. ASSUME m = last
      PROVE  /\ SubSeq(text, from + 1, p) = shown /\ p # from
             /\ IF k < n
                THEN p < Len(text) /\ text[p + 1] = "separator" /\ BeginOf(k + 1) = p + 1
                ELSE p = Len(text)
  <2>1. p = EndOf(k) /\ p <= Len(text) /\ p # from
    BY <1>1, <1>2, <1>3, <1>4, <1>7
  <2> DEFINE part == SubSeq(text, from + 1, p)
  <2>2. part \in Seq(Symbols) /\ Len(part) = last /\ \A x \in 1..last : part[x] = text[b + x]
    BY <1>1, <1>2, <1>3, <1>4, <1>5, <1>7, <2>1, SMTT(20)
  <2> HIDE DEF part
  <2>3. part = shown
    <3>1. \A x \in 1..last : part[x] = shown[x]
      BY <1>2, <2>2
    <3>2. Len(shown) = last
      BY DEF last
    <3>3. QED
      BY <1>3, <2>2, <3>1, <3>2
  <2>4. QED
    BY <1>2, <1>3, <2>1, <2>3 DEF part
<1>8. QED
  BY <1>1, <1>2, <1>3, <1>4, <1>6, <1>7 DEF n, last, shown, b

(* In a plain argument each symbol but the last leads on in it, and a         *)
(* separator outside a string is the end of it.                               *)
LEMMA ScanInside ==
  ASSUME signature \in Seq(Char), text = PrintedUpTo[Len(Slots)],
         NEW k \in 1..Len(Slots), IsPlain(Slots[k]), pos \in Nat, quoted \in BOOLEAN,
         InsideArgument(k, pos, start, quoted)
  PROVE  /\ Quote => InsideArgument(k, pos + 1, start, ~quoted)
         /\ BackslashInString => InsideArgument(k, pos + 2, start, quoted)
         /\ OtherSymbol => InsideArgument(k, pos + 1, start, quoted)
         /\ Separator \/ EndOfText => ~quoted /\ pos - BeginOf(k) = Len(Printed(Slots[k]))
<1> DEFINE b == BeginOf(k)
           m == pos - b
           slot == Slots[k]
           shown == Printed(slot)
           last == Len(shown)
           t == slot.text
           symbol == text[pos + 1]
<1>1. slot \in Char /\ IsType(slot)
  BY SlotsAre
<1>2. /\ shown \in Seq(Symbols)
      /\ IF IsString(slot)
         THEN /\ t \in Seq(Symbols) /\ Len(t) \in Nat /\ last = Len(t) + 2
              /\ shown[1] = "quote" /\ shown[last] = "quote"
              /\ \A x \in 1..Len(t) : shown[x + 1] = t[x]
         ELSE last = 1 /\ shown[1] \in Kinds
  BY <1>1, PrintedIs
<1>3. /\ m \in 0..last /\ pos = b + m /\ b \in Nat /\ last \in Nat /\ last >= 1 /\ start = b
      /\ m < last => pos < Len(text) /\ symbol = shown[m + 1]
      /\ m = last => pos = Len(text) \/ symbol = "separator"
      /\ Len(text) \in Nat
  <2> HIDE DEF b, m, shown, last
  <2>1. /\ text \in Seq(Symbols) /\ m \in 0..last /\ start = b
        /\ pos = b + m /\ b \in Nat /\ last \in Nat /\ last >= 1
        /\ m < last => pos < Len(text) /\ symbol = shown[m + 1]
        /\ m = last => IF k < Len(Slots) THEN symbol = "separator" ELSE pos = Len(text)
    BY AtSymbol DEF b, m, shown, last
  <2>2. QED
    BY <2>1
<1>4. /\ quoted <=> IsString(slot) /\ m \in 1..last - 1
      /\ quoted => EvenTail(t, m - 1)
  BY DEF InsideArgument
<1>5. IsString(slot) /\ m \in 1..last - 2 =>
        /\ symbol = t[m] /\ symbol # "quote"
        /\ IF symbol = "backslash" THEN m + 2 <= last - 1 /\ EvenTail(t, m + 1)
           ELSE EvenTail(t, m)
  <2>1. SUFFICES ASSUME IsString(slot), m \in 1..last - 2
                 PROVE  /\ symbol = t[m] /\ symbol # "quote"
                        /\ IF symbol = "backslash" THEN m + 2 <= last - 1 /\ EvenTail(t, m + 1)
                           ELSE EvenTail(t, m)
    OBVIOUS
  <2> DEFINE q == m - 1
  <2>2. /\ q \in 0..Len(t) - 1 /\ EvenTail(t, q) /\ q + 1 = m /\ q + 2 = m + 1
        /\ symbol = t[m] /\ m < last /\ last = Len(t) + 2
    <3>1. last = Len(t) + 2 /\ Len(t) \in Nat
      BY <1>2, <2>1
    <3>2. m \in 1..Len(t) /\ m < last /\ m \in 1..last - 1
      BY <1>3, <2>1, <3>1
    <3>3. symbol = t[m]
      BY <1>2, <1>3, <2>1, <3>2
    <3>4. QED
      BY <1>4, <2>1, <3>1, <3>2, <3>3, SMTT(20)
  <2> HIDE DEF q, m, symbol, last
  <2>3. /\ t[q + 1] # "quote"
        /\ IF t[q + 1] = "backslash" THEN q + 2 <= Len(t) /\ EvenTail(t, q + 2)
           ELSE EvenTail(t, q + 1)
    BY <1>1, <2>1, <2>2, TailStep
  <2>4. Len(t) \in Nat /\ last = Len(t) + 2 /\ m \in Nat
    BY <1>2, <1>3, <2>1
  <2>5. QED
    BY <2>2, <2>3, <2>4
<1>6. IsString(slot) => EvenTail(t, 0)
  <2>1. SUFFICES ASSUME IsString(slot) PROVE EvenTail(t, 0)
    OBVIOUS
  <2>2. 0 \in 0..Len(t)
    BY <1>2, <2>1
  <2>3. QED
    BY <1>1, <2>1, <2>2, PlainTail
<1>7. /\ /\ start = b /\ (pos + 1) - b \in 0..last
         /\ ~quoted <=> IsString(slot) /\ (pos + 1) - b \in 1..last - 1
         /\ ~quoted => EvenTail(t, ((pos + 1) - b) - 1)
         => InsideArgument(k, pos + 1, start, ~quoted)
      /\ /\ start = b /\ (pos + 1) - b \in 0..last
         /\ quoted <=> IsString(slot) /\ (pos + 1) - b \in 1..last - 1
         /\ quoted => EvenTail(t, ((pos + 1) - b) - 1)
         => InsideArgument(k, pos + 1, start, quoted)
      /\ /\ start = b /\ (pos + 2) - b \in 0..last
         /\ quoted <=> IsString(slot) /\ (pos + 2) - b \in 1..last - 1
         /\ quoted => EvenTail(t, ((pos + 2) - b) - 1)
         => InsideArgument(k, pos + 2, start, quoted)
  BY DEF InsideArgument
<1>8. /\ (pos + 1) - b = m + 1 /\ (pos + 2) - b = m + 2
      /\ ((pos + 1) - b) - 1 = m /\ ((pos + 2) - b) - 1 = m + 1
      /\ m \in Nat
  BY <1>3, SMTT(20)
<1> HIDE DEF b, m, slot, shown, last, t, symbol
<1>9. ~IsString(slot) => last = 1 /\ (m = 0 => symbol \notin {"quote", "separator", "backslash"})
  <2>1. ASSUME ~IsString(slot) PROVE last = 1 /\ shown[1] \in Kinds
    BY <1>2, <2>1
  <2>2. Kinds \cap {"quote", "separator", "backslash"} = {}
    BY DEF Kinds
  <2>3. QED
    BY <1>3, <2>1, <2>2
<1>10. IsString(slot) =>
         last >= 2 /\ (m = 0 => symbol = "quote") /\ (m = last - 1 => symbol = "quote")
  <2>1. ASSUME IsString(slot)
        PROVE  last >= 2 /\ shown[1] = "quote" /\ shown[last] = "quote"
    BY <1>2, <2>1
  <2>2. QED
    BY <1>3, <2>1
<1>11. \/ m = last
       \/ ~IsString(slot) /\ m = 0
       \/ IsString(slot) /\ (m = 0 \/ m \in 1..last - 2 \/ m = last - 1)
  BY <1>3, <1>9
<1>12. Quote => InsideArgument(k, pos + 1, start, ~quoted)
  <2>1. SUFFICES ASSUME Quote PROVE InsideArgument(k, pos + 1, start, ~quoted)
    OBVIOUS
  <2>2. pos < Len(text) /\ symbol = "quote"
    BY <2>1 DEF Quote, Scanning, symbol
  <2>3. IsString(slot) /\ m # last /\ m \notin 1..last - 2
    BY <1>3, <1>5, <1>9, <1>11, <2>2
  <2>4. CASE m = 0
    BY <1>3, <1>4, <1>6, <1>7, <1>8, <1>10, <2>3, <2>4
  <2>5. CASE m = last - 1
    BY <1>3, <1>4, <1>7, <1>8, <1>10, <2>3, <2>5
  <2>6. QED
    BY <1>11, <2>3, <2>4, <2>5
<1>13. BackslashInString => InsideArgument(k, pos + 2, start, quoted)
  <2>1. SUFFICES ASSUME BackslashInString PROVE InsideArgument(k, pos + 2, start, quoted)
    OBVIOUS
  <2>2. symbol = "backslash" /\ quoted
    BY <2>1 DEF BackslashInString, Scanning, symbol
  <2>3. IsString(slot) /\ m \in 1..last - 2
    BY <1>3, <1>4, <1>10, <2>2
  <2>4. m + 2 \in 1..last - 1 /\ m + 2 \in 0..last /\ EvenTail(t, m + 1)
    BY <1>3, <1>5, <1>8, <2>2, <2>3
  <2>5. QED
    BY <1>3, <1>7, <1>8, <2>2, <2>3, <2>4
<1>14. OtherSymbol => InsideArgument(k, pos + 1, start, quoted)
  <2>1. SUFFICES ASSUME OtherSymbol PROVE InsideArgument(k, pos + 1, start, quoted)
    OBVIOUS
  <2>2. /\ symbol # "quote" /\ pos < Len(text)
        /\ symbol \in {"separator", "backslash"} => ((symbol = "separator") <=> quoted)
    BY <2>1 DEF OtherSymbol, symbol
  <2>3. m # last
    BY <1>3, <1>4, <2>2
  <2>4. CASE ~IsString(slot)
    BY <1>3, <1>4, <1>7, <1>8, <1>9, <1>11, <2>3, <2>4
  <2>5. CASE IsString(slot)
    <3>1. m \in 1..last - 2
      BY <1>10, <1>11, <2>2, <2>3, <2>5
    <3>2. quoted /\ symbol # "backslash" /\ EvenTail(t, m)
      BY <1>3, <1>4, <1>5, <2>2, <2>5, <3>1
    <3>3. m + 1 \in 1..last - 1 /\ m + 1 \in 0..last
      BY <1>3, <3>1
    <3>4. QED
      BY <1>3, <1>7, <1>8, <2>5, <3>2, <3>3
  <2>6. QED
    BY <2>4, <2>5
<1>15. Separator \/ EndOfText => ~quoted /\ m = last
  <2>1. SUFFICES ASSUME Separator \/ EndOfText PROVE m = last
    BY <1>3, <1>4
  <2>2. CASE EndOfText
    BY <1>3, <2>2 DEF EndOfText
  <2>3. CASE Separator
    <3>1. symbol = "separator" /\ ~quoted
      BY <2>3 DEF Separator, Scanning, symbol
    <3>2. ~IsString(slot) => m = last
      BY <1>9, <1>11, <3>1
    <3>3. IsString(slot) => m \notin 1..last - 1
      BY <1>4, <3>1
    <3>4. IsString(slot) => m # 0
      BY <1>10, <3>1
    <3>5. QED
      BY <1>3, <3>2, <3>3, <3>4
  <2>4. QED
    BY <2>1, <2>2, <2>3
<1>16. QED
  BY <1>12, <1>13, <1>14, <1>15 DEF m, b, last, shown, slot

(* The layout depends on the message only.                                    *)
LEMMA SameLayout ==
  ASSUME signature' = signature
  PROVE  /\ Slots' = Slots /\ PrintedUpTo' = PrintedUpTo
         /\ \A k : AllPlain(k)' <=> AllPlain(k)
         /\ \A k, p, from, s :
              InsideArgument(k, p, from, s)' <=> InsideArgument(k, p, from, s)
<1>1. Slots' = Slots
  BY DEF Slots
<1>2. PrintedUpTo' = PrintedUpTo
  BY <1>1 DEF PrintedUpTo
<1>3. \A k : BeginOf(k)' = BeginOf(k)
  BY <1>2 DEF BeginOf, EndOf
<1>4. QED
  BY <1>1, <1>2, <1>3 DEF AllPlain, InsideArgument

(* The scan begins at the first argument.                                     *)
LEMMA ScanInitially ==
  ASSUME ArgumentInit
  PROVE  ScanInv
<1>1. signature \in Seq(Char)
  BY ExtractInitially DEF ArgumentInit, ExtractInv
<1>2. /\ text = PrintedUpTo[Len(Slots)] /\ pos = 0 /\ start = 0
      /\ quoted = FALSE /\ pieces = <<>> /\ done = FALSE
  BY DEF ArgumentInit
<1>3. Len(Slots) \in Nat
  BY <1>1, SlotsAre
<1>4. ASSUME 1 \in 1..Len(Slots) PROVE InsideArgument(1, 0, 0, FALSE)
  <2>1. Len(Printed(Slots[1])) \in Nat
    BY <1>1, <1>4, SlotsAre, PrintedIs
  <2>2. BeginOf(1) = 0
    BY DEF BeginOf
  <2> DEFINE last == Len(Printed(Slots[1]))
  <2>3. 0 - 0 = 0 /\ 0 \in 0..last /\ 0 \notin 1..last - 1
    BY <2>1
  <2> HIDE DEF last
  <2>4. QED
    BY <2>2, <2>3 DEF InsideArgument, last
<1>5. ASSUME NEW k \in 1..Len(Slots)
      PROVE  /\ k <= Len(pieces) => pieces[k] = Printed(Slots[k])
             /\ k = Len(pieces) + 1 => InsideArgument(k, pos, start, quoted)
             /\ done => k <= Len(pieces)
  <2>1. Len(pieces) = 0 /\ k >= 1 /\ ~done
    BY <1>2, <1>3
  <2>2. ASSUME k = 1 PROVE InsideArgument(k, pos, start, quoted)
    BY <1>2, <1>4, <2>2, Zenon
  <2>3. QED
    BY <2>1, <2>2
<1>6. <<>> \in Seq(Seq(Symbols)) /\ 0 \in Nat
  OBVIOUS
<1>7. pieces \in Seq(Seq(Symbols)) /\ pos \in Nat /\ start \in Nat
  BY <1>2, <1>6
<1>8. quoted \in BOOLEAN /\ done \in BOOLEAN /\ ~done
  BY <1>2
<1>9. QED
  BY <1>2, <1>5, <1>7, <1>8, Zenon DEF ScanInv

(* The step of a symbol within a piece.                                       *)
LEMMA ScanWithin ==
  ASSUME signature \in Seq(Char), ScanInv, Quote \/ BackslashInString \/ OtherSymbol
  PROVE  ScanInv'
<1>1. /\ text = PrintedUpTo[Len(Slots)] /\ pos \in Nat /\ start \in Nat /\ quoted \in BOOLEAN
      /\ pieces \in Seq(Seq(Symbols)) /\ ~done /\ ExtractDone
      /\ \A k \in 1..Len(Slots) :
           AllPlain(k) =>
             /\ k <= Len(pieces) => pieces[k] = Printed(Slots[k])
             /\ k = Len(pieces) + 1 => InsideArgument(k, pos, start, quoted)
  BY DEF ScanInv, Quote, BackslashInString, OtherSymbol, Scanning
<1>2. /\ UNCHANGED <<signature, c, failed, text, start, pieces, done>>
      /\ pos' \in {pos + 1, pos + 2} /\ quoted' \in {quoted, ~quoted}
  BY DEF Quote, BackslashInString, OtherSymbol, extractVars
<1>3. /\ Slots' = Slots /\ PrintedUpTo' = PrintedUpTo /\ ExtractDone' = ExtractDone
      /\ \A k : AllPlain(k)' <=> AllPlain(k)
      /\ \A k, p, from, s : InsideArgument(k, p, from, s)' <=> InsideArgument(k, p, from, s)
  BY <1>2, SameLayout DEF ExtractDone
<1>4. ASSUME NEW k \in 1..Len(Slots), AllPlain(k), k = Len(pieces) + 1
      PROVE  InsideArgument(k, pos', start, quoted')
  <2>1. InsideArgument(k, pos, start, quoted) /\ IsPlain(Slots[k])
    BY <1>1, <1>4 DEF AllPlain
  <2>2. /\ Quote => InsideArgument(k, pos + 1, start, ~quoted)
        /\ BackslashInString => InsideArgument(k, pos + 2, start, quoted)
        /\ OtherSymbol => InsideArgument(k, pos + 1, start, quoted)
    BY <1>1, <2>1, ScanInside
  <2>3. CASE Quote
    BY <2>2, <2>3 DEF Quote
  <2>4. CASE BackslashInString
    BY <2>2, <2>4 DEF BackslashInString
  <2>5. CASE OtherSymbol
    BY <2>2, <2>5 DEF OtherSymbol
  <2>6. QED
    BY <2>3, <2>4, <2>5
<1>5. ASSUME NEW k \in 1..Len(Slots'), AllPlain(k)'
      PROVE  /\ k <= Len(pieces') => pieces'[k] = Printed(Slots'[k])
             /\ k = Len(pieces') + 1 => InsideArgument(k, pos, start, quoted)'
             /\ done' => k <= Len(pieces')
  <2>1. k \in 1..Len(Slots) /\ AllPlain(k) /\ Slots' = Slots /\ pieces' = pieces /\ ~done'
    BY <1>1, <1>2, <1>3, <1>5
  <2>2. ASSUME k = Len(pieces) + 1 PROVE InsideArgument(k, pos, start, quoted)'
    <3>1. InsideArgument(k, pos', start', quoted')
      BY <1>2, <1>4, <2>1, <2>2
    <3>2. QED
      BY <1>3, <3>1, Zenon
  <2>3. QED
    BY <1>1, <2>1, <2>2
<1>6. pos' \in Nat /\ pieces' = pieces /\ start' = start /\ ~done' /\ text' = PrintedUpTo'[Len(Slots')]
  BY <1>1, <1>2, <1>3
<1>7. quoted' \in BOOLEAN /\ done' \in BOOLEAN
  <2>1. quoted' = quoted \/ quoted' = ~quoted
    BY <1>2
  <2>2. quoted \in BOOLEAN /\ (~quoted) \in BOOLEAN
    BY <1>1
  <2>3. done' = done
    BY <1>2
  <2>4. done \in BOOLEAN
    BY DEF ScanInv
  <2>5. QED
    BY <2>1, <2>2, <2>3, <2>4, Zenon
<1>8. QED
  BY <1>1, <1>5, <1>6, <1>7, Zenon DEF ScanInv

(* A separator outside a string ends an argument, and the next one begins.    *)
LEMMA ScanSeparator ==
  ASSUME signature \in Seq(Char), ScanInv, Separator
  PROVE  ScanInv'
<1>1. /\ text = PrintedUpTo[Len(Slots)] /\ pos \in Nat /\ start \in Nat /\ quoted \in BOOLEAN
      /\ pieces \in Seq(Seq(Symbols)) /\ Len(pieces) \in Nat
      /\ \A k \in 1..Len(Slots) :
           AllPlain(k) =>
             /\ k <= Len(pieces) => pieces[k] = Printed(Slots[k])
             /\ k = Len(pieces) + 1 => InsideArgument(k, pos, start, quoted)
  BY DEF ScanInv
<1>2. /\ UNCHANGED <<signature, c, failed, text, quoted, done>> /\ ~done /\ ExtractDone
      /\ pieces' = Append(pieces, Piece) /\ start' = pos + 1 /\ pos' = pos + 1
      /\ pos < Len(text) /\ ~quoted
  BY DEF Separator, Scanning, extractVars
<1>3. /\ Slots' = Slots /\ PrintedUpTo' = PrintedUpTo /\ ExtractDone' = ExtractDone
      /\ \A k : AllPlain(k)' <=> AllPlain(k)
      /\ \A k, p, from, s : InsideArgument(k, p, from, s)' <=> InsideArgument(k, p, from, s)
  BY <1>2, SameLayout DEF ExtractDone
<1>4. /\ Len(Slots) \in Nat
      /\ \A k \in 1..Len(Slots) : Slots[k] \in Char /\ IsType(Slots[k])
  BY SlotsAre
<1>5. Piece \in Seq(Symbols)
  <2>1. text \in Seq(Symbols) /\ Len(text) \in Nat
    <3>1. text \in Seq(Symbols)
      BY <1>1, <1>4, PrintedStep
    <3>2. QED
      BY <3>1
  <2>2. QED
    BY <1>1, <1>2, <2>1 DEF Piece
<1>6. /\ pieces' \in Seq(Seq(Symbols)) /\ Len(pieces') = Len(pieces) + 1
      /\ \A k \in 1..Len(pieces) : pieces'[k] = pieces[k]
      /\ pieces'[Len(pieces) + 1] = Piece
  BY <1>1, <1>2, <1>5
<1>7. ASSUME NEW k \in 1..Len(Slots), AllPlain(k), k = Len(pieces) + 1
      PROVE  /\ Piece = Printed(Slots[k])
             /\ k < Len(Slots) => BeginOf(k + 1) = pos + 1
  <2>1. InsideArgument(k, pos, start, quoted) /\ IsPlain(Slots[k])
    BY <1>1, <1>7 DEF AllPlain
  <2>2. pos - BeginOf(k) = Len(Printed(Slots[k]))
    BY <1>1, <2>1, ScanInside
  <2>3. /\ SubSeq(text, start + 1, pos) = Printed(Slots[k])
        /\ k < Len(Slots) => BeginOf(k + 1) = pos + 1
    BY <1>1, <2>1, <2>2, AtSymbol
  <2>4. QED
    BY <2>3 DEF Piece
<1>8. ASSUME NEW k \in 1..Len(Slots), AllPlain(k), k = Len(pieces) + 2
      PROVE  InsideArgument(k, pos + 1, pos + 1, quoted)
  <2> DEFINE j == Len(pieces) + 1
  <2>1. j \in 1..Len(Slots) /\ AllPlain(j) /\ j + 1 = k /\ j < Len(Slots) /\ j = Len(pieces) + 1
    BY <1>1, <1>4, <1>8 DEF AllPlain
  <2> HIDE DEF j
  <2>2. BeginOf(k) = pos + 1
    BY <1>7, <2>1
  <2>3. Len(Printed(Slots[k])) \in Nat
    BY <1>4, PrintedIs
  <2> DEFINE last == Len(Printed(Slots[k]))
  <2>4. (pos + 1) - (pos + 1) = 0 /\ 0 \in 0..last /\ 0 \notin 1..last - 1
    BY <1>1, <2>3
  <2> HIDE DEF last
  <2>5. QED
    BY <1>2, <2>2, <2>4 DEF InsideArgument, last
<1>9. ASSUME NEW k \in 1..Len(Slots'), AllPlain(k)'
      PROVE  /\ k <= Len(pieces') => pieces'[k] = Printed(Slots'[k])
             /\ k = Len(pieces') + 1 => InsideArgument(k, pos, start, quoted)'
             /\ done' => k <= Len(pieces')
  <2>1. k \in 1..Len(Slots) /\ AllPlain(k) /\ Slots' = Slots /\ ~done'
    BY <1>2, <1>3, <1>9
  <2>2. ASSUME k <= Len(pieces') PROVE pieces'[k] = Printed(Slots[k])
    <3>1. CASE k = Len(pieces) + 1
      BY <1>6, <1>7, <2>1, <3>1
    <3>2. CASE k # Len(pieces) + 1
      <4>1. k \in 1..Len(pieces)
        BY <1>1, <1>6, <2>1, <2>2, <3>2
      <4>2. QED
        BY <1>1, <1>6, <2>1, <4>1
    <3>3. QED
      BY <3>1, <3>2
  <2>3. ASSUME k = Len(pieces') + 1 PROVE InsideArgument(k, pos, start, quoted)'
    <3>1. k = Len(pieces) + 2
      BY <1>1, <1>6, <2>3
    <3>2. InsideArgument(k, pos', start', quoted')
      BY <1>2, <1>8, <2>1, <3>1
    <3>3. QED
      BY <1>3, <3>2, Zenon
  <2>4. QED
    BY <2>1, <2>2, <2>3
<1>10. pos' \in Nat /\ start' \in Nat /\ ~done' /\ text' = PrintedUpTo'[Len(Slots')]
  BY <1>1, <1>2, <1>3
<1>11. quoted' \in BOOLEAN /\ done' \in BOOLEAN
  BY <1>1, <1>2, Zenon DEF ScanInv
<1>12. QED
  BY <1>6, <1>9, <1>10, <1>11, Zenon DEF ScanInv

(* The end of the text ends the last argument.                                *)
LEMMA ScanEnd ==
  ASSUME signature \in Seq(Char), ScanInv, EndOfText
  PROVE  ScanInv'
<1>1. /\ text = PrintedUpTo[Len(Slots)] /\ pos \in Nat /\ start \in Nat /\ quoted \in BOOLEAN
      /\ pieces \in Seq(Seq(Symbols)) /\ Len(pieces) \in Nat
      /\ \A k \in 1..Len(Slots) :
           AllPlain(k) =>
             /\ k <= Len(pieces) => pieces[k] = Printed(Slots[k])
             /\ k = Len(pieces) + 1 => InsideArgument(k, pos, start, quoted)
  BY DEF ScanInv
<1> DEFINE rest == SubSeq(text, start + 1, Len(text))
<1>2. /\ UNCHANGED <<signature, c, failed, text, pos, start, quoted>> /\ done' = TRUE /\ ExtractDone
      /\ pieces' = IF pos # start THEN Append(pieces, rest) ELSE pieces
      /\ pos >= Len(text)
  BY DEF EndOfText, extractVars
<1>3. /\ Slots' = Slots /\ PrintedUpTo' = PrintedUpTo /\ ExtractDone' = ExtractDone
      /\ \A k : AllPlain(k)' <=> AllPlain(k)
  BY <1>2, SameLayout DEF ExtractDone
<1>4. /\ Len(Slots) \in Nat
      /\ \A k \in 1..Len(Slots) : Slots[k] \in Char /\ IsType(Slots[k])
  BY SlotsAre
<1>5. rest \in Seq(Symbols)
  <2>1. text \in Seq(Symbols) /\ Len(text) \in Nat
    <3>1. text \in Seq(Symbols)
      BY <1>1, <1>4, PrintedStep
    <3>2. QED
      BY <3>1
  <2>2. QED
    BY <1>1, <2>1
<1> HIDE DEF rest
<1>6. /\ pieces' \in Seq(Seq(Symbols)) /\ Len(pieces') \in Nat
      /\ Len(pieces') = IF pos # start THEN Len(pieces) + 1 ELSE Len(pieces)
      /\ \A k \in 1..Len(pieces) : pieces'[k] = pieces[k]
      /\ pos # start => pieces'[Len(pieces) + 1] = rest
  BY <1>1, <1>2, <1>5
<1>7. ASSUME NEW k \in 1..Len(Slots), AllPlain(k), k = Len(pieces) + 1
      PROVE  rest = Printed(Slots[k]) /\ pos # start /\ k = Len(Slots)
  <2>1. InsideArgument(k, pos, start, quoted) /\ IsPlain(Slots[k])
    BY <1>1, <1>7 DEF AllPlain
  <2>2. pos - BeginOf(k) = Len(Printed(Slots[k]))
    BY <1>1, <2>1, ScanInside
  <2>3. /\ SubSeq(text, start + 1, pos) = Printed(Slots[k]) /\ pos # start
        /\ IF k < Len(Slots) THEN pos < Len(text) ELSE pos = Len(text)
    BY <1>1, <2>1, <2>2, AtSymbol
  <2>4. Len(text) \in Nat
    BY <1>1, <1>4, PrintedStep
  <2>5. pos = Len(text) /\ ~(k < Len(Slots))
    BY <1>1, <1>2, <2>3, <2>4
  <2>6. QED
    BY <1>4, <2>3, <2>5 DEF rest
<1>8. ASSUME NEW k \in 1..Len(Slots'), AllPlain(k)'
      PROVE  k <= Len(pieces') /\ pieces'[k] = Printed(Slots'[k])
  <2>1. k \in 1..Len(Slots) /\ AllPlain(k) /\ Slots' = Slots
    BY <1>3, <1>8
  <2>2. CASE k <= Len(pieces)
    <3>1. k \in 1..Len(pieces)
      BY <1>1, <2>1, <2>2
    <3>2. QED
      BY <1>1, <1>6, <2>1, <3>1
  <2>3. CASE ~(k <= Len(pieces))
    <3> DEFINE j == Len(pieces) + 1
    <3>1. j \in 1..Len(Slots) /\ AllPlain(j) /\ j = Len(pieces) + 1 /\ j <= k /\ k <= Len(Slots)
      BY <1>1, <1>4, <2>1, <2>3 DEF AllPlain
    <3> HIDE DEF j
    <3>2. rest = Printed(Slots[j]) /\ pos # start /\ j = Len(Slots)
      BY <1>7, <3>1
    <3>3. k = j
      BY <1>4, <3>1, <3>2
    <3>4. QED
      BY <1>1, <1>6, <2>1, <3>1, <3>2, <3>3
  <2>4. QED
    BY <2>2, <2>3
<1>9. \A k \in 1..Len(Slots') :
        AllPlain(k)' => k <= Len(pieces') /\ pieces'[k] = Printed(Slots'[k]) /\ k # Len(pieces') + 1
  <2>1. ASSUME NEW k \in 1..Len(Slots'), AllPlain(k)' PROVE k # Len(pieces') + 1
    BY <1>4, <1>6, <1>8, <2>1
  <2>2. QED
    BY <1>8, <2>1
<1>10. pos' \in Nat /\ start' \in Nat /\ text' = PrintedUpTo'[Len(Slots')] /\ ExtractDone'
  BY <1>1, <1>2, <1>3
<1>11. quoted' \in BOOLEAN /\ done' \in BOOLEAN
  BY <1>1, <1>2, Zenon
<1>12. QED
  BY <1>6, <1>9, <1>10, <1>11, Zenon DEF ScanInv

(* Every step, of either program, keeps the invariant of the scan.            *)
LEMMA ScanStep ==
  ASSUME ExtractInv, ScanInv, [ArgumentNext]_argumentVars
  PROVE  ExtractInv' /\ ScanInv'
<1>1. signature \in Seq(Char)
  BY DEF ExtractInv
<1>2. ASSUME UNCHANGED extractVars PROVE ExtractInv'
  <2>1. UNCHANGED <<signature, c, i, args, failed>>
    BY <1>2 DEF extractVars
  <2>2. Slots' = Slots /\ Upto' = Upto /\ \A k : Harmless(k)' <=> Harmless(k)
    BY <2>1 DEF Slots, Upto, Types, Harmless
  <2>3. Harmless(Len(args) + 1)' <=> Harmless(Len(args) + 1)
    BY <2>1, <2>2 DEF Harmless
  <2>4. QED
    BY <2>1, <2>2, <2>3 DEF ExtractInv
<1>3. ASSUME UNCHANGED textVars, signature' = signature, ExtractDone => ExtractDone'
      PROVE  ScanInv'
  <2>1. UNCHANGED <<text, pos, start, quoted, pieces, done>>
    BY <1>3 DEF textVars
  <2>2. /\ Slots' = Slots /\ PrintedUpTo' = PrintedUpTo
        /\ \A k : AllPlain(k)' <=> AllPlain(k)
        /\ \A k, p, from, s : InsideArgument(k, p, from, s)' <=> InsideArgument(k, p, from, s)
    BY <1>3, SameLayout
  <2>3. \A k : InsideArgument(k, pos, start, quoted)' <=> InsideArgument(k, pos, start, quoted)
    BY <2>1, <2>2, Zenon
  <2>4. QED
    BY <1>3, <2>1, <2>2, <2>3, Zenon DEF ScanInv
<1>4. CASE ExtractNext /\ UNCHANGED textVars
  <2>1. ExtractInv' /\ signature' = signature /\ ~ExtractDone
    BY <1>4, ExtractStep
  <2>2. QED
    BY <1>3, <1>4, <2>1
<1>5. CASE Separator \/ Quote \/ BackslashInString \/ OtherSymbol \/ EndOfText
  <2>1. UNCHANGED extractVars
    BY <1>5 DEF Separator, Quote, BackslashInString, OtherSymbol, EndOfText
  <2>2. ScanInv'
    BY <1>1, <1>5, ScanSeparator, ScanWithin, ScanEnd
  <2>3. QED
    BY <1>2, <2>1, <2>2
<1>6. CASE UNCHANGED argumentVars
  <2>1. UNCHANGED extractVars /\ UNCHANGED textVars
    BY <1>6 DEF argumentVars
  <2>2. signature' = signature /\ ExtractDone' = ExtractDone
    BY <2>1 DEF extractVars, ExtractDone
  <2>3. QED
    BY <1>2, <1>3, <2>1, <2>2
<1>7. QED
  BY <1>4, <1>5, <1>6 DEF ArgumentNext

(* Of every message: how far each of the two programs is, and that what it    *)
(* has found so far is right until an array or an odd string.                 *)
THEOREM ArgumentsInvariant == ArgumentSpec => [](ExtractInv /\ ScanInv)
<1>1. ArgumentInit => ExtractInv /\ ScanInv
  BY ExtractInitially, ScanInitially DEF ArgumentInit
<1>2. ExtractInv /\ ScanInv /\ [ArgumentNext]_argumentVars => (ExtractInv /\ ScanInv)'
  BY ScanStep
<1>3. QED
  BY <1>1, <1>2, PTL DEF ArgumentSpec

(* extract_message: until an array changes the count, each argument is read   *)
(* from its own slot, and nothing fails.                                      *)
THEOREM AlwaysRightUntilArray == ArgumentSpec => []RightUntilArray
<1>1. ExtractInv => RightUntilArray
  BY ExtractRight
<1>2. QED
  BY <1>1, ArgumentsInvariant, PTL

(* What parse.argument makes of what libwayland prints.                       *)
LEMMA ArgumentOfPrinted ==
  ASSUME NEW slot \in Char, IsType(slot)
  PROVE  LET found == Argument(Printed(slot))
         IN /\ found.type = CASE slot.null -> "nil"
                              [] slot.code \in {"i", "u"} -> "int"
                              [] slot.code = "f" -> "float"
                              [] slot.code = "s" /\ ~slot.null /\ slot.text = <<>> -> "unknown"
                              [] slot.code = "s" /\ ~slot.null /\ slot.text # <<>> -> "string"
                              [] slot.code = "o" /\ ~slot.null -> "object"
                              [] slot.code = "n" -> "new id"
                              [] slot.code = "a" -> "array"
                              [] slot.code = "h" -> "fd"
            /\ found.type = "string" => found.text = slot.text
<1> DEFINE piece == Printed(slot)
           last == Len(piece)
<1>1. /\ slot.code \in TypeCodes /\ slot.null \in BOOLEAN
      /\ slot.null => slot.code \in {"s", "o"}
  BY DEF Char, IsType
<1>2. CASE slot.null
  <2>1. piece = <<"nil">>
    BY <1>1, <1>2 DEF Printed
  <2>2. Argument(piece) = [type |-> "nil", text |-> <<>>]
    BY <2>1 DEF Argument
  <2>3. QED
    BY <1>1, <1>2, <2>2
<1>3. CASE ~slot.null /\ slot.code # "s"
  <2> DEFINE kind == CASE slot.code \in {"i", "u"} -> "int" [] slot.code = "f" -> "float"
                       [] slot.code = "o" -> "object" [] slot.code = "n" -> "new id"
                       [] slot.code = "a" -> "array" [] slot.code = "h" -> "fd"
  <2>1. piece = <<kind>> /\ kind \in {"int", "float", "object", "new id", "array", "fd"}
    BY <1>1, <1>3 DEF Printed, TypeCodes
  <2>2. Argument(<<kind>>) = [type |-> kind, text |-> <<>>]
    <3> HIDE DEF kind
    <3>1. QED
      BY <2>1 DEF Argument
  <2>3. Argument(piece).type = kind /\ kind # "string"
    <3> HIDE DEF kind, piece
    <3>1. Argument(piece) = [type |-> kind, text |-> <<>>]
      BY <2>1, <2>2
    <3>2. kind # "string"
      BY <2>1
    <3>3. QED
      BY <3>1, <3>2
  <2>4. QED
    BY <1>1, <1>3, <2>3 DEF TypeCodes
<1>4. CASE ~slot.null /\ slot.code = "s"
  <2> DEFINE t == slot.text
  <2>1. IsString(slot)
    BY <1>4 DEF IsString
  <2>2. /\ piece \in Seq(Symbols) /\ t \in Seq(Symbols) /\ Len(t) \in Nat /\ last = Len(t) + 2
        /\ piece[1] = "quote" /\ piece[last] = "quote"
        /\ \A x \in 1..Len(t) : piece[x + 1] = t[x]
    BY <2>1, PrintedIs
  <2>3. ~(last = 1)
    BY <2>2
  <2>4. t = <<>> <=> ~(last > 2)
    BY <2>2
  <2> DEFINE inner == SubSeq(piece, 2, last - 1)
  <2>5. last > 2 => inner = t
    <3>1. SUFFICES ASSUME last > 2 PROVE inner = t
      OBVIOUS
    <3>2. /\ inner \in Seq(Symbols) /\ Len(inner) = Len(t)
          /\ \A x \in 1..Len(t) : inner[x] = piece[x + 1]
      BY <2>2, <3>1
    <3> HIDE DEF inner, t, piece
    <3>3. QED
      BY <2>2, <3>2
  <2>6. last > 2 => Argument(piece) = [type |-> "string", text |-> inner]
    BY <2>2, <2>3 DEF Argument
  <2>7. ~(last > 2) => Argument(piece) = [type |-> "unknown", text |-> piece]
    BY <2>2, <2>3 DEF Argument
  <2> DEFINE found == Argument(piece)
  <2>8. IF t = <<>> THEN found.type = "unknown" ELSE found.type = "string" /\ found.text = t
    <3> HIDE DEF piece, t, inner, last, found
    <3>1. CASE last > 2
      <4>1. found = [type |-> "string", text |-> t] /\ t # <<>>
        BY <2>4, <2>5, <2>6, <3>1 DEF found
      <4>2. QED
        BY <4>1
    <3>2. CASE ~(last > 2)
      <4>1. found = [type |-> "unknown", text |-> piece] /\ t = <<>>
        BY <2>4, <2>7, <3>2 DEF found
      <4>2. QED
        BY <4>1
    <3>3. QED
      BY <3>1, <3>2
  <2>9. slot.code = "s" /\ ~slot.null /\ found = Argument(Printed(slot)) /\ t = slot.text
    BY <1>4
  <2> HIDE DEF piece, t, inner, last, found
  <2>10. CASE t = <<>>
    BY <2>8, <2>9, <2>10
  <2>11. CASE t # <<>>
    BY <2>8, <2>9, <2>11
  <2>12. QED
    BY <2>10, <2>11
<1>5. QED
  BY <1>1, <1>2, <1>3, <1>4

(* With both invariants, both programs have found the same.                   *)
LEMMA BothTheSame ==
  ASSUME ExtractInv, ScanInv
  PROVE  SameArguments
<1>1. SUFFICES ASSUME done, ~failed, NEW k \in DOMAIN Slots,
                      \A j \in 1..k : IsPlain(Slots[j]), Harmless(k)
               PROVE  /\ k \in DOMAIN pieces
                      /\ Argument(pieces[k]).type =
                           CASE Slots[k].code = "s" /\ Slots[k].null -> "nil"
                             [] Slots[k].code = "s" /\ ~Slots[k].null /\ Slots[k].text = <<>> -> "unknown"
                             [] OTHER -> TakenOut(k).type
                      /\ Argument(pieces[k]).type = "string" =>
                           Argument(pieces[k]).text = TakenOut(k).text
  BY DEF SameArguments
<1>2. signature \in Seq(Char)
  BY DEF ExtractInv
<1>3. /\ k \in 1..Len(Slots) /\ Len(Slots) \in Nat /\ Slots[k] \in Char /\ IsType(Slots[k])
      /\ Len(Upto[Len(signature)]) = Len(Slots)
  BY <1>2, SlotsAre
<1>4. Len(args) = Len(Slots)
  BY <1>1, <1>3 DEF ExtractInv, ScanInv, ExtractDone
<1>5. args[k] = [code |-> Slots[k].code, slot |-> k - 1]
  BY <1>1, <1>3, <1>4 DEF ExtractInv
<1>6. k \in DOMAIN pieces /\ pieces[k] = Printed(Slots[k])
  <2>1. AllPlain(k)
    BY <1>1 DEF AllPlain
  <2>2. k <= Len(pieces) /\ pieces[k] = Printed(Slots[k]) /\ pieces \in Seq(Seq(Symbols))
    BY <1>1, <1>3, <2>1 DEF ScanInv
  <2>3. QED
    BY <1>3, <2>2
<1> DEFINE slot == Slots[k]
<1>7. /\ slot.code \in TypeCodes /\ slot.null \in BOOLEAN
      /\ slot.null => slot.code \in {"s", "o"}
  BY <1>3 DEF Char, IsType
<1>8. Slots[args[k].slot + 1] = slot /\ args[k].code = slot.code
  BY <1>3, <1>5
<1> DEFINE taken == CASE slot.code \in {"i", "u"} -> "int" [] slot.code = "f" -> "float"
                      [] slot.code = "s" -> "string" [] slot.code = "n" -> "new id"
                      [] slot.code = "o" -> IF slot.null THEN "nil" ELSE "object"
                      [] slot.code = "a" -> "array" [] slot.code = "h" -> "fd"
<1>9. TakenOut(k) = [type |-> taken, text |-> slot.text]
  BY <1>8 DEF TakenOut
<1>10. TakenOut(k).type = taken /\ TakenOut(k).text = slot.text
  <2> HIDE DEF taken, slot
  <2>1. QED
    BY <1>9
<1> HIDE DEF slot
<1>11. /\ Argument(Printed(slot)).type =
            CASE slot.null -> "nil"
              [] slot.code \in {"i", "u"} -> "int"
              [] slot.code = "f" -> "float"
              [] slot.code = "s" /\ ~slot.null /\ slot.text = <<>> -> "unknown"
              [] slot.code = "s" /\ ~slot.null /\ slot.text # <<>> -> "string"
              [] slot.code = "o" /\ ~slot.null -> "object"
              [] slot.code = "n" -> "new id"
              [] slot.code = "a" -> "array"
              [] slot.code = "h" -> "fd"
       /\ Argument(Printed(slot)).type = "string" => Argument(Printed(slot)).text = slot.text
  BY <1>3, ArgumentOfPrinted DEF slot
<1>12. Argument(Printed(slot)).type =
         CASE slot.code = "s" /\ slot.null -> "nil"
           [] slot.code = "s" /\ ~slot.null /\ slot.text = <<>> -> "unknown"
           [] OTHER -> TakenOut(k).type
  <2>1. CASE slot.code = "s"
    BY <1>7, <1>10, <1>11, <2>1
  <2>2. CASE slot.code = "o"
    BY <1>7, <1>10, <1>11, <2>2
  <2>3. CASE slot.code \in TypeCodes \ {"s", "o"}
    <3>1. ~slot.null
      BY <1>7, <2>3
    <3> DEFINE kind == CASE slot.code \in {"i", "u"} -> "int" [] slot.code = "f" -> "float"
                         [] slot.code = "n" -> "new id" [] slot.code = "a" -> "array"
                         [] slot.code = "h" -> "fd"
    <3>2. Argument(Printed(slot)).type = kind
      BY <1>11, <2>3, <3>1 DEF TypeCodes
    <3>3. TakenOut(k).type = kind
      BY <1>10, <2>3, <3>1 DEF TypeCodes
    <3> HIDE DEF kind
    <3>4. QED
      BY <2>3, <3>1, <3>2, <3>3
  <2>4. QED
    BY <1>7, <2>1, <2>2, <2>3
<1>13. /\ k \in DOMAIN pieces /\ Argument(pieces[k]) = Argument(Printed(slot))
       /\ Slots[k] = slot
  BY <1>6 DEF slot
<1> HIDE DEF TakenOut, Argument, Printed
<1>14. QED
  BY <1>11, <1>12, <1>10, <1>13

(* Both programs find the same arguments in every message, whatever its       *)
(* strings hold, until an odd string or an array that puts one of them wrong. *)
THEOREM AlwaysSameArguments == ArgumentSpec => []SameArguments
<1>1. ExtractInv /\ ScanInv => SameArguments
  BY BothTheSame
<1>2. QED
  BY <1>1, ArgumentsInvariant, PTL
==============================================================================
