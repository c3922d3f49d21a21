---------------------------- MODULE ManagerProofs ----------------------------
(* Theorems about ConnectionManager for any set of ids and messages and any  *)
(* number of connections, and about what the connections are called.         *)
EXTENDS ConnectionNames, SelectionProofs, TLAPS

Entry == [id : ConnIds, open : BOOLEAN, stored : Seq(Payloads)]

(* The inductive invariant: who is open is told the same way in two places,  *)
(* from which it follows that only the newest connection of an id is open.   *)
Inv == RecordsOK /\ OpenIsReachable /\ OnlyNewestOpen

Events == [kind : {"opened", "message", "closed"}, conn : Nat, n : Nat]

(* What the listener is told when an id is closed is a sequence of events.   *)
LEMMA ClosedEventsType ==
  ASSUME Inv, NEW id \in ConnIds
  PROVE  ClosedEvents(id) \in Seq(Events)
<1>1. open_connections[id] \in Nat
  BY DEF Inv, RecordsOK
<1> DEFINE e == Event("closed", open_connections[id], 0)
<1>2. e \in Events
  BY <1>1 DEF Event, Events
<1>3. ClosedEvents(id) = <<e>> \/ ClosedEvents(id) = <<>>
  BY DEF ClosedEvents
<1> HIDE DEF e
<1>4. <<e>> \in Seq(Events) /\ <<>> \in Seq(Events)
  BY <1>2
<1>5. QED
  BY <1>3, <1>4

(* Closing whatever is open under an id leaves nothing open that had it, and *)
(* touches no other connection.                                              *)
LEMMA ClosedEffect ==
  ASSUME Inv, NEW id \in ConnIds
  PROVE  /\ Closed(id) \in Seq(Entry)
         /\ Len(Closed(id)) = Len(connection_list)
         /\ \A c \in Connections :
              /\ Closed(id)[c].id = connection_list[c].id
              /\ Closed(id)[c].stored = connection_list[c].stored
              /\ Closed(id)[c].open <=> connection_list[c].open /\ connection_list[c].id # id
              /\ ~connection_list[c].open => Closed(id)[c] = connection_list[c]
<1> DEFINE o == open_connections[id]
<1>1. /\ connection_list \in Seq(Entry) /\ o \in Nat
      /\ Len(connection_list) \in Nat /\ Connections = 1..Len(connection_list)
      /\ \A c \in Connections : connection_list[c] \in Entry
  <2>1. connection_list \in Seq(Entry)
    BY DEF Inv, RecordsOK, Entry
  <2>2. open_connections \in [ConnIds -> Nat]
    BY DEF Inv, RecordsOK
  <2> HIDE DEF Entry
  <2>3. QED
    BY <2>1, <2>2 DEF Connections
<1>2. \A c \in Connections :
        /\ connection_list[c].open \in BOOLEAN /\ connection_list[c].id \in ConnIds
        /\ connection_list[c].stored \in Seq(Payloads)
        /\ connection_list[c].open <=> open_connections[connection_list[c].id] = c
  BY <1>1 DEF Inv, OpenIsReachable, Entry
<1>3. CASE IsOpen(id)
  <2>1. o \in Connections /\ connection_list[o].id = id
    BY <1>3 DEF Inv, OpenIsReachable
  <2> DEFINE e == [connection_list[o] EXCEPT !.open = FALSE]
  <2>2. e \in Entry /\ e.id = id /\ e.stored = connection_list[o].stored /\ ~e.open
    BY <1>1, <2>1 DEF Entry
  <2>3. Closed(id) = [connection_list EXCEPT ![o] = e]
    BY <1>3 DEF Closed
  <2> HIDE DEF e
  <2>4. /\ Closed(id) \in Seq(Entry) /\ Len(Closed(id)) = Len(connection_list)
        /\ Closed(id)[o] = e
        /\ \A c \in Connections : c # o => Closed(id)[c] = connection_list[c]
    BY <1>1, <2>1, <2>2, <2>3
  <2>5. connection_list[o].open
    BY <1>2, <2>1
  <2>6. \A c \in Connections : c # o /\ connection_list[c].id = id => ~connection_list[c].open
    BY <1>2
  <2>7. QED
    BY <1>2, <2>1, <2>2, <2>4, <2>5, <2>6
<1>4. CASE ~IsOpen(id)
  <2>1. Closed(id) = connection_list /\ o = 0
    BY <1>4 DEF Closed, IsOpen
  <2>2. \A c \in Connections : connection_list[c].id = id => ~connection_list[c].open
    BY <1>1, <1>2, <2>1
  <2>3. QED
    BY <1>1, <1>2, <2>1, <2>2
<1>5. QED
  BY <1>3, <1>4
(* Opening a connection keeps the invariant: the one that had the id is      *)
(* closed, the new one is the newest of its id and the only open one.        *)
LEMMA OpenKeepsInv ==
  ASSUME Inv, NEW id \in ConnIds, OpenConnection(id)
  PROVE  /\ Inv'
         /\ \A c \in Connections : ~connection_list[c].open => connection_list'[c] = connection_list[c]
<1> DEFINE n == Len(connection_list)
           e == [id |-> id, open |-> TRUE, stored |-> <<>>]
<1>1. /\ connection_list' = Append(Closed(id), e)
      /\ open_connections' = [open_connections EXCEPT ![id] = n + 1]
      /\ raised' = "none"
  BY DEF OpenConnection
<1>2. e \in Entry /\ e.id = id /\ e.open
  BY DEF Entry
<1>3. /\ n \in Nat /\ open_connections \in [ConnIds -> Nat]
      /\ Connections = 1..n
      /\ connection_list \in Seq(Entry)
  BY DEF Inv, RecordsOK, Connections, Entry
<1> HIDE DEF e
<1>4. /\ connection_list' \in Seq(Entry) /\ Connections' = 1..n+1
      /\ connection_list'[n + 1] = e
      /\ \A c \in 1..n :
           /\ connection_list'[c] = Closed(id)[c]
           /\ connection_list'[c].id = connection_list[c].id
           /\ connection_list'[c].open <=> connection_list[c].open /\ connection_list[c].id # id
           /\ ~connection_list[c].open => connection_list'[c] = connection_list[c]
  <2>1. /\ connection_list' \in Seq(Entry) /\ Len(connection_list') = n + 1
        /\ connection_list'[n + 1] = e
        /\ \A c \in 1..n : connection_list'[c] = Closed(id)[c]
    BY <1>1, <1>2, <1>3, ClosedEffect
  <2>2. QED
    BY <1>3, <2>1, ClosedEffect, SMTT(20) DEF Connections
<1>5. RecordsOK'
  <2>1. open_connections' \in [ConnIds -> Nat]
    BY <1>1, <1>3
  <2>2. events' \in Seq([kind : {"opened", "message", "closed"}, conn : Nat, n : Nat])
    <3> DEFINE e0 == Event("opened", n + 1, 0)
    <3>1. events \in Seq(Events) /\ ClosedEvents(id) \in Seq(Events)
      BY ClosedEventsType DEF Inv, RecordsOK, Events
    <3>2. e0 \in Events
      BY <1>3 DEF Event, Events
    <3>3. events' = events \o ClosedEvents(id) \o <<e0>>
      BY DEF OpenConnection
    <3> HIDE DEF e0
    <3>4. events' \in Seq(Events)
      BY <3>1, <3>2, <3>3
    <3>5. QED
      BY <3>4 DEF Events
  <2>3. QED
    BY <1>1, <1>4, <2>1, <2>2 DEF RecordsOK, Entry
<1>6. OpenIsReachable'
  <2>1. \A j \in ConnIds : open_connections'[j] = IF j = id THEN n + 1 ELSE open_connections[j]
    BY <1>1, <1>3
  <2>2. ASSUME NEW j \in ConnIds, open_connections'[j] # 0
        PROVE  /\ open_connections'[j] \in 1..n+1
               /\ connection_list'[open_connections'[j]].id = j
    <3>1. CASE j = id
      BY <1>2, <1>3, <1>4, <2>1, <3>1
    <3>2. CASE j # id
      <4>1. open_connections[j] \in 1..n /\ connection_list[open_connections[j]].id = j
        BY <1>3, <2>1, <2>2, <3>2 DEF Inv, OpenIsReachable, IsOpen
      <4>2. QED
        BY <1>3, <1>4, <2>1, <3>2, <4>1
    <3>3. QED
      BY <3>1, <3>2
  <2>3. ASSUME NEW c \in 1..n+1
        PROVE  connection_list'[c].open <=> open_connections'[connection_list'[c].id] = c
    <3>1. CASE c = n + 1
      BY <1>2, <1>4, <2>1, <3>1
    <3>2. CASE c \in 1..n
      <4>1. /\ connection_list[c] \in Entry
            /\ connection_list[c].open <=> open_connections[connection_list[c].id] = c
        BY <1>3, <3>2 DEF Inv, OpenIsReachable
      <4>2. connection_list[c].id \in ConnIds
        BY <4>1 DEF Entry
      <4>3. CASE connection_list[c].id = id
        BY <1>3, <1>4, <2>1, <3>2, <4>2, <4>3
      <4>4. CASE connection_list[c].id # id
        BY <1>4, <2>1, <3>2, <4>1, <4>2, <4>4
      <4>5. QED
        BY <4>3, <4>4
    <3>3. QED
      BY <1>3, <3>1, <3>2
  <2>4. QED
    BY <1>4, <2>2, <2>3 DEF OpenIsReachable, IsOpen
<1>7. OnlyNewestOpen'
  <2>1. SUFFICES ASSUME NEW c \in 1..n+1, NEW d \in 1..n+1,
                        c < d, connection_list'[c].id = connection_list'[d].id
                 PROVE  ~connection_list'[c].open
    BY <1>4 DEF OnlyNewestOpen
  <2>2. c \in 1..n /\ (d = n + 1 \/ d \in 1..n)
    BY <1>3, <2>1
  <2>3. CASE d = n + 1
    BY <1>2, <1>4, <2>1, <2>2, <2>3
  <2>4. CASE d \in 1..n
    <3>1. connection_list[c].id = connection_list[d].id
      BY <1>4, <2>1, <2>2, <2>4
    <3>2. ~connection_list[c].open
      BY <1>3, <2>1, <2>2, <2>4, <3>1 DEF Inv, OnlyNewestOpen
    <3>3. QED
      BY <1>4, <2>2, <3>2
  <2>5. QED
    BY <2>2, <2>3, <2>4
<1>8. QED
  BY <1>3, <1>4, <1>5, <1>6, <1>7 DEF Inv

(* Closing keeps the invariant.                                              *)
LEMMA CloseKeepsInv ==
  ASSUME Inv, NEW id \in ConnIds, CloseConnection(id)
  PROVE  /\ Inv'
         /\ \A c \in Connections : ~connection_list[c].open => connection_list'[c] = connection_list[c]
<1> DEFINE n == Len(connection_list)
<1>1. /\ connection_list' = Closed(id)
      /\ open_connections' = [open_connections EXCEPT ![id] = 0]
      /\ raised' = "none"
  BY DEF CloseConnection
<1>2. /\ n \in Nat /\ open_connections \in [ConnIds -> Nat]
      /\ Connections = 1..n
      /\ connection_list \in Seq(Entry)
  BY DEF Inv, RecordsOK, Connections, Entry
<1>3. /\ connection_list' \in Seq(Entry) /\ Connections' = 1..n
      /\ \A c \in 1..n :
           /\ connection_list'[c].id = connection_list[c].id
           /\ connection_list'[c].open <=> connection_list[c].open /\ connection_list[c].id # id
           /\ ~connection_list[c].open => connection_list'[c] = connection_list[c]
  BY <1>1, <1>2, ClosedEffect DEF Connections
<1>4. RecordsOK'
  <2>1. events' \in Seq([kind : {"opened", "message", "closed"}, conn : Nat, n : Nat])
    <3>1. events \in Seq(Events) /\ ClosedEvents(id) \in Seq(Events)
      BY ClosedEventsType DEF Inv, RecordsOK, Events
    <3>2. events' = events \o ClosedEvents(id)
      BY DEF CloseConnection
    <3>3. events' \in Seq(Events)
      BY <3>1, <3>2
    <3>4. QED
      BY <3>3 DEF Events
  <2>2. QED
    BY <1>1, <1>2, <1>3, <2>1 DEF RecordsOK, Entry
<1>5. OpenIsReachable'
  <2>1. \A j \in ConnIds : open_connections'[j] = IF j = id THEN 0 ELSE open_connections[j]
    BY <1>1, <1>2
  <2>2. ASSUME NEW j \in ConnIds, open_connections'[j] # 0
        PROVE  /\ open_connections'[j] \in 1..n
               /\ connection_list'[open_connections'[j]].id = j
    BY <1>2, <1>3, <2>1, <2>2 DEF Inv, OpenIsReachable, IsOpen
  <2>3. ASSUME NEW c \in 1..n
        PROVE  connection_list'[c].open <=> open_connections'[connection_list'[c].id] = c
    <3>1. /\ connection_list[c] \in Entry
          /\ connection_list[c].open <=> open_connections[connection_list[c].id] = c
      BY <1>2 DEF Inv, OpenIsReachable
    <3>2. connection_list[c].id \in ConnIds
      BY <3>1 DEF Entry
    <3>3. QED
      BY <1>2, <1>3, <2>1, <3>1, <3>2
  <2>4. QED
    BY <1>3, <2>2, <2>3 DEF OpenIsReachable, IsOpen
<1>6. OnlyNewestOpen'
  BY <1>2, <1>3 DEF Inv, OnlyNewestOpen
<1>7. QED
  BY <1>2, <1>3, <1>4, <1>5, <1>6 DEF Inv

(* A message changes only what the open connection of its id has stored.     *)
LEMMA MessageKeepsInv ==
  ASSUME Inv, NEW id \in ConnIds, NEW m \in Payloads, Message(id, m)
  PROVE  /\ Inv'
         /\ \A c \in Connections : ~connection_list[c].open => connection_list'[c] = connection_list[c]
<1>1. CASE MessageRefused(id)
  BY <1>1 DEF MessageRefused, Inv, RecordsOK, OpenIsReachable, OnlyNewestOpen, Connections, IsOpen
<1>2. CASE MessageAccepted(id, m)
  <2> DEFINE c == open_connections[id]
             n == Len(connection_list)
             e == [connection_list[c] EXCEPT !.stored = Append(connection_list[c].stored, m)]
  <2>1. /\ n \in Nat /\ open_connections \in [ConnIds -> Nat]
        /\ Connections = 1..n
        /\ connection_list \in Seq(Entry)
    BY DEF Inv, RecordsOK, Connections, Entry
  <2>2. c \in 1..n /\ connection_list[c].id = id
    BY <1>2, <2>1 DEF MessageAccepted, Inv, OpenIsReachable
  <2>3. connection_list[c].open
    BY <2>1, <2>2 DEF Inv, OpenIsReachable
  <2>4. /\ e \in Entry /\ e.id = connection_list[c].id /\ e.open = connection_list[c].open
        /\ connection_list[c].stored \in Seq(Payloads)
    <3> DEFINE x == connection_list[c]
               t == Append(x.stored, m)
    <3>1. x \in Entry
      BY <2>1, <2>2
    <3>2. x.stored \in Seq(Payloads)
      BY <3>1 DEF Entry
    <3>3. t \in Seq(Payloads)
      BY <3>2
    <3> HIDE DEF x, t
    <3>4. LET f == [x EXCEPT !.stored = t] IN f \in Entry /\ f.id = x.id /\ f.open = x.open
      BY <3>1, <3>3 DEF Entry
    <3>5. QED
      BY <3>2, <3>4 DEF x, t
  <2>5. connection_list' = [connection_list EXCEPT ![c] = e] /\ open_connections' = open_connections
    BY <1>2 DEF MessageAccepted
  <2>6. raised' \in {"none", "RuntimeError", "AssertionError"}
    BY <1>2 DEF MessageAccepted
  <2>7. events' \in Seq([kind : {"opened", "message", "closed"}, conn : Nat, n : Nat])
    <3> DEFINE k == Len(connection_list[c].stored) + 1
    <3>1. events \in Seq(Events) /\ c \in Nat /\ k \in Nat
      BY <2>1, <2>2, <2>4 DEF Inv, RecordsOK, Events
    <3>2. Event("message", c, k) \in Events
      BY <3>1 DEF Event, Events
    <3>3. events' = events \/ events' = Append(events, Event("message", c, k))
      BY <1>2 DEF MessageAccepted
    <3>4. events' \in Seq(Events)
      BY <3>1, <3>2, <3>3
    <3>5. QED
      BY <3>4 DEF Events
  <2> HIDE DEF e
  <2>8. /\ connection_list' \in Seq(Entry) /\ Connections' = 1..n
        /\ connection_list'[c] = e
        /\ \A d \in 1..n : d # c => connection_list'[d] = connection_list[d]
    BY <2>1, <2>2, <2>4, <2>5 DEF Connections
  <2>9. \A d \in 1..n : /\ connection_list'[d].id = connection_list[d].id
                        /\ connection_list'[d].open = connection_list[d].open
    BY <2>4, <2>8
  <2>10. RecordsOK'
    BY <2>1, <2>5, <2>6, <2>7, <2>8 DEF RecordsOK, Entry
  <2>11. OpenIsReachable' /\ OnlyNewestOpen'
    BY <2>1, <2>5, <2>8, <2>9 DEF Inv, OpenIsReachable, OnlyNewestOpen, IsOpen
  <2>12. QED
    BY <2>1, <2>3, <2>8, <2>10, <2>11 DEF Inv
<1>3. QED
  BY <1>1, <1>2 DEF Message

(* Every step of the manager keeps the invariant and what is closed.         *)
LEMMA StepKeepsInv ==
  ASSUME Inv, [ManagerNext]_managerVars
  PROVE  /\ Inv'
         /\ \A c \in Connections : ~connection_list[c].open => connection_list'[c] = connection_list[c]
<1>1. CASE ManagerNext
  BY <1>1, OpenKeepsInv, CloseKeepsInv, MessageKeepsInv DEF ManagerNext
<1>2. CASE UNCHANGED managerVars
  BY <1>2 DEF managerVars, Inv, RecordsOK, OpenIsReachable, OnlyNewestOpen, Connections, IsOpen
<1>3. QED
  BY <1>1, <1>2

(* The invariant holds in every state the manager reaches.                   *)
THEOREM ManagerInvariant == ManagerSpec => []Inv
<1>1. Init => Inv
  BY DEF Init, Inv, RecordsOK, OpenIsReachable, OnlyNewestOpen, Connections, IsOpen
<1>2. Inv /\ [ManagerNext]_managerVars => Inv'
  BY StepKeepsInv
<1>3. QED
  BY <1>1, <1>2, PTL DEF ManagerSpec

(* The manager is well typed, and raises nothing but its assert and what     *)
(* handling a message raises.                                                *)
THEOREM ManagerTypeCorrect == ManagerSpec => []ManagerTypeOK
<1> DEFINE Raises == raised \in {"none", "RuntimeError", "AssertionError"}
<1>1. Init => Raises
  BY DEF Init
<1>2. Raises /\ [ManagerNext]_managerVars => Raises'
  BY DEF ManagerNext, managerVars, OpenConnection, CloseConnection, Message,
         MessageRefused, MessageAccepted
<1>3. Inv /\ Raises => ManagerTypeOK
  BY DEF Inv, ManagerTypeOK
<1>4. QED
  BY <1>1, <1>2, <1>3, ManagerInvariant, PTL DEF ManagerSpec

(* The dictionary of open connections and the connections' own flags agree,  *)
(* whatever ids are opened, reused and closed, in whatever order.            *)
THEOREM OpenStaysReachable == ManagerSpec => []OpenIsReachable
<1>1. Inv => OpenIsReachable
  BY DEF Inv
<1>2. QED
  BY <1>1, ManagerInvariant, PTL

(* Only the newest connection of an id can be open.                          *)
THEOREM NewestIsOpen == ManagerSpec => []OnlyNewestOpen
<1>1. Inv => OnlyNewestOpen
  BY DEF Inv
<1>2. QED
  BY <1>1, ManagerInvariant, PTL

(* Nothing reaches a closed connection, and it never opens again.            *)
THEOREM ClosedStaysFinal == ManagerSpec => ClosedIsFinal
<1> DEFINE Final ==
      \A c \in Connections : ~connection_list[c].open => connection_list'[c] = connection_list[c]
<1>1. Inv /\ [ManagerNext]_managerVars => Final
  BY StepKeepsInv
<1>2. QED
  BY <1>1, ManagerInvariant, PTL DEF ManagerSpec, ClosedIsFinal
------------------------------------------------------------------------------
(* What the listener is told of the end of a connection *)

(* Every event is about a connection there is.  Of a connection that is      *)
(* closed, and of no other, the listener was told so, once and last.         *)
EndsTold(es, cs) ==
  /\ \A i \in 1..Len(es) :
       /\ es[i].conn \in 1..Len(cs)
       /\ es[i].kind = "closed" => ~cs[es[i].conn].open
  /\ \A c \in 1..Len(cs) : ~cs[c].open =>
       \E i \in 1..Len(es) :
         /\ es[i].kind = "closed" /\ es[i].conn = c
         /\ \A j \in 1..Len(es) : es[j].conn = c /\ j # i => j < i /\ es[j].kind # "closed"

ClosingIsTold == EndsTold(events, connection_list)

(* One more event: about a connection that is open, or about one that has    *)
(* just been closed.                                                         *)
LEMMA ToldOneMore ==
  ASSUME NEW es \in Seq(Events), NEW e \in Events,
         NEW before \in Seq(Entry), NEW after \in Seq(Entry),
         EndsTold(es, before), Len(before) <= Len(after),
         e.conn \in 1..Len(after),
         e.kind = "closed" <=> ~after[e.conn].open,
         e.kind = "closed" => e.conn \in 1..Len(before) /\ before[e.conn].open,
         \A c \in 1..Len(before) : ~before[c].open => ~after[c].open,
         \A c \in 1..Len(after) :
           ~after[c].open /\ c # e.conn => c \in 1..Len(before) /\ ~before[c].open
  PROVE  EndsTold(Append(es, e), after)
<1> DEFINE new == Append(es, e)
           n == Len(es)
<1>1. /\ n \in Nat /\ Len(new) = n + 1 /\ new[n + 1] = e
      /\ \A i \in 1..n : new[i] = es[i]
      /\ Len(before) \in Nat /\ Len(after) \in Nat
  OBVIOUS
<1> HIDE DEF new
<1>2. \A i \in 1..Len(new) : i = n + 1 \/ (i \in 1..n /\ i < n + 1)
  BY <1>1
<1>3. ASSUME NEW i \in 1..Len(new)
      PROVE  new[i].conn \in 1..Len(after) /\ (new[i].kind = "closed" => ~after[new[i].conn].open)
  <2>1. CASE i = n + 1
    BY <1>1, <2>1
  <2>2. CASE i \in 1..n
    <3>1. es[i].conn \in 1..Len(before) /\ (es[i].kind = "closed" => ~before[es[i].conn].open)
      BY <2>2 DEF EndsTold
    <3>2. QED
      BY <1>1, <2>2, <3>1
  <2>3. QED
    BY <1>2, <1>3, <2>1, <2>2
<1>4. ASSUME NEW c \in 1..Len(after), ~after[c].open
      PROVE  \E i \in 1..Len(new) :
               /\ new[i].kind = "closed" /\ new[i].conn = c
               /\ \A j \in 1..Len(new) : new[j].conn = c /\ j # i => j < i /\ new[j].kind # "closed"
  <2>1. CASE c = e.conn
    <3>1. e.kind = "closed" /\ c \in 1..Len(before) /\ before[c].open
      BY <1>4, <2>1
    <3>2. \A j \in 1..n : es[j].conn = c => es[j].kind # "closed"
      BY <3>1 DEF EndsTold
    <3>3. \A j \in 1..Len(new) : new[j].conn = c /\ j # n + 1 => j < n + 1 /\ new[j].kind # "closed"
      BY <1>1, <1>2, <3>2
    <3>4. QED
      BY <1>1, <2>1, <3>1, <3>3
  <2>2. CASE c # e.conn
    <3>1. c \in 1..Len(before) /\ ~before[c].open
      BY <1>4, <2>2
    <3>2. PICK i \in 1..n :
            /\ es[i].kind = "closed" /\ es[i].conn = c
            /\ \A j \in 1..n : es[j].conn = c /\ j # i => j < i /\ es[j].kind # "closed"
      BY <3>1 DEF EndsTold
    <3>3. \A j \in 1..Len(new) : new[j].conn = c /\ j # i => j < i /\ new[j].kind # "closed"
      <4>1. SUFFICES ASSUME NEW j \in 1..Len(new), new[j].conn = c, j # i
                     PROVE  j < i /\ new[j].kind # "closed"
        OBVIOUS
      <4>2. j # n + 1
        BY <1>1, <2>2, <4>1
      <4>3. j \in 1..n
        BY <1>2, <4>1, <4>2
      <4>4. QED
        BY <1>1, <3>2, <4>1, <4>3
    <3>4. i \in 1..Len(new) /\ new[i] = es[i]
      BY <1>1
    <3>5. QED
      BY <3>2, <3>3, <3>4
  <2>3. QED
    BY <2>1, <2>2
<1>5. QED
  BY <1>3, <1>4 DEF EndsTold, new

(* Closing an id tells of the connection that it led to.                     *)
LEMMA ClosedIsTold ==
  ASSUME Inv, ClosingIsTold, NEW id \in ConnIds
  PROVE  EndsTold(events \o ClosedEvents(id), Closed(id))
<1> DEFINE o == open_connections[id]
           e == Event("closed", o, 0)
<1>1. /\ connection_list \in Seq(Entry) /\ events \in Seq(Events) /\ o \in Nat
      /\ Connections = 1..Len(connection_list)
  <2>1. connection_list \in Seq(Entry) /\ open_connections \in [ConnIds -> Nat]
    BY DEF Inv, RecordsOK, Entry
  <2>2. events \in Seq(Events)
    BY DEF Inv, RecordsOK, Events
  <2>3. QED
    BY <2>1, <2>2 DEF Connections
<1>2. CASE IsOpen(id)
  <2>1. o \in Connections /\ connection_list[o].id = id
    BY <1>2 DEF Inv, OpenIsReachable
  <2>2. connection_list[o].open
    BY <2>1 DEF Inv, OpenIsReachable
  <2>3. e \in Events /\ e.kind = "closed" /\ e.conn = o
    BY <1>1 DEF Event, Events
  <2>4. events \o ClosedEvents(id) = Append(events, e)
    <3>1. ClosedEvents(id) = <<e>>
      BY <1>2 DEF ClosedEvents
    <3> HIDE DEF e
    <3>2. QED
      BY <1>1, <2>3, <3>1
  <2> HIDE DEF e
  <2>5. /\ Closed(id) \in Seq(Entry) /\ Len(Closed(id)) = Len(connection_list)
        /\ Len(connection_list) \in Nat
        /\ \A c \in 1..Len(connection_list) :
             Closed(id)[c].open <=> connection_list[c].open /\ connection_list[c].id # id
    BY <1>1, ClosedEffect
  <2>6. \A c \in 1..Len(connection_list) : connection_list[c].open /\ connection_list[c].id = id => c = o
    BY <1>1 DEF Inv, OpenIsReachable
  <2>7. EndsTold(Append(events, e), Closed(id))
    <3>1. e.conn \in 1..Len(Closed(id)) /\ ~Closed(id)[e.conn].open
      BY <1>1, <2>1, <2>3, <2>5
    <3>2. \A c \in 1..Len(Closed(id)) : ~Closed(id)[c].open /\ c # e.conn =>
             c \in 1..Len(connection_list) /\ ~connection_list[c].open
      BY <2>3, <2>5, <2>6
    <3>3. QED
      BY <1>1, <2>1, <2>2, <2>3, <2>5, <3>1, <3>2, ToldOneMore, SMTT(20) DEF ClosingIsTold
  <2>8. QED
    BY <2>4, <2>7
<1>3. CASE ~IsOpen(id)
  <2>1. events \o ClosedEvents(id) = events /\ Closed(id) = connection_list
    BY <1>1, <1>3 DEF ClosedEvents, Closed
  <2>2. QED
    BY <2>1 DEF ClosingIsTold
<1>4. QED
  BY <1>2, <1>3

(* Every step of the manager tells of what it closes.                        *)
LEMMA StepIsTold ==
  ASSUME Inv, ClosingIsTold, [ManagerNext]_managerVars
  PROVE  ClosingIsTold'
<1>1. /\ connection_list \in Seq(Entry) /\ events \in Seq(Events)
      /\ open_connections \in [ConnIds -> Nat]
      /\ Connections = 1..Len(connection_list)
  <2>1. connection_list \in Seq(Entry) /\ open_connections \in [ConnIds -> Nat]
    BY DEF Inv, RecordsOK, Entry
  <2>2. events \in Seq(Events)
    BY DEF Inv, RecordsOK, Events
  <2>3. QED
    BY <2>1, <2>2 DEF Connections
<1>2. connection_list' \in Seq(Entry)
  <2>1. Inv'
    BY StepKeepsInv
  <2>2. QED
    BY <2>1 DEF Inv, RecordsOK, Entry
<1>3. ASSUME NEW id \in ConnIds, OpenConnection(id) PROVE ClosingIsTold'
  <2> DEFINE n == Len(connection_list)
             new == [id |-> id, open |-> TRUE, stored |-> <<>>]
             e == Event("opened", n + 1, 0)
             es == events \o ClosedEvents(id)
  <2>1. /\ connection_list' = Append(Closed(id), new)
        /\ events' = es \o <<e>>
    BY <1>3 DEF OpenConnection
  <2>2. /\ Closed(id) \in Seq(Entry) /\ Len(Closed(id)) = n /\ n \in Nat
    BY <1>1, ClosedEffect
  <2>3. es \in Seq(Events) /\ EndsTold(es, Closed(id))
    BY <1>1, ClosedEventsType, ClosedIsTold
  <2>4. e \in Events /\ e.kind = "opened" /\ e.conn = n + 1
    BY <2>2 DEF Event, Events
  <2>5. new.open
    OBVIOUS
  <2> HIDE DEF e, new, es
  <2>6. events' = Append(es, e)
    BY <2>1, <2>3, <2>4
  <2>7. /\ Len(connection_list') = n + 1 /\ connection_list'[n + 1] = new
        /\ \A c \in 1..n : connection_list'[c] = Closed(id)[c]
    BY <1>2, <2>1, <2>2
  <2>8. EndsTold(Append(es, e), connection_list')
    <3>1. e.conn \in 1..Len(connection_list') /\ connection_list'[e.conn].open
      BY <2>2, <2>4, <2>5, <2>7
    <3>2. \A c \in 1..n : ~Closed(id)[c].open => ~connection_list'[c].open
      BY <2>7
    <3>3. \A c \in 1..Len(connection_list') :
            ~connection_list'[c].open /\ c # e.conn => c \in 1..n /\ ~Closed(id)[c].open
      BY <2>2, <2>4, <2>7
    <3>4. QED
      BY <1>2, <2>2, <2>3, <2>4, <2>7, <3>1, <3>2, <3>3, ToldOneMore
  <2>9. QED
    BY <2>6, <2>8 DEF ClosingIsTold
<1>4. ASSUME NEW id \in ConnIds, CloseConnection(id) PROVE ClosingIsTold'
  BY <1>4, ClosedIsTold DEF CloseConnection, ClosingIsTold
<1>5. ASSUME NEW id \in ConnIds, NEW m \in Payloads, MessageAccepted(id, m) PROVE ClosingIsTold'
  <2> DEFINE o == open_connections[id]
             k == Len(connection_list[o].stored) + 1
             t == Append(connection_list[o].stored, m)
             e == Event("message", o, k)
  <2>1. o \in Connections /\ connection_list[o].id = id
    BY <1>5 DEF MessageAccepted, Inv, OpenIsReachable
  <2>2. connection_list[o].open
    BY <2>1 DEF Inv, OpenIsReachable
  <2>3. connection_list' = [connection_list EXCEPT ![o].stored = t]
    BY <1>5 DEF MessageAccepted
  <2>4. events' = events \/ events' = Append(events, e)
    BY <1>5 DEF MessageAccepted
  <2>5. connection_list[o] \in Entry
    BY <1>1, <2>1
  <2>6. e \in Events /\ e.kind = "message" /\ e.conn = o
    <3>1. k \in Nat /\ o \in Nat
      BY <1>1, <2>5 DEF Entry
    <3>2. QED
      BY <3>1 DEF Event, Events
  <2> HIDE DEF e, t, k
  <2>7. /\ Len(connection_list') = Len(connection_list) /\ Len(connection_list) \in Nat
        /\ \A c \in 1..Len(connection_list) : connection_list'[c].open = connection_list[c].open
    <3>1. Len(connection_list') = Len(connection_list) /\ Len(connection_list) \in Nat
      BY <1>1, <2>3
    <3>2. \A c \in 1..Len(connection_list) : c # o => connection_list'[c] = connection_list[c]
      BY <1>1, <2>1, <2>3
    <3>3. connection_list'[o].open = connection_list[o].open
      BY <1>1, <2>1, <2>3, <2>5 DEF Entry
    <3>4. QED
      BY <3>1, <3>2, <3>3
  <2>8. EndsTold(events, connection_list')
    BY <2>7 DEF ClosingIsTold, EndsTold
  <2>9. EndsTold(Append(events, e), connection_list')
    <3>1. e.conn \in 1..Len(connection_list') /\ connection_list'[e.conn].open
      BY <1>1, <2>1, <2>2, <2>6, <2>7
    <3>2. \A c \in 1..Len(connection_list') :
            ~connection_list'[c].open => c \in 1..Len(connection_list) /\ ~connection_list[c].open
      BY <2>7
    <3>3. Len(connection_list) <= Len(connection_list')
      BY <2>7
    <3>4. QED
      BY <1>1, <1>2, <2>6, <2>7, <3>1, <3>2, <3>3, ToldOneMore DEF ClosingIsTold
  <2>10. QED
    BY <2>4, <2>8, <2>9 DEF ClosingIsTold
<1>6. ASSUME NEW id \in ConnIds, MessageRefused(id) PROVE ClosingIsTold'
  BY <1>6 DEF MessageRefused, ClosingIsTold
<1>7. ASSUME UNCHANGED managerVars PROVE ClosingIsTold'
  BY <1>7 DEF managerVars, ClosingIsTold
<1>8. QED
  BY <1>3, <1>4, <1>5, <1>6, <1>7 DEF ManagerNext, Message

(* The listener is told of every connection that closes, once and after all  *)
(* else about it, and of none that is open.                                  *)
THEOREM ClosingAlwaysTold == ManagerSpec => []ClosingIsTold
<1>1. Init => ClosingIsTold
  BY DEF Init, ClosingIsTold, EndsTold
<1>2. Inv /\ ClosingIsTold /\ [ManagerNext]_managerVars => ClosingIsTold'
  BY StepIsTold
<1>3. QED
  BY <1>1, <1>2, ManagerInvariant, PTL DEF ManagerSpec
------------------------------------------------------------------------------
(* The rest of what the listener is told of a connection *)

(* Every connection was announced, once and first.  Messages are counted     *)
(* from 1 up to those the connection has, each higher than what came before. *)
BeginsTold(es, cs) ==
  \A c \in 1..Len(cs) : \E i \in 1..Len(es) :
    /\ es[i].kind = "opened" /\ es[i].conn = c
    /\ \A j \in 1..Len(es) : es[j].conn = c /\ j # i => j > i /\ es[j].kind # "opened"

MessagesTold(es, cs) ==
  \A i \in 1..Len(es) :
    /\ es[i].conn \in 1..Len(cs)
    /\ es[i].n <= Len(cs[es[i].conn].stored)
    /\ es[i].kind = "message" =>
         /\ es[i].n >= 1
         /\ \A j \in 1..i-1 : es[j].conn = es[i].conn => es[j].n < es[i].n

StoryTold(es, cs) == BeginsTold(es, cs) /\ MessagesTold(es, cs)

(* Connections may be added, and messages may be stored.                     *)
GrowsTo(before, after) ==
  /\ Len(before) <= Len(after)
  /\ \A c \in 1..Len(before) : Len(before[c].stored) <= Len(after[c].stored)

LEMMA StoredIsCounted ==
  ASSUME NEW cs \in Seq(Entry), NEW c \in 1..Len(cs)
  PROVE  Len(cs[c].stored) \in Nat /\ Len(cs) \in Nat
<1>1. cs[c] \in Entry /\ Len(cs) \in Nat
  OBVIOUS
<1>2. QED
  BY <1>1 DEF Entry

LEMMA SameStory ==
  ASSUME NEW es \in Seq(Events), NEW before \in Seq(Entry), NEW after \in Seq(Entry),
         StoryTold(es, before), GrowsTo(before, after), Len(before) = Len(after)
  PROVE  StoryTold(es, after)
<1>1. BeginsTold(es, after)
  BY DEF StoryTold, BeginsTold
<1>2. ASSUME NEW i \in 1..Len(es)
      PROVE  es[i].n <= Len(after[es[i].conn].stored)
  <2> DEFINE c == es[i].conn
  <2>1. c \in 1..Len(before) /\ es[i].n <= Len(before[c].stored) /\ c \in 1..Len(after)
    BY DEF StoryTold, MessagesTold
  <2>2. es[i].n \in Nat
    <3>1. es[i] \in Events
      OBVIOUS
    <3>2. QED
      BY <3>1 DEF Events
  <2> HIDE DEF c
  <2>3. Len(before[c].stored) \in Nat /\ Len(after[c].stored) \in Nat
    BY <2>1, StoredIsCounted
  <2>4. Len(before[c].stored) <= Len(after[c].stored)
    BY <2>1 DEF GrowsTo
  <2>5. QED
    BY <2>1, <2>2, <2>3, <2>4, SMTT(20) DEF c
<1>3. MessagesTold(es, after)
  BY <1>2 DEF StoryTold, MessagesTold
<1>4. QED
  BY <1>1, <1>3 DEF StoryTold

(* One more event: a new connection is announced, a message that was stored  *)
(* is, or a connection closes.                                               *)
NextInStory(e, before, after) ==
  \/ /\ e.kind = "opened" /\ e.n = 0
     /\ e.conn = Len(before) + 1 /\ Len(after) = Len(before) + 1
  \/ /\ e.kind = "closed" /\ e.n = 0
     /\ e.conn \in 1..Len(before) /\ Len(after) = Len(before)
  \/ /\ e.kind = "message" /\ e.n = Len(before[e.conn].stored) + 1
     /\ e.conn \in 1..Len(before) /\ Len(after) = Len(before)
     /\ e.n = Len(after[e.conn].stored)

LEMMA StoryGoesOn ==
  ASSUME NEW es \in Seq(Events), NEW e \in Events,
         NEW before \in Seq(Entry), NEW after \in Seq(Entry),
         StoryTold(es, before), GrowsTo(before, after), NextInStory(e, before, after)
  PROVE  StoryTold(Append(es, e), after)
<1> DEFINE new == Append(es, e)
           n == Len(es)
<1>1. /\ n \in Nat /\ Len(new) = n + 1 /\ new[n + 1] = e
      /\ \A i \in 1..n : new[i] = es[i]
      /\ Len(before) \in Nat /\ Len(after) \in Nat
  OBVIOUS
<1>2. e.conn \in 1..Len(after) /\ e.n \in Nat
  BY <1>1 DEF NextInStory, Events
<1>3. e.n <= Len(after[e.conn].stored)
  BY <1>2, StoredIsCounted DEF NextInStory
<1>a. \A i \in 1..n : es[i].conn \in 1..Len(before) /\ es[i].n \in Nat
  <2>1. SUFFICES ASSUME NEW i \in 1..n PROVE es[i].conn \in 1..Len(before) /\ es[i].n \in Nat
    OBVIOUS
  <2>2. es[i] \in Events
    OBVIOUS
  <2>3. QED
    BY <2>2 DEF StoryTold, MessagesTold, Events
<1> HIDE DEF new
<1>4. \A i \in 1..Len(new) : i = n + 1 \/ (i \in 1..n /\ i < n + 1)
  BY <1>1
<1>5. BeginsTold(new, after)
  <2>1. SUFFICES ASSUME NEW c \in 1..Len(after)
                 PROVE  \E i \in 1..Len(new) :
                          /\ new[i].kind = "opened" /\ new[i].conn = c
                          /\ \A j \in 1..Len(new) :
                               new[j].conn = c /\ j # i => j > i /\ new[j].kind # "opened"
    BY DEF BeginsTold
  <2>2. CASE c \in 1..Len(before)
    <3>1. PICK i \in 1..n :
            /\ es[i].kind = "opened" /\ es[i].conn = c
            /\ \A j \in 1..n : es[j].conn = c /\ j # i => j > i /\ es[j].kind # "opened"
      BY <2>2 DEF StoryTold, BeginsTold
    <3>2. i \in 1..Len(new) /\ new[i] = es[i] /\ i < n + 1
      BY <1>1
    <3>3. e.conn = c => e.kind # "opened"
      BY <1>1, <2>2 DEF NextInStory
    <3>4. \A j \in 1..Len(new) : new[j].conn = c /\ j # i => j > i /\ new[j].kind # "opened"
      BY <1>1, <1>4, <3>1, <3>2, <3>3
    <3>5. QED
      BY <3>1, <3>2, <3>4
  <2>3. CASE c = Len(before) + 1
    <3>1. e.kind = "opened" /\ e.conn = c
      BY <1>1, <2>1, <2>3 DEF NextInStory
    <3>2. \A j \in 1..n : es[j].conn # c
      BY <1>a, <1>1, <2>3
    <3>3. \A j \in 1..Len(new) : new[j].conn = c => j = n + 1
      BY <1>1, <1>4, <3>2
    <3>4. n + 1 \in 1..Len(new)
      BY <1>1
    <3>5. QED
      BY <1>1, <3>1, <3>3, <3>4
  <2>4. QED
    BY <1>1, <2>1, <2>2, <2>3 DEF NextInStory
<1>6. MessagesTold(new, after)
  <2>1. SUFFICES ASSUME NEW i \in 1..Len(new)
                 PROVE  /\ new[i].conn \in 1..Len(after)
                        /\ new[i].n <= Len(after[new[i].conn].stored)
                        /\ new[i].kind = "message" =>
                             /\ new[i].n >= 1
                             /\ \A j \in 1..i-1 : new[j].conn = new[i].conn => new[j].n < new[i].n
    BY DEF MessagesTold
  <2>2. CASE i = n + 1
    <3>1. ASSUME e.kind = "message", NEW j \in 1..n, es[j].conn = e.conn
          PROVE  es[j].n < e.n
      <4>1. es[j].n <= Len(before[e.conn].stored) /\ es[j].n \in Nat /\ e.conn \in 1..Len(before)
        BY <1>a, <3>1 DEF StoryTold, MessagesTold
      <4>2. Len(before[e.conn].stored) \in Nat
        BY <4>1, StoredIsCounted
      <4>3. e.n = Len(before[e.conn].stored) + 1
        BY <3>1 DEF NextInStory
      <4>4. QED
        BY <4>1, <4>2, <4>3, SMTT(20)
    <3>2. e.kind = "message" => e.n >= 1
      <4>1. SUFFICES ASSUME e.kind = "message" PROVE e.n >= 1
        OBVIOUS
      <4>2. e.n = Len(before[e.conn].stored) + 1 /\ e.conn \in 1..Len(before)
        BY <4>1 DEF NextInStory
      <4>3. Len(before[e.conn].stored) \in Nat
        BY <4>2, StoredIsCounted
      <4>4. QED
        BY <4>2, <4>3
    <3>3. \A j \in 1..i-1 : j \in 1..n /\ new[j] = es[j]
      BY <1>1, <2>2
    <3>4. new[i] = e
      BY <1>1, <2>2
    <3>5. QED
      BY <1>2, <1>3, <3>1, <3>2, <3>3, <3>4
  <2>3. CASE i \in 1..n
    <3>1. /\ new[i] = es[i] /\ \A j \in 1..i-1 : j \in 1..n /\ new[j] = es[j]
      BY <1>1, <2>3
    <3>2. es[i].n <= Len(after[es[i].conn].stored)
      <4> DEFINE c == es[i].conn
      <4>1. c \in 1..Len(before) /\ c \in 1..Len(after) /\ es[i].n \in Nat
            /\ es[i].n <= Len(before[c].stored)
        BY <1>1, <1>a, <2>3 DEF StoryTold, MessagesTold, GrowsTo
      <4> HIDE DEF c
      <4>2. Len(before[c].stored) \in Nat /\ Len(after[c].stored) \in Nat
        BY <4>1, StoredIsCounted
      <4>3. Len(before[c].stored) <= Len(after[c].stored)
        BY <4>1 DEF GrowsTo
      <4>4. es[i].n <= Len(after[c].stored)
        BY <4>1, <4>2, <4>3
      <4>5. QED
        BY <4>4 DEF c
    <3>3. es[i].conn \in 1..Len(after)
      BY <1>1, <1>a, <2>3 DEF GrowsTo
    <3>4. es[i].kind = "message" =>
            /\ es[i].n >= 1
            /\ \A j \in 1..i-1 : es[j].conn = es[i].conn => es[j].n < es[i].n
      BY <2>3 DEF StoryTold, MessagesTold
    <3>5. QED
      BY <3>1, <3>2, <3>3, <3>4
  <2>4. QED
    BY <1>4, <2>2, <2>3
<1>7. QED
  BY <1>5, <1>6 DEF StoryTold, new

StoryIsTold == StoryTold(events, connection_list)

LEMMA StateTypes ==
  ASSUME Inv
  PROVE  /\ connection_list \in Seq(Entry) /\ events \in Seq(Events)
         /\ open_connections \in [ConnIds -> Nat]
         /\ Connections = 1..Len(connection_list)
<1>1. connection_list \in Seq(Entry) /\ open_connections \in [ConnIds -> Nat]
  BY DEF Inv, RecordsOK, Entry
<1>2. events \in Seq(Events)
  BY DEF Inv, RecordsOK, Events
<1>3. QED
  BY <1>1, <1>2 DEF Connections

(* Closing an id goes on with the story.                                     *)
LEMMA ClosedGoesOn ==
  ASSUME Inv, StoryIsTold, NEW id \in ConnIds
  PROVE  /\ StoryTold(events \o ClosedEvents(id), Closed(id))
         /\ events \o ClosedEvents(id) \in Seq(Events)
         /\ Closed(id) \in Seq(Entry) /\ Len(Closed(id)) = Len(connection_list)
<1> DEFINE o == open_connections[id]
           e == Event("closed", o, 0)
<1>1. /\ connection_list \in Seq(Entry) /\ events \in Seq(Events) /\ o \in Nat
      /\ Connections = 1..Len(connection_list)
  BY StateTypes
<1>2. /\ Closed(id) \in Seq(Entry) /\ Len(Closed(id)) = Len(connection_list)
      /\ \A c \in Connections : Closed(id)[c].stored = connection_list[c].stored
  BY ClosedEffect
<1>3. GrowsTo(connection_list, Closed(id))
  <2>1. SUFFICES ASSUME NEW c \in 1..Len(connection_list)
                 PROVE  Len(connection_list[c].stored) <= Len(Closed(id)[c].stored)
    BY <1>1, <1>2 DEF GrowsTo
  <2>2. Len(connection_list[c].stored) \in Nat
    BY <1>1, StoredIsCounted
  <2>3. QED
    BY <1>1, <1>2, <2>2
<1>4. CASE IsOpen(id)
  <2>1. e \in Events /\ e.kind = "closed" /\ e.conn = o /\ e.n = 0
    BY <1>1 DEF Event, Events
  <2>2. o \in 1..Len(connection_list)
    BY <1>1, <1>4 DEF Inv, OpenIsReachable
  <2>3. ClosedEvents(id) = <<e>>
    BY <1>4 DEF ClosedEvents
  <2> HIDE DEF e
  <2>4. events \o ClosedEvents(id) = Append(events, e)
    BY <1>1, <2>1, <2>3
  <2>5. NextInStory(e, connection_list, Closed(id))
    BY <1>2, <2>1, <2>2 DEF NextInStory
  <2>6. StoryTold(Append(events, e), Closed(id)) /\ Append(events, e) \in Seq(Events)
    BY <1>1, <1>2, <1>3, <2>1, <2>5, StoryGoesOn DEF StoryIsTold
  <2>7. QED
    BY <1>2, <2>4, <2>6
<1>5. CASE ~IsOpen(id)
  <2>1. events \o ClosedEvents(id) = events /\ Closed(id) = connection_list
    BY <1>1, <1>5 DEF ClosedEvents, Closed
  <2>2. QED
    BY <1>1, <2>1 DEF StoryIsTold
<1>6. QED
  BY <1>4, <1>5

LEMMA StepGoesOn ==
  ASSUME Inv, StoryIsTold, [ManagerNext]_managerVars
  PROVE  StoryIsTold'
<1>1. /\ connection_list \in Seq(Entry) /\ events \in Seq(Events)
      /\ Connections = 1..Len(connection_list)
  BY StateTypes
<1>2. connection_list' \in Seq(Entry)
  <2>1. Inv'
    BY StepKeepsInv
  <2>2. QED
    BY <2>1 DEF Inv, RecordsOK, Entry
<1>3. ASSUME NEW id \in ConnIds, OpenConnection(id) PROVE StoryIsTold'
  <2> DEFINE n == Len(connection_list)
             new == [id |-> id, open |-> TRUE, stored |-> <<>>]
             e == Event("opened", n + 1, 0)
             es == events \o ClosedEvents(id)
  <2>1. connection_list' = Append(Closed(id), new) /\ events' = es \o <<e>>
    BY <1>3 DEF OpenConnection
  <2>2. /\ StoryTold(es, Closed(id)) /\ es \in Seq(Events)
        /\ Closed(id) \in Seq(Entry) /\ Len(Closed(id)) = n /\ n \in Nat
    BY <1>1, ClosedGoesOn
  <2>3. e \in Events /\ e.kind = "opened" /\ e.conn = n + 1 /\ e.n = 0
    BY <2>2 DEF Event, Events
  <2> HIDE DEF e, new, es
  <2>4. events' = Append(es, e)
    BY <2>1, <2>2, <2>3
  <2>5. /\ Len(connection_list') = n + 1
        /\ \A c \in 1..n : connection_list'[c] = Closed(id)[c]
    BY <2>1, <2>2
  <2>6. GrowsTo(Closed(id), connection_list')
    <3>1. \A c \in 1..n : Len(Closed(id)[c].stored) \in Nat
      BY <2>2, StoredIsCounted
    <3>2. QED
      BY <2>2, <2>5, <3>1 DEF GrowsTo
  <2>7. NextInStory(e, Closed(id), connection_list')
    BY <2>2, <2>3, <2>5 DEF NextInStory
  <2>8. StoryTold(Append(es, e), connection_list')
    BY <1>2, <2>2, <2>3, <2>6, <2>7, StoryGoesOn
  <2>9. QED
    BY <2>4, <2>8 DEF StoryIsTold
<1>4. ASSUME NEW id \in ConnIds, CloseConnection(id) PROVE StoryIsTold'
  BY <1>4, ClosedGoesOn DEF CloseConnection, StoryIsTold
<1>5. ASSUME NEW id \in ConnIds, NEW m \in Payloads, MessageAccepted(id, m) PROVE StoryIsTold'
  <2> DEFINE o == open_connections[id]
             k == Len(connection_list[o].stored) + 1
             t == Append(connection_list[o].stored, m)
             e == Event("message", o, k)
  <2>1. o \in 1..Len(connection_list)
    BY <1>1, <1>5 DEF MessageAccepted, Inv, OpenIsReachable
  <2>2. connection_list' = [connection_list EXCEPT ![o].stored = t]
    BY <1>5 DEF MessageAccepted
  <2>3. events' = events \/ events' = Append(events, e)
    BY <1>5 DEF MessageAccepted
  <2>4. connection_list[o] \in Entry /\ Len(connection_list[o].stored) \in Nat
    BY <1>1, <2>1, StoredIsCounted
  <2>5. Len(t) = k /\ k \in Nat
    BY <2>4 DEF Entry
  <2>6. e \in Events /\ e.kind = "message" /\ e.conn = o /\ e.n = k
    BY <2>1, <2>5 DEF Event, Events
  <2> HIDE DEF e, t
  <2>7. /\ Len(connection_list') = Len(connection_list)
        /\ \A c \in 1..Len(connection_list) : c # o => connection_list'[c] = connection_list[c]
    BY <1>1, <2>2
  <2>8. connection_list'[o].stored = t
    BY <1>1, <2>1, <2>2, <2>4 DEF Entry
  <2>9. GrowsTo(connection_list, connection_list')
    <3>1. \A c \in 1..Len(connection_list) : Len(connection_list[c].stored) \in Nat
      BY <1>1, StoredIsCounted
    <3>2. QED
      BY <1>1, <2>4, <2>5, <2>7, <2>8, <3>1, SMTT(20) DEF GrowsTo
  <2>10. NextInStory(e, connection_list, connection_list')
    BY <2>1, <2>5, <2>6, <2>7, <2>8 DEF NextInStory
  <2>11. StoryTold(events, connection_list')
    BY <1>1, <1>2, <2>7, <2>9, SameStory DEF StoryIsTold
  <2>12. StoryTold(Append(events, e), connection_list')
    BY <1>1, <1>2, <2>6, <2>9, <2>10, StoryGoesOn DEF StoryIsTold
  <2>13. QED
    BY <2>3, <2>11, <2>12 DEF StoryIsTold
<1>6. ASSUME NEW id \in ConnIds, MessageRefused(id) PROVE StoryIsTold'
  BY <1>6 DEF MessageRefused, StoryIsTold
<1>7. ASSUME UNCHANGED managerVars PROVE StoryIsTold'
  BY <1>7 DEF managerVars, StoryIsTold
<1>8. QED
  BY <1>3, <1>4, <1>5, <1>6, <1>7 DEF ManagerNext, Message

(* The beginning, the middle and the end together are the story of each      *)
(* connection.                                                               *)
LEMMA StoryDef ==
  ASSUME Inv, StoryIsTold, ClosingIsTold
  PROVE  StoryOfEachConnection
<1>1. /\ events \in Seq(Events) /\ Len(events) \in Nat
      /\ Connections = 1..Len(connection_list)
  BY StateTypes
<1>2. SUFFICES ASSUME NEW c \in Connections
               PROVE  LET about == {i \in 1..Len(events) : events[i].conn = c}
                      IN /\ about # {}
                         /\ \A i \in about :
                              /\ events[i].kind = "opened" <=> \A j \in about : i <= j
                              /\ events[i].kind = "closed" <=>
                                   ~connection_list[c].open /\ \A j \in about : j <= i
                              /\ events[i].kind = "message" =>
                                   /\ events[i].n \in 1..Len(connection_list[c].stored)
                                   /\ \A j \in about : j < i => events[j].n < events[i].n
  BY DEF StoryOfEachConnection
<1> DEFINE about == {i \in 1..Len(events) : events[i].conn = c}
<1>3. PICK first \in 1..Len(events) :
        /\ events[first].kind = "opened" /\ events[first].conn = c
        /\ \A j \in 1..Len(events) :
             events[j].conn = c /\ j # first => j > first /\ events[j].kind # "opened"
  BY <1>1 DEF StoryIsTold, StoryTold, BeginsTold
<1>4. first \in about
  BY <1>3
<1>5. ASSUME NEW i \in about
      PROVE  events[i].kind = "opened" <=> \A j \in about : i <= j
  <2>1. CASE i = first
    BY <1>1, <1>3, <2>1
  <2>2. CASE i # first
    <3>1. i > first /\ events[i].kind # "opened" /\ ~(i <= first)
      BY <1>1, <1>3, <1>5, <2>2
    <3>2. QED
      BY <1>4, <3>1
  <2>3. QED
    BY <2>1, <2>2
<1>6. ASSUME NEW i \in about
      PROVE  events[i].kind = "closed" <=> ~connection_list[c].open /\ \A j \in about : j <= i
  <2>1. CASE connection_list[c].open
    BY <1>1, <2>1 DEF ClosingIsTold, EndsTold
  <2>2. CASE ~connection_list[c].open
    <3>1. PICK last \in 1..Len(events) :
            /\ events[last].kind = "closed" /\ events[last].conn = c
            /\ \A j \in 1..Len(events) :
                 events[j].conn = c /\ j # last => j < last /\ events[j].kind # "closed"
      BY <1>1, <2>2 DEF ClosingIsTold, EndsTold
    <3>2. CASE i = last
      BY <1>1, <2>2, <3>1, <3>2
    <3>3. CASE i # last
      <4>1. last \in about /\ i < last /\ events[i].kind # "closed" /\ ~(last <= i)
        BY <1>1, <1>6, <3>1, <3>3
      <4>2. QED
        BY <4>1
    <3>4. QED
      BY <3>2, <3>3
  <2>3. QED
    BY <2>1, <2>2
<1>7. ASSUME NEW i \in about, events[i].kind = "message"
      PROVE  /\ events[i].n \in 1..Len(connection_list[c].stored)
             /\ \A j \in about : j < i => events[j].n < events[i].n
  <2>1. i \in 1..Len(events) /\ events[i].conn = c /\ events[i] \in Events
    BY <1>1
  <2>2. /\ events[i].n <= Len(connection_list[c].stored) /\ events[i].n >= 1
        /\ \A j \in 1..i-1 : events[j].conn = c => events[j].n < events[i].n
    BY <1>7, <2>1 DEF StoryIsTold, StoryTold, MessagesTold
  <2>3. events[i].n \in Nat
    BY <2>1 DEF Events
  <2>4. Len(connection_list[c].stored) \in Nat
    BY <1>1, StateTypes, StoredIsCounted
  <2>5. \A j \in about : j < i => j \in 1..i-1
    BY <1>1
  <2>6. QED
    BY <2>2, <2>3, <2>4, <2>5
<1>8. QED
  BY <1>4, <1>5, <1>6, <1>7

(* The listener is told of each connection that it opened, then of messages  *)
(* it has in their order, then once and last that it closed.                 *)
THEOREM StoryAlwaysTold == ManagerSpec => []StoryOfEachConnection
<1>1. Init => StoryIsTold
  BY DEF Init, StoryIsTold, StoryTold, BeginsTold, MessagesTold
<1>2. Inv /\ StoryIsTold /\ [ManagerNext]_managerVars => StoryIsTold'
  BY StepGoesOn
<1>3. Inv /\ StoryIsTold /\ ClosingIsTold => StoryOfEachConnection
  BY StoryDef
<1>4. QED
  BY <1>1, <1>2, <1>3, ManagerInvariant, ClosingAlwaysTold, PTL DEF ManagerSpec

------------------------------------------------------------------------------
(* The letters of a number *)

Digits == 0..Letters-1

(* The place of a number's last letter, and the number of the letters before. *)
LEMMA LastLetter ==
  ASSUME NEW v \in Nat \ {0}
  PROVE  /\ (v - 1) \div Letters \in Nat /\ (v - 1) \div Letters < v
         /\ (v - 1) % Letters \in Digits
         /\ ((v - 1) \div Letters) * Letters + ((v - 1) % Letters) = v - 1
<1>1. Letters \in Nat /\ Letters > 1 /\ v - 1 \in Nat
  BY LetterAssumption
<1> DEFINE q == (v - 1) \div Letters
           r == (v - 1) % Letters
<1>2. q \in Int /\ r \in 0..Letters-1 /\ v - 1 = Letters * q + r
  BY <1>1
<1> HIDE DEF q, r
<1>3. q >= 0
  <2>1. SUFFICES ASSUME q <= -1 PROVE FALSE
    BY <1>2
  <2>2. Letters * q <= Letters * (-1)
    BY <1>1, <1>2, <2>1
  <2>3. QED
    BY <1>1, <1>2, <2>2
<1>4. q < v
  <2>1. SUFFICES ASSUME q >= v PROVE FALSE
    BY <1>2
  <2>2. Letters * q >= 1 * q
    BY <1>1, <1>2, <1>3
  <2>3. QED
    BY <1>1, <1>2, <2>1, <2>2
<1>5. q \in Nat /\ q < v /\ r \in Digits /\ q * Letters + r = v - 1
  BY <1>1, <1>2, <1>3, <1>4 DEF Digits
<1>6. QED
  BY <1>5, Zenon DEF q, r

(* The letters of every number up to one can be written.                      *)
Writes(f, N) ==
  /\ f \in [0..N -> Seq(Digits)] /\ f[0] = <<>>
  /\ \A v \in 1..N : f[v] = Append(f[(v - 1) \div Letters], (v - 1) % Letters)

LEMMA Written ==
  ASSUME NEW N \in Nat
  PROVE  \E f : Writes(f, N)
<1> DEFINE T == {n \in Nat : \E f : Writes(f, n)}
<1>1. 0 \in T
  <2>1. Writes([v \in 0..0 |-> <<>>], 0)
    BY DEF Writes
  <2>2. QED
    BY <2>1
<1>2. ASSUME NEW n \in Nat, n \in T
      PROVE  n + 1 \in T
  <2>1. PICK f : Writes(f, n)
    BY <1>2
  <2> DEFINE u == ((n + 1) - 1) \div Letters
             d == ((n + 1) - 1) % Letters
             g == [v \in 0..n+1 |-> IF v = n + 1 THEN Append(f[u], d) ELSE f[v]]
  <2>2. u \in 0..n /\ d \in Digits
    <3>1. n + 1 \in Nat \ {0}
      OBVIOUS
    <3>2. u \in Nat /\ u < n + 1 /\ d \in Digits
      BY <3>1, LastLetter
    <3>3. QED
      BY <3>2
  <2> HIDE DEF u, d
  <2>3. f[u] \in Seq(Digits) /\ Append(f[u], d) \in Seq(Digits)
    BY <2>1, <2>2 DEF Writes
  <2>4. g \in [0..n+1 -> Seq(Digits)] /\ g[0] = <<>>
    BY <2>1, <2>3 DEF Writes
  <2>5. g[n + 1] = Append(g[u], d) /\ \A v \in 0..n : g[v] = f[v]
    BY <2>2
  <2> HIDE DEF g
  <2>6. ASSUME NEW v \in 1..n+1
        PROVE  g[v] = Append(g[(v - 1) \div Letters], (v - 1) % Letters)
    <3>1. CASE v = n + 1
      BY <2>5, <3>1 DEF u, d
    <3>2. CASE v \in 1..n
      <4> DEFINE w == (v - 1) \div Letters
      <4>1. w \in Nat /\ w < v
        BY LastLetter
      <4> HIDE DEF w
      <4>2. w \in 0..n /\ v \in 0..n
        BY <3>2, <4>1
      <4>3. g[w] = f[w] /\ g[v] = f[v]
        BY <2>5, <4>2
      <4>4. f[v] = Append(f[w], (v - 1) % Letters)
        BY <2>1, <3>2 DEF Writes, w
      <4>5. QED
        BY <4>3, <4>4 DEF w
    <3>3. QED
      BY <3>1, <3>2
  <2>7. Writes(g, n + 1)
    BY <2>4, <2>6 DEF Writes
  <2>8. QED
    BY <2>7
<1> HIDE DEF T
<1>3. Nat \subseteq T
  BY <1>1, <1>2, Induction
<1>4. QED
  BY <1>3 DEF T

(* So a number's name is what its definition says.                            *)
NamesUpTo(value) ==
  LET letters[v \in 0..value+1] ==
        IF v = 0 THEN <<>> ELSE Append(letters[(v - 1) \div Letters], (v - 1) % Letters)
  IN letters

LEMMA NamesAreWritten ==
  ASSUME NEW value \in Nat
  PROVE  Writes(NamesUpTo(value), value + 1)
<1> DEFINE N == value + 1
           Def(f) == [v \in 0..N |->
                        IF v = 0 THEN <<>> ELSE Append(f[(v - 1) \div Letters], (v - 1) % Letters)]
           g == NamesUpTo(value)
<1>1. N \in Nat
  OBVIOUS
<1>2. PICK f : Writes(f, N)
  BY <1>1, Written
<1>3. g = CHOOSE h : h = Def(h)
  BY Zenon DEF NamesUpTo
<1> HIDE DEF g, N
<1>4. f = Def(f)
  <2>1. \A v \in 0..N : f[v] = Def(f)[v]
    <3>1. ASSUME NEW v \in 0..N
          PROVE  f[v] = Def(f)[v]
      <4>1. CASE v = 0
        BY <1>2, <4>1 DEF Writes
      <4>2. CASE v # 0
        <5>1. v \in 1..N
          BY <1>1, <4>2
        <5>2. QED
          BY <1>2, <4>2, <5>1 DEF Writes
      <4>3. QED
        BY <4>1, <4>2
    <3>2. QED
      BY <3>1
  <2>2. f = [v \in 0..N |-> f[v]]
    BY <1>2 DEF Writes
  <2>3. QED
    BY <2>1, <2>2
<1>5. g = Def(g)
  <2> HIDE DEF Def
  <2>1. QED
    BY <1>3, <1>4, Zenon
<1>6. /\ g[0] = <<>>
      /\ \A v \in 1..N : g[v] = Append(g[(v - 1) \div Letters], (v - 1) % Letters)
      /\ g = [v \in 0..N |-> g[v]]
  <2> DEFINE e == Def(g)
  <2>1. /\ e[0] = <<>>
        /\ \A v \in 1..N : e[v] = Append(g[(v - 1) \div Letters], (v - 1) % Letters)
        /\ DOMAIN e = 0..N /\ e = [v \in 0..N |-> e[v]]
    BY <1>1
  <2> HIDE DEF e
  <2>2. g = e
    BY <1>5 DEF e
  <2>3. QED
    BY <2>1, <2>2
<1>7. \A v \in 0..N : g[v] \in Seq(Digits)
  <2> DEFINE T == {v \in 0..N : g[v] \notin Seq(Digits)}
  <2>1. SUFFICES ASSUME T # {} PROVE FALSE
    OBVIOUS
  <2>2. PICK v \in T : \A w \in T : v <= w
    <3>1. T \subseteq Nat
      BY <1>1
    <3> HIDE DEF T
    <3>2. QED
      BY <2>1, <3>1, Least
  <2>3. v \in 1..N /\ g[v] \notin Seq(Digits)
    <3>1. v \in 0..N /\ g[v] \notin Seq(Digits)
      BY <2>2
    <3>2. g[0] \in Seq(Digits)
      BY <1>6
    <3>3. v # 0
      BY <3>1, <3>2
    <3>4. QED
      BY <1>1, <3>1, <3>3
  <2> DEFINE u == (v - 1) \div Letters
             d == (v - 1) % Letters
  <2>4. u \in Nat /\ u < v /\ d \in Digits
    BY <1>1, <2>3, LastLetter
  <2>5. g[v] = Append(g[u], d)
    BY <1>6, <2>3
  <2> HIDE DEF u, d
  <2>6. g[u] \in Seq(Digits)
    BY <1>1, <2>2, <2>3, <2>4
  <2> HIDE DEF T
  <2>7. QED
    BY <2>3, <2>4, <2>5, <2>6
<1>8. g \in [0..N -> Seq(Digits)]
  BY <1>6, <1>7
<1>9. Writes(g, N)
  BY <1>6, <1>8 DEF Writes
<1>10. QED
  BY <1>9 DEF g, N

------------------------------------------------------------------------------
(* The number of letters *)

(* What is read after some of the letters.                                    *)
Reads(r, text) ==
  /\ r \in [0..Len(text) -> Int] /\ r[0] = -1
  /\ \A k \in 1..Len(text) : r[k] = (r[k - 1] + 1) * Letters + text[k]

ReadUpTo(text) ==
  LET read[k \in 0..Len(text)] == IF k = 0 THEN -1 ELSE (read[k - 1] + 1) * Letters + text[k]
  IN read

LEMMA LettersAreRead ==
  ASSUME NEW text \in Seq(Digits)
  PROVE  Reads(ReadUpTo(text), text)
<1> DEFINE N == Len(text)
           step == [k \in 1..N |-> [i \in Int |-> (i + 1) * Letters + text[k]]]
           Def(f) == [k \in 0..N |-> IF k = 0 THEN -1 ELSE (f[k - 1] + 1) * Letters + text[k]]
           g == ReadUpTo(text)
<1>1. N \in Nat /\ \A k \in 1..N : text[k] \in Int
  BY LetterAssumption DEF Digits
<1>2. ASSUME NEW k \in 1..N, NEW i \in Int
      PROVE  (i + 1) * Letters + text[k] \in Int
  <2>1. (i + 1) * Letters \in Int
    BY LetterAssumption
  <2>2. QED
    BY <1>1, <2>1
<1>3. step \in [1..N -> [Int -> Int]]
  BY <1>2
<1>4. \A k \in 1..N, i \in Int : step[k][i] = (i + 1) * Letters + text[k]
  OBVIOUS
<1>5. g = CHOOSE h : h = Def(h)
  BY Zenon DEF ReadUpTo
<1> HIDE DEF step, N, g
<1>6. PICK f \in [0..N -> Int] : f[0] = -1 /\ \A k \in 1..N : f[k] = step[k][f[k - 1]]
  <2>1. \E f : IsStepwise(f, N, Int, -1, step)
    <3> DEFINE start == -1
    <3>1. start \in Int
      OBVIOUS
    <3> HIDE DEF start
    <3>2. \E f : IsStepwise(f, N, Int, start, step)
      BY <1>1, <1>3, <3>1, Stepwise
    <3>3. QED
      BY <3>2 DEF start
  <2>2. QED
    BY <2>1 DEF IsStepwise
<1>7. ASSUME NEW k \in 1..N
      PROVE  f[k] = (f[k - 1] + 1) * Letters + text[k]
  <2>1. k - 1 \in 0..N /\ f[k - 1] \in Int
    BY <1>1
  <2>2. QED
    BY <1>4, <1>6, <2>1
<1>8. f = Def(f)
  <2>1. \A k \in 0..N : f[k] = Def(f)[k]
    <3>1. ASSUME NEW k \in 0..N
          PROVE  f[k] = Def(f)[k]
      <4>1. CASE k = 0
        BY <1>6, <4>1
      <4>2. CASE k # 0
        <5>1. k \in 1..N
          BY <1>1, <4>2
        <5>2. QED
          BY <1>7, <4>2, <5>1
      <4>3. QED
        BY <4>1, <4>2
    <3>2. QED
      BY <3>1
  <2>2. f = [k \in 0..N |-> f[k]]
    BY <1>6
  <2>3. QED
    BY <2>1, <2>2
<1>9. g = Def(g)
  <2> HIDE DEF Def
  <2>1. QED
    BY <1>5, <1>8, Zenon
<1>10. /\ g[0] = -1
       /\ \A k \in 1..N : g[k] = (g[k - 1] + 1) * Letters + text[k]
       /\ g = [k \in 0..N |-> g[k]]
  <2> DEFINE e == Def(g)
  <2>1. /\ e[0] = -1
        /\ \A k \in 1..N : e[k] = (g[k - 1] + 1) * Letters + text[k]
        /\ e = [k \in 0..N |-> e[k]]
    BY <1>1
  <2> HIDE DEF e
  <2>2. g = e
    BY <1>9 DEF e
  <2>3. QED
    BY <2>1, <2>2
<1>11. \A k \in 0..N : g[k] \in Int
  <2> DEFINE T == {n \in Nat : n <= N => g[n] \in Int}
  <2>1. 0 \in T
    BY <1>10
  <2>2. ASSUME NEW n \in Nat, n \in T
        PROVE  n + 1 \in T
    <3>1. SUFFICES ASSUME n + 1 <= N PROVE g[n + 1] \in Int
      OBVIOUS
    <3>2. n + 1 \in 1..N /\ g[n] \in Int /\ (n + 1) - 1 = n
      BY <1>1, <2>2, <3>1
    <3>3. g[n + 1] = (g[n] + 1) * Letters + text[n + 1]
      BY <1>10, <3>2
    <3>4. QED
      BY <1>2, <3>2, <3>3
  <2> HIDE DEF T
  <2>3. Nat \subseteq T
    BY <2>1, <2>2, Induction
  <2>4. QED
    BY <1>1, <2>3 DEF T
<1>12. g \in [0..N -> Int]
  BY <1>10, <1>11
<1>13. QED
  BY <1>10, <1>12 DEF Reads, g, N

(* One more letter counts as the units do.                                    *)
LEMMA ReadOneMore ==
  ASSUME NEW text \in Seq(Digits), NEW d \in Digits
  PROVE  letter_id_to_number(Append(text, d)) = (letter_id_to_number(text) + 1) * Letters + d
<1> DEFINE n == Len(text)
           more == Append(text, d)
           f == ReadUpTo(text)
           g == ReadUpTo(more)
           T == {k \in Nat : k <= n => g[k] = f[k]}
<1>1. /\ n \in Nat /\ more \in Seq(Digits) /\ Len(more) = n + 1
      /\ more[n + 1] = d /\ \A k \in 1..n : more[k] = text[k]
  OBVIOUS
<1>2. letter_id_to_number(text) = f[n] /\ letter_id_to_number(more) = g[Len(more)]
  BY DEF letter_id_to_number, ReadUpTo
<1> HIDE DEF more, f, g, n
<1>3. /\ f[0] = -1 /\ \A k \in 1..n : f[k] = (f[k - 1] + 1) * Letters + text[k]
  BY LettersAreRead DEF Reads, f, n
<1>4. /\ g[0] = -1 /\ \A k \in 1..n+1 : g[k] = (g[k - 1] + 1) * Letters + more[k]
  BY <1>1, LettersAreRead DEF Reads, g
<1>5. 0 \in T
  BY <1>3, <1>4
<1>6. ASSUME NEW k \in Nat, k \in T
      PROVE  k + 1 \in T
  <2>1. SUFFICES ASSUME k + 1 <= n PROVE g[k + 1] = f[k + 1]
    OBVIOUS
  <2>2. k + 1 \in 1..n /\ k + 1 \in 1..n+1 /\ (k + 1) - 1 = k /\ g[k] = f[k]
    BY <1>1, <1>6, <2>1, SMTT(20)
  <2>3. g[k + 1] = (g[k] + 1) * Letters + more[k + 1]
    BY <1>4, <2>2
  <2>4. f[k + 1] = (f[k] + 1) * Letters + text[k + 1]
    BY <1>3, <2>2
  <2>5. QED
    BY <1>1, <2>2, <2>3, <2>4
<1> HIDE DEF T
<1>7. Nat \subseteq T
  BY <1>5, <1>6, Induction
<1>8. g[n] = f[n]
  BY <1>1, <1>7 DEF T
<1>9. g[n + 1] = (g[n] + 1) * Letters + d
  <2>1. n + 1 \in 1..n+1 /\ (n + 1) - 1 = n
    BY <1>1
  <2>2. QED
    BY <1>1, <1>4, <2>1
<1>10. QED
  BY <1>1, <1>2, <1>8, <1>9 DEF more

LEMMA ReadNothing == letter_id_to_number(<<>>) = -1
<1> DEFINE empty == <<>>
<1>1. empty \in Seq(Digits) /\ Len(empty) = 0
  OBVIOUS
<1> HIDE DEF empty
<1>2. letter_id_to_number(empty) = ReadUpTo(empty)[Len(empty)]
  BY DEF letter_id_to_number, ReadUpTo
<1>3. ReadUpTo(empty)[0] = -1
  BY <1>1, LettersAreRead DEF Reads
<1>4. QED
  BY <1>1, <1>2, <1>3 DEF empty

(* Reading the letters of a number gives the number, for every number and any *)
(* alphabet of two letters and more.                                          *)
THEOREM NumbersReadBack == \A value \in Nat : ReadsBack(value)
<1> SUFFICES ASSUME NEW value \in Nat PROVE ReadsBack(value)
  OBVIOUS
<1> DEFINE f == NamesUpTo(value)
           N == value + 1
           T == {v \in 0..N : letter_id_to_number(f[v]) # v - 1}
<1>1. number_to_letter_id(value) = f[N]
  BY DEF number_to_letter_id, NamesUpTo
<1>2. Writes(f, N) /\ N \in Nat
  BY NamesAreWritten
<1> HIDE DEF f, N
<1>3. ASSUME T # {}
      PROVE  FALSE
  <2>1. PICK v \in T : \A w \in T : v <= w
    <3>1. T \subseteq Nat
      BY <1>2
    <3> HIDE DEF T
    <3>2. QED
      BY <1>3, <3>1, Least
  <2>2. v \in 1..N
    <3>1. f[0] = <<>>
      BY <1>2 DEF Writes
    <3>2. 0 \notin T
      BY <3>1, ReadNothing
    <3>3. QED
      BY <1>2, <2>1, <3>2
  <2> DEFINE u == (v - 1) \div Letters
             d == (v - 1) % Letters
  <2>3. u \in Nat /\ u < v /\ d \in Digits /\ u * Letters + d = v - 1
    <3>1. v \in Nat \ {0}
      BY <1>2, <2>2
    <3>2. QED
      BY <3>1, LastLetter, Zenon
  <2>4. f[v] = Append(f[u], d)
    BY <1>2, <2>2 DEF Writes
  <2> HIDE DEF u, d
  <2>5. u \in 0..N /\ f[u] \in Seq(Digits)
    BY <1>2, <2>2, <2>3 DEF Writes
  <2>6. letter_id_to_number(f[u]) = u - 1
    BY <1>2, <2>1, <2>2, <2>3, <2>5
  <2>7. letter_id_to_number(f[v]) = (u - 1 + 1) * Letters + d
    BY <2>3, <2>4, <2>5, <2>6, ReadOneMore
  <2>8. u - 1 + 1 = u
    BY <2>3
  <2>9. QED
    BY <2>1, <2>3, <2>7, <2>8
<1>4. letter_id_to_number(f[N]) = N - 1
  BY <1>2, <1>3
<1>5. QED
  BY <1>1, <1>4 DEF ReadsBack, N

(* Division by the number of letters has only one outcome.                    *)
LEMMA DivisionIs ==
  ASSUME NEW v \in Nat, NEW q \in Nat, NEW r \in Digits, v = q * Letters + r
  PROVE  v \div Letters = q /\ v % Letters = r
<1> DEFINE p == v \div Letters
           s == v % Letters
<1>1. /\ Letters \in Nat /\ Letters > 1 /\ r \in Int /\ 0 <= r /\ r < Letters
      /\ p \in Int /\ s \in Int /\ 0 <= s /\ s < Letters /\ v = Letters * p + s
  BY LetterAssumption DEF Digits
<1> HIDE DEF p, s
<1>2. Letters * (q - p) = s - r
  BY <1>1
<1>3. ~(q - p >= 1)
  <2>1. SUFFICES ASSUME q - p >= 1 PROVE FALSE
    OBVIOUS
  <2>2. Letters * (q - p) >= Letters * 1
    BY <1>1, <2>1
  <2>3. QED
    BY <1>1, <1>2, <2>2
<1>4. ~(q - p <= -1)
  <2>1. SUFFICES ASSUME q - p <= -1 PROVE FALSE
    OBVIOUS
  <2>2. Letters * (q - p) <= Letters * (-1)
    BY <1>1, <2>1
  <2>3. QED
    BY <1>1, <1>2, <2>2
<1>5. p = q /\ s = r
  <2>1. p = q
    BY <1>1, <1>3, <1>4
  <2>2. QED
    BY <1>1, <2>1
<1>6. QED
  BY <1>5, Zenon DEF p, s

(* The name of a number does not depend on how far names are written.         *)
LEMMA WrittenAlike ==
  ASSUME NEW N \in Nat, NEW f, Writes(f, N), NEW g, Writes(g, N + 1)
  PROVE  f[N] = g[N]
<1> DEFINE T == {v \in 0..N : f[v] # g[v]}
<1>1. ASSUME T # {}
      PROVE  FALSE
  <2>1. PICK v \in T : \A w \in T : v <= w
    <3>1. T \subseteq Nat
      OBVIOUS
    <3> HIDE DEF T
    <3>2. QED
      BY <1>1, <3>1, Least
  <2>2. v \in 1..N
    BY <2>1 DEF Writes
  <2> DEFINE u == (v - 1) \div Letters
             d == (v - 1) % Letters
  <2>3. u \in Nat /\ u < v
    <3>1. v \in Nat \ {0}
      BY <2>2
    <3>2. QED
      BY <3>1, LastLetter, Zenon
  <2>4. f[v] = Append(f[u], d) /\ g[v] = Append(g[u], d)
    <3>1. v \in 1..N+1
      BY <2>2
    <3>2. f[v] = Append(f[u], d)
      BY <2>2 DEF Writes
    <3>3. g[v] = Append(g[u], d)
      BY <3>1 DEF Writes
    <3>4. QED
      BY <3>2, <3>3
  <2> HIDE DEF u, d
  <2>5. f[u] = g[u]
    BY <2>1, <2>2, <2>3
  <2>6. QED
    BY <2>1, <2>4, <2>5
<1>2. QED
  BY <1>1

(* Counting up at the last letter, or at those before.                        *)
LEMMA SuccessorOf ==
  ASSUME NEW text \in Seq(Digits), NEW d \in Digits
  PROVE  Successor(Append(text, d)) =
           IF d = Letters - 1 THEN Append(Successor(text), 0) ELSE Append(text, d + 1)
<1> DEFINE more == Append(text, d)
           n == Len(text)
           last == Letters - 1
           Up(s) == {k \in 1..Len(s) : s[k] < last /\ \A j \in k+1..Len(s) : s[j] = last}
           At(s, k) == [j \in 1..Len(s) |-> IF j < k THEN s[j] ELSE IF j = k THEN s[j] + 1 ELSE 0]
<1>1. /\ n \in Nat /\ Len(more) = n + 1 /\ more[n + 1] = d
      /\ \A k \in 1..n : more[k] = text[k] /\ text[k] \in Digits
      /\ last \in Nat /\ d \in Nat /\ d <= last /\ \A e \in Digits : e \in Nat
  BY LetterAssumption DEF Digits
<1>2. /\ Successor(more) = IF Up(more) = {} THEN [k \in 1..Len(more)+1 |-> 0]
                           ELSE At(more, CHOOSE k \in Up(more) : TRUE)
      /\ Successor(text) = IF Up(text) = {} THEN [k \in 1..Len(text)+1 |-> 0]
                           ELSE At(text, CHOOSE k \in Up(text) : TRUE)
  BY Zenon DEF Successor
<1> HIDE DEF more, last
<1>3. CASE d = last
  <2>1. Up(more) = Up(text)
    <3>1. ASSUME NEW k \in Up(more) PROVE k \in Up(text)
      <4>1. k \in 1..n+1 /\ more[k] < last /\ \A j \in k+1..n+1 : more[j] = last
        BY <1>1, <3>1
      <4>2. k # n + 1
        BY <1>1, <1>3, <4>1
      <4>3. k \in 1..n /\ \A j \in k+1..n : j \in k+1..n+1 /\ j \in 1..n
        BY <1>1, <4>1, <4>2
      <4>4. QED
        BY <1>1, <4>1, <4>3
    <3>2. ASSUME NEW k \in Up(text) PROVE k \in Up(more)
      <4>1. k \in 1..n /\ text[k] < last /\ \A j \in k+1..n : text[j] = last
        BY <1>1, <3>2
      <4>2. k \in 1..n+1 /\ more[k] < last
        BY <1>1, <4>1
      <4>3. \A j \in k+1..n+1 : more[j] = last
        <5>1. SUFFICES ASSUME NEW j \in k+1..n+1 PROVE more[j] = last
          OBVIOUS
        <5>2. CASE j = n + 1
          BY <1>1, <1>3, <5>2
        <5>3. CASE j # n + 1
          <6>1. j \in k+1..n /\ j \in 1..n
            BY <1>1, <4>1, <5>1, <5>3
          <6>2. QED
            BY <1>1, <4>1, <6>1
        <5>4. QED
          BY <5>2, <5>3
      <4>4. QED
        BY <1>1, <4>2, <4>3
    <3>3. QED
      BY <3>1, <3>2
  <2>2. CASE Up(text) = {}
    <3> DEFINE a == [k \in 1..n+1 |-> 0]
               b == [k \in 1..n+2 |-> 0]
    <3>1. Successor(more) = b /\ Successor(text) = a
      <4>1. n + 1 + 1 = n + 2
        BY <1>1
      <4>2. QED
        BY <1>1, <1>2, <2>1, <2>2, <4>1, Zenon
    <3>2. b = Append(a, 0)
      <4>1. a \in Seq(Nat) /\ Len(a) = n + 1 /\ b \in Seq(Nat) /\ Len(b) = n + 2
        BY <1>1
      <4>2. \A k \in 1..n+1 : a[k] = 0
        OBVIOUS
      <4>3. \A k \in 1..n+2 : b[k] = 0
        OBVIOUS
      <4> HIDE DEF a, b
      <4>4. /\ Append(a, 0) \in Seq(Nat) /\ Len(Append(a, 0)) = n + 2
            /\ \A k \in 1..n+2 : Append(a, 0)[k] = 0
        BY <1>1, <4>1, <4>2
      <4> DEFINE c == Append(a, 0)
      <4> HIDE DEF c
      <4>5. c \in Seq(Nat) /\ Len(c) = n + 2 /\ \A k \in 1..n+2 : c[k] = b[k]
        BY <4>3, <4>4 DEF c
      <4>6. c = b
        BY <4>1, <4>5
      <4>7. QED
        BY <4>6 DEF c
    <3>3. QED
      BY <1>3, <3>1, <3>2 DEF more, last
  <2>3. CASE Up(text) # {}
    <3> DEFINE k0 == CHOOSE k \in Up(text) : TRUE
               a == At(text, k0)
               b == At(more, k0)
    <3>1. k0 \in 1..n
      BY <1>1, <2>3
    <3>2. Successor(more) = b /\ Successor(text) = a
      <4> HIDE DEF Up, At
      <4>1. (CHOOSE k \in Up(more) : TRUE) = k0 /\ Up(more) # {}
        BY <2>1, <2>3
      <4>2. QED
        BY <1>2, <2>3, <4>1
    <3> HIDE DEF k0
    <3>3. b = Append(a, 0)
      <4>1. /\ a \in Seq(Nat) /\ Len(a) = n
            /\ b \in Seq(Nat) /\ Len(b) = n + 1
        <5>1. \A j \in 1..n : (IF j < k0 THEN text[j] ELSE IF j = k0 THEN text[j] + 1 ELSE 0) \in Nat
          <6>1. \A j \in 1..n : text[j] \in Nat
            BY <1>1
          <6>2. QED
            BY <6>1
        <5>2. \A j \in 1..n+1 : (IF j < k0 THEN more[j] ELSE IF j = k0 THEN more[j] + 1 ELSE 0) \in Nat
          <6>1. \A j \in 1..n+1 : j \in 1..n \/ j = n + 1
            BY <1>1
          <6>2. \A j \in 1..n+1 : more[j] \in Nat
            BY <1>1, <6>1
          <6>3. QED
            BY <6>2
        <5>3. QED
          BY <1>1, <5>1, <5>2
      <4>2. \A j \in 1..n : a[j] = IF j < k0 THEN text[j] ELSE IF j = k0 THEN text[j] + 1 ELSE 0
        OBVIOUS
      <4>3. \A j \in 1..n+1 : b[j] = IF j < k0 THEN more[j] ELSE IF j = k0 THEN more[j] + 1 ELSE 0
        BY <1>1
      <4> HIDE DEF a, b
      <4>4. \A j \in 1..n : b[j] = a[j]
        BY <1>1, <4>2, <4>3
      <4>5. b[n + 1] = 0
        BY <1>1, <3>1, <4>3
      <4> DEFINE c == Append(a, 0)
      <4>6. c \in Seq(Nat) /\ Len(c) = n + 1 /\ c[n + 1] = 0 /\ \A j \in 1..n : c[j] = a[j]
        BY <1>1, <4>1
      <4> HIDE DEF c
      <4>7. \A j \in 1..n+1 : c[j] = b[j]
        BY <1>1, <4>4, <4>5, <4>6, SMTT(20)
      <4>8. c = b
        BY <4>1, <4>6, <4>7
      <4>9. QED
        BY <4>8 DEF c
    <3>4. QED
      BY <1>3, <3>2, <3>3 DEF more, last
  <2>4. QED
    BY <2>2, <2>3
<1>4. CASE d # last
  <2>1. Up(more) = {n + 1}
    <3>1. n + 1 \in Up(more)
      BY <1>1, <1>4
    <3>2. ASSUME NEW k \in Up(more) PROVE k = n + 1
      <4>1. k \in 1..n+1 /\ \A j \in k+1..n+1 : more[j] = last
        BY <1>1, <3>2
      <4>2. k # n + 1 => n + 1 \in k+1..n+1
        BY <1>1, <4>1
      <4>3. QED
        BY <1>1, <1>4, <4>1, <4>2
    <3>3. QED
      BY <3>1, <3>2
  <2> DEFINE b == At(more, n + 1)
             c == Append(text, d + 1)
  <2>2. Successor(more) = b
    <3>1. (CHOOSE k \in Up(more) : TRUE) = n + 1
      BY <2>1
    <3>2. Up(more) # {}
      BY <2>1
    <3>3. QED
      BY <1>2, <3>1, <3>2, ZenonT(30)
  <2>3. b \in Seq(Nat) /\ Len(b) = n + 1
    <3>1. \A j \in 1..n+1 : (IF j < n + 1 THEN more[j] ELSE IF j = n + 1 THEN more[j] + 1 ELSE 0) \in Nat
      <4>1. \A j \in 1..n+1 : more[j] \in Nat
        <5>1. \A j \in 1..n+1 : j \in 1..n \/ j = n + 1
          BY <1>1
        <5>2. QED
          BY <1>1, <5>1
      <4>2. QED
        BY <4>1
    <3>2. QED
      BY <1>1, <3>1
  <2>4. \A j \in 1..n+1 : b[j] = IF j < n + 1 THEN more[j] ELSE IF j = n + 1 THEN more[j] + 1 ELSE 0
    BY <1>1
  <2>5. c \in Seq(Nat) /\ Len(c) = n + 1 /\ c[n + 1] = d + 1 /\ \A j \in 1..n : c[j] = text[j]
    <3>1. text \in Seq(Nat)
      <4>1. n \in Nat /\ \A k \in 1..n : text[k] \in Nat
        BY <1>1
      <4>2. text = [k \in 1..n |-> text[k]]
        OBVIOUS
      <4>3. QED
        BY <4>1, <4>2
    <3>2. QED
      BY <1>1, <3>1
  <2> HIDE DEF b, c
  <2>6. \A j \in 1..n+1 : b[j] = c[j]
    BY <1>1, <2>4, <2>5
  <2>7. b = c
    BY <2>3, <2>5, <2>6
  <2>8. QED
    BY <1>4, <2>2, <2>7 DEF more, last, c
<1>5. QED
  BY <1>3, <1>4

(* The first name is one letter A, and each after it the next in the order of *)
(* Successor: no name is left out (LetterIdGenerator.next).                   *)
THEOREM NamesCountUp ==
  /\ number_to_letter_id(0) = <<0>>
  /\ \A value \in Nat : number_to_letter_id(value + 1) = Successor(number_to_letter_id(value))
<1>1. ASSUME NEW N \in Nat, NEW f, Writes(f, N + 1), NEW v \in 0..N
      PROVE  f[v + 1] = Successor(f[v])
  <2> DEFINE T == {w \in 0..N : f[w + 1] # Successor(f[w])}
  <2>1. SUFFICES ASSUME T # {} PROVE FALSE
    BY <1>1
  <2>2. PICK w \in T : \A x \in T : w <= x
    <3>1. T \subseteq Nat
      OBVIOUS
    <3> HIDE DEF T
    <3>2. QED
      BY <2>1, <3>1, Least
  <2>3. w \in 0..N /\ f[w + 1] # Successor(f[w]) /\ w + 1 \in 1..N+1 /\ (w + 1) - 1 = w
    BY <2>2
  <2>4. f[w + 1] = Append(f[w \div Letters], w % Letters)
    BY <1>1, <2>3 DEF Writes
  <2>5. CASE w = 0
    <3>1. w \div Letters = 0 /\ w % Letters = 0
      <4>1. 0 \in Digits /\ w = 0 * Letters + 0 /\ w \in Nat
        BY <2>5, LetterAssumption DEF Digits
      <4>2. QED
        BY <4>1, DivisionIs
    <3>2. f[0] = <<>>
      BY <1>1 DEF Writes
    <3>3. f[w + 1] = <<0>>
      <4>1. Append(<<>>, 0) = <<0>>
        OBVIOUS
      <4>2. QED
        BY <2>4, <3>1, <3>2, <4>1
    <3>4. Successor(<<>>) = <<0>>
      BY DEF Successor
    <3>5. QED
      BY <2>3, <2>5, <3>2, <3>3, <3>4
  <2>6. CASE w # 0
    <3> DEFINE u == (w - 1) \div Letters
               d == (w - 1) % Letters
    <3>1. w \in 1..N+1 /\ w \in Nat \ {0}
      BY <2>3, <2>6
    <3>2. u \in Nat /\ u < w /\ d \in Digits /\ u * Letters + d = w - 1
      BY <3>1, LastLetter, Zenon
    <3>3. f[w] = Append(f[u], d)
      BY <1>1, <3>1 DEF Writes
    <3> HIDE DEF u, d
    <3>4. f[u] \in Seq(Digits) /\ u \in 0..N
      BY <1>1, <2>3, <3>2 DEF Writes
    <3>5. Letters \in Nat /\ Letters > 1 /\ d \in 0..Letters-1
      BY <3>2, LetterAssumption DEF Digits
    <3>6. Successor(f[w]) = IF d = Letters - 1 THEN Append(Successor(f[u]), 0) ELSE Append(f[u], d + 1)
      BY <3>2, <3>3, <3>4, SuccessorOf
    <3>7. CASE d = Letters - 1
      <4>1. w = (u + 1) * Letters + 0 /\ u + 1 \in Nat /\ 0 \in Digits
        <5>1. (u + 1) * Letters = u * Letters + Letters
          BY <3>2, <3>5
        <5>2. u * Letters \in Nat
          BY <3>2, <3>5
        <5>3. QED
          BY <3>1, <3>2, <3>5, <3>7, <5>1, <5>2 DEF Digits
      <4>2. w \div Letters = u + 1 /\ w % Letters = 0
        BY <3>1, <4>1, DivisionIs
      <4>3. f[u + 1] = Successor(f[u])
        BY <2>2, <3>2, <3>4
      <4>4. QED
        BY <2>3, <2>4, <3>6, <3>7, <4>2, <4>3
    <3>8. CASE d # Letters - 1
      <4>1. w = u * Letters + (d + 1) /\ d + 1 \in Digits
        <5>1. u * Letters \in Nat
          BY <3>2, <3>5
        <5>2. QED
          BY <3>1, <3>2, <3>5, <3>8, <5>1 DEF Digits
      <4>2. w \div Letters = u /\ w % Letters = d + 1
        BY <3>1, <3>2, <4>1, DivisionIs
      <4>3. QED
        BY <2>3, <2>4, <3>6, <3>8, <4>2
    <3>9. QED
      BY <3>7, <3>8
  <2>7. QED
    BY <2>5, <2>6
<1>2. number_to_letter_id(0) = <<0>>
  <2> DEFINE f == NamesUpTo(0)
  <2>1. number_to_letter_id(0) = f[0 + 1]
    BY Zenon DEF number_to_letter_id, NamesUpTo
  <2>2. Writes(f, 0 + 1)
    BY NamesAreWritten
  <2> HIDE DEF f
  <2>3. f[0 + 1] = Successor(f[0]) /\ f[0] = <<>>
    <3>1. 0 \in Nat /\ 0 \in 0..0
      OBVIOUS
    <3>2. f[0 + 1] = Successor(f[0])
      BY <1>1, <2>2, <3>1, Zenon
    <3>3. f[0] = <<>>
      BY <2>2 DEF Writes
    <3>4. QED
      BY <3>2, <3>3
  <2>4. Successor(<<>>) = <<0>>
    BY DEF Successor
  <2>5. QED
    BY <2>1, <2>3, <2>4
<1>3. ASSUME NEW value \in Nat
      PROVE  number_to_letter_id(value + 1) = Successor(number_to_letter_id(value))
  <2> DEFINE f == NamesUpTo(value)
             g == NamesUpTo(value + 1)
             N == value + 1
  <2>1. /\ number_to_letter_id(value) = f[N]
        /\ number_to_letter_id(value + 1) = g[N + 1]
    BY Zenon DEF number_to_letter_id, NamesUpTo
  <2>2. Writes(f, N) /\ Writes(g, N + 1) /\ N \in Nat
    BY NamesAreWritten
  <2> HIDE DEF f, g, N
  <2>3. f[N] = g[N]
    BY <2>2, WrittenAlike
  <2>4. g[N + 1] = Successor(g[N])
    BY <1>1, <2>2
  <2>5. QED
    BY <2>1, <2>3, <2>4 DEF N
<1>4. QED
  BY <1>2, <1>3

(* No two connections share a name, and the name that the user types stands   *)
(* for the connection that was given it.                                      *)
THEOREM NamesAlwaysReadBack == ManagerSpec => []NamesReadBack
<1>1. Inv => NamesReadBack
  <2> SUFFICES ASSUME Inv, NEW c \in Connections
               PROVE  letter_id_to_number(Name(c)) = c - 1
    BY DEF NamesReadBack
  <2>1. c - 1 \in Nat
    BY DEF Inv, RecordsOK, Connections
  <2>2. QED
    BY <2>1, NumbersReadBack DEF ReadsBack, Name
<1>2. QED
  BY <1>1, ManagerInvariant, PTL
==============================================================================
