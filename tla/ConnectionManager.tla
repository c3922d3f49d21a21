-------------------------- MODULE ConnectionManager --------------------------
(* core/connection_manager.py: the connections of a session.  A backend      *)
(* names a connection by an id of its own (a pointer, or what libwayland     *)
(* prints), which may be used again; the manager turns each use into a       *)
(* connection of its own and keeps it for ever.                              *)
(*                                                                           *)
(* Each operation is one action: it runs to its end in the thread that calls *)
(* it.  A connection is its position in connection_list, which also gives    *)
(* its name (A, B, C...: see LetterIdGenerator).  What handling a message    *)
(* does inside the connection is the business of module Connection; seen     *)
(* from here it stores the message and then either tells the listener or     *)
(* raises.                                                                   *)
EXTENDS Naturals, Sequences

CONSTANTS
  ConnIds,         \* ids the backend gives to connections
  Payloads,        \* messages, told apart only by their content
  MaxConnections,  \* bound: connections opened in a behaviour
  MaxStored        \* bound: messages of one connection

ASSUME ManagerAssumption ==
  MaxConnections \in Nat /\ MaxStored \in Nat

VARIABLES
  connection_list,   \* every connection, in the order they were opened
  open_connections,  \* id -> the open connection with that id; 0 for none
  events,            \* what the listener (the user interface) was told
  raised             \* what the last operation raised, or "none"

managerVars == <<connection_list, open_connections, events, raised>>

Event(kind, c, n) == [kind |-> kind, conn |-> c, n |-> n]

Init ==
  /\ connection_list = <<>>
  /\ open_connections = [id \in ConnIds |-> 0]
  /\ events = <<>>
  /\ raised = "none"

IsOpen(id) == open_connections[id] # 0

(* ConnectionImpl.close of the connection that has the id, if one is open.   *)
Closed(id) ==
  IF IsOpen(id)
  THEN [connection_list EXCEPT ![open_connections[id]].open = FALSE]
  ELSE connection_list

ClosedEvents(id) ==
  IF IsOpen(id) THEN <<Event("closed", open_connections[id], 0)>> ELSE <<>>

(* Mutant: the connection that is open under the same id is forgotten.       *)
OpenOver(id) ==
  LET c == Len(connection_list) + 1
  IN /\ c <= MaxConnections
     /\ connection_list' = Append(connection_list, [id |-> id, open |-> TRUE, stored |-> <<>>])
     /\ open_connections' = [open_connections EXCEPT ![id] = c]
     /\ events' = Append(events, Event("opened", c, 0))
     /\ raised' = "none"

(* A connection that is open under the same id is closed first.              *)
OpenConnection(id) ==
  LET c == Len(connection_list) + 1
  IN /\ c <= MaxConnections
     /\ connection_list' = Append(Closed(id), [id |-> id, open |-> TRUE, stored |-> <<>>])
     /\ open_connections' = [open_connections EXCEPT ![id] = c]
     /\ events' = events \o ClosedEvents(id) \o <<Event("opened", c, 0)>>
     /\ raised' = "none"

(* Mutant: the id still leads to the connection that was closed.             *)
CloseKeepingId(id) ==
  /\ connection_list' = Closed(id)
  /\ events' = events \o ClosedEvents(id)
  /\ raised' = "none"
  /\ UNCHANGED open_connections

(* Closing an id under which nothing is open does nothing.                   *)
CloseConnection(id) ==
  /\ connection_list' = Closed(id)
  /\ open_connections' = [open_connections EXCEPT ![id] = 0]
  /\ events' = events \o ClosedEvents(id)
  /\ raised' = "none"

(* The assert of ConnectionManager.message.                                  *)
MessageRefused(id) ==
  /\ ~IsOpen(id)
  /\ raised' = "AssertionError"
  /\ UNCHANGED <<connection_list, open_connections, events>>

(* ConnectionImpl.message stores the message before it does anything that    *)
(* can raise, and tells the listener afterwards.                             *)
MessageAccepted(id, m) ==
  LET c == open_connections[id]
      n == Len(connection_list[c].stored) + 1
  IN /\ IsOpen(id)
     /\ n <= MaxStored
     /\ connection_list' = [connection_list EXCEPT ![c].stored = Append(@, m)]
     /\ \/ raised' = "none" /\ events' = Append(events, Event("message", c, n))
        \/ raised' \in {"RuntimeError", "AssertionError"} /\ UNCHANGED events
     /\ UNCHANGED open_connections

Message(id, m) == MessageRefused(id) \/ MessageAccepted(id, m)

ManagerNext ==
  \E id \in ConnIds :
    \/ OpenConnection(id)
    \/ CloseConnection(id)
    \/ \E m \in Payloads : Message(id, m)

ManagerSpec == Init /\ [][ManagerNext]_managerVars

------------------------------------------------------------------------------
(* Properties *)

Connections == 1..Len(connection_list)

RecordsOK ==
  /\ connection_list \in Seq([id : ConnIds, open : BOOLEAN, stored : Seq(Payloads)])
  /\ open_connections \in [ConnIds -> Nat]
  /\ events \in Seq([kind : {"opened", "message", "closed"}, conn : Nat, n : Nat])

(* Types; the manager itself only ever raises what handling a message raises *)
(* and its own assert, never a KeyError.                                     *)
ManagerTypeOK == RecordsOK /\ raised \in {"none", "RuntimeError", "AssertionError"}

(* The dictionary and the flag of each connection agree: a connection is     *)
(* open exactly while its id leads to it.  So an id never leads to a closed  *)
(* connection, and no open connection is out of reach when its id is reused. *)
OpenIsReachable ==
  /\ \A id \in ConnIds : IsOpen(id) =>
       /\ open_connections[id] \in Connections
       /\ connection_list[open_connections[id]].id = id
  /\ \A c \in Connections :
       connection_list[c].open <=> open_connections[connection_list[c].id] = c

(* Only the newest connection of an id can be open.                          *)
OnlyNewestOpen ==
  \A c, d \in Connections :
    c < d /\ connection_list[c].id = connection_list[d].id => ~connection_list[c].open

(* What the listener is told of one connection: that it opened, first and    *)
(* once; then messages it has, in their order, none twice; then, once and    *)
(* only if it is closed, that it closed, and nothing more                    *)
(* (Connection.Listener: "Called only once when the connection is closed").  *)
StoryOfEachConnection ==
  \A c \in Connections :
    LET about == {i \in 1..Len(events) : events[i].conn = c}
    IN /\ about # {}
       /\ \A i \in about :
            /\ events[i].kind = "opened" <=> \A j \in about : i <= j
            /\ events[i].kind = "closed" <=>
                 ~connection_list[c].open /\ \A j \in about : j <= i
            /\ events[i].kind = "message" =>
                 /\ events[i].n \in 1..Len(connection_list[c].stored)
                 /\ \A j \in about : j < i => events[j].n < events[i].n

(* Nothing reaches a closed connection, and it never opens again.            *)
ClosedIsFinal ==
  [][\A c \in Connections :
       ~connection_list[c].open => connection_list'[c] = connection_list[c]]_managerVars
==============================================================================
