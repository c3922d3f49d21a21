--------------------------- MODULE ControllerProofs ---------------------------
(* Theorems about Controller for any messages, matchers and bounds: what the *)
(* controller does around the connection manager leaves the manager as it    *)
(* is, and its own list of messages stays in step with the connections'.     *)
EXTENDS Controller, ManagerProofs, SelectionProofs, SequenceTheorems, FiniteSetTheorems

Reference == [conn : Nat, n : Nat]

(* The inductive invariant: that of the manager, which says what a           *)
(* connection's messages are, and that each message told of is in the list   *)
(* after the earlier ones of its connection.                                 *)
ControllerInv ==
  /\ Inv
  /\ all_messages \in Seq(Reference)
  /\ AllMessagesOrdered

(* A step of the controller is a step of the manager, or none of its.        *)
LEMMA StepOfManager ==
  ASSUME [Next]_vars
  PROVE  [ManagerNext]_managerVars
<1>1. CASE Backend
  BY <1>1 DEF Backend, Opens, Closes, Receives, ManagerNext
<1>2. CASE User
  BY <1>2 DEF User, SimpleCommand, FilterCommand, BreakPointCommand, ConnectionCommand,
              ListCommand, Commands
<1>3. CASE UNCHANGED vars
  BY <1>3 DEF vars
<1>4. QED
  BY <1>1, <1>2, <1>3 DEF Next

(* Connections stay, and no message of theirs is ever dropped or changed.    *)
LEMMA StoredGrows ==
  ASSUME Inv, [ManagerNext]_managerVars, NEW c \in Connections
  PROVE  /\ c \in Connections'
         /\ Len(connection_list[c].stored) \in Nat
         /\ Len(connection_list'[c].stored) \in Nat
         /\ Len(connection_list[c].stored) <= Len(connection_list'[c].stored)
        /\ \A n \in 1..Len(connection_list[c].stored) :
             connection_list'[c].stored[n] = connection_list[c].stored[n]
<1>1. /\ connection_list \in Seq(Entry) /\ Connections = 1..Len(connection_list)
      /\ Len(connection_list) \in Nat
      /\ \A d \in Connections : connection_list[d] \in Entry
  <2>1. connection_list \in Seq(Entry)
    BY DEF Inv, RecordsOK, Entry
  <2> HIDE DEF Entry
  <2>2. QED
    BY <2>1 DEF Connections
<1>2. connection_list[c].stored \in Seq(Payloads)
  BY <1>1 DEF Entry
<1>3. Len(connection_list[c].stored) \in Nat
  BY <1>2
<1>4. ASSUME NEW id \in ConnIds, OpenConnection(id)
      PROVE  c \in Connections' /\ connection_list'[c].stored = connection_list[c].stored
  <2> DEFINE e == [id |-> id, open |-> TRUE, stored |-> <<>>]
  <2>1. e \in Entry
    BY DEF Entry
  <2>2. connection_list' = Append(Closed(id), e)
    BY <1>4 DEF OpenConnection
  <2>3. /\ Closed(id) \in Seq(Entry) /\ Len(Closed(id)) = Len(connection_list)
        /\ Closed(id)[c].stored = connection_list[c].stored
    BY ClosedEffect
  <2> HIDE DEF e
  <2>4. /\ Len(connection_list') = Len(connection_list) + 1
        /\ connection_list'[c] = Closed(id)[c]
    BY <1>1, <2>1, <2>2, <2>3
  <2>5. QED
    BY <1>1, <2>3, <2>4 DEF Connections
<1>5. ASSUME NEW id \in ConnIds, CloseConnection(id)
      PROVE  c \in Connections' /\ connection_list'[c].stored = connection_list[c].stored
  <2>1. connection_list' = Closed(id)
    BY <1>5 DEF CloseConnection
  <2>2. QED
    BY <1>1, <2>1, ClosedEffect DEF Connections
<1>6. ASSUME NEW id \in ConnIds, NEW m \in Payloads, MessageAccepted(id, m)
      PROVE  /\ c \in Connections'
             /\ \/ connection_list'[c].stored = connection_list[c].stored
                \/ connection_list'[c].stored = Append(connection_list[c].stored, m)
  <2> DEFINE o == open_connections[id]
             e == [connection_list[o] EXCEPT !.stored = Append(@, m)]
  <2>1. o \in Connections
    BY <1>6 DEF MessageAccepted, Inv, OpenIsReachable
  <2>2. connection_list' = [connection_list EXCEPT ![o] = e]
    BY <1>6 DEF MessageAccepted
  <2>3. e.stored = Append(connection_list[o].stored, m)
    <3>1. connection_list[o] \in Entry
      BY <1>1, <2>1
    <3>2. QED
      BY <3>1 DEF Entry
  <2> HIDE DEF e
  <2>4. /\ Len(connection_list') = Len(connection_list)
        /\ connection_list'[o] = e
        /\ c # o => connection_list'[c] = connection_list[c]
    BY <1>1, <2>1, <2>2
  <2>5. QED
    BY <1>1, <2>3, <2>4 DEF Connections
<1>7. CASE UNCHANGED connection_list
  BY <1>3, <1>7 DEF Connections
<1>8. QED
  <2>1. ASSUME NEW m \in Payloads
        PROVE  LET longer == Append(connection_list[c].stored, m)
               IN /\ Len(longer) = Len(connection_list[c].stored) + 1
                  /\ \A n \in 1..Len(connection_list[c].stored) :
                       longer[n] = connection_list[c].stored[n]
    BY <1>2
  <2>2. ASSUME ManagerNext
        PROVE  \/ UNCHANGED connection_list
               \/ /\ c \in Connections'
                  /\ \/ connection_list'[c].stored = connection_list[c].stored
                     \/ \E m \in Payloads :
                          connection_list'[c].stored = Append(connection_list[c].stored, m)
    BY <1>4, <1>5, <1>6, <2>2 DEF ManagerNext, Message, MessageRefused
  <2>3. ManagerNext \/ UNCHANGED connection_list
    BY DEF managerVars
  <2>4. CASE UNCHANGED connection_list
    BY <1>7, <2>4
  <2>5. CASE connection_list'[c].stored = connection_list[c].stored /\ c \in Connections'
    BY <1>3, <2>5
  <2>6. CASE /\ c \in Connections'
             /\ \E m \in Payloads : connection_list'[c].stored = Append(connection_list[c].stored, m)
    BY <1>3, <2>1, <2>6
  <2>7. QED
    BY <2>2, <2>3, <2>4, <2>5, <2>6

(* A reference holds two numbers.                                            *)
LEMMA ReferenceFields ==
  ASSUME ControllerInv, NEW i \in DOMAIN all_messages
  PROVE  all_messages[i].conn \in Nat /\ all_messages[i].n \in Nat
<1>1. all_messages[i] \in Reference
  BY DEF ControllerInv
<1>2. QED
  BY <1>1 DEF Reference

(* A message that was told of comes after all that its connection had.       *)
LEMMA ReceivesKeepsOrder ==
  ASSUME ControllerInv, NEW id \in ConnIds, NEW m \in Payloads, Receives(id, m)
  PROVE  all_messages' \in Seq(Reference) /\ AllMessagesOrdered'
<1> DEFINE c == open_connections[id]
           n == Len(connection_list[c].stored) + 1
           r == [conn |-> c, n |-> n]
           ok == /\ all_messages' \in Seq(Reference)
                 /\ AllMessagesOrdered'
<1>1. [ManagerNext]_managerVars
  BY DEF Receives, ManagerNext
<1>2. /\ Inv /\ AllMessagesOrdered /\ all_messages \in Seq(Reference)
      /\ \A i \in DOMAIN all_messages : all_messages[i].conn \in Nat /\ all_messages[i].n \in Nat
  BY ReferenceFields DEF ControllerInv
<1>3. ASSUME NEW i \in DOMAIN all_messages
      PROVE  LET d == all_messages[i].conn
             IN /\ d \in Connections /\ d \in Connections'
                /\ all_messages[i].n \in 1..Len(connection_list[d].stored)
                /\ all_messages[i].n \in 1..Len(connection_list'[d].stored)
  <2>1. /\ all_messages[i].conn \in Connections
        /\ all_messages[i].n \in 1..Len(connection_list[all_messages[i].conn].stored)
    BY <1>2 DEF AllMessagesOrdered
  <2>2. QED
    BY <1>1, <1>2, <2>1, StoredGrows
<1>4. CASE UNCHANGED all_messages
  BY <1>2, <1>3, <1>4 DEF AllMessagesOrdered
<1>5. CASE raised' = "none"
  <2>1. MessageAccepted(id, m)
    BY <1>5 DEF Receives, Message, MessageRefused
  <2>2. all_messages' = Append(all_messages, r)
    BY <1>5 DEF Receives, GotNewMessage
  <2>3. /\ c \in Connections /\ c \in Connections'
        /\ Len(connection_list[c].stored) \in Nat
        /\ Len(connection_list'[c].stored) = n
    <3>1. c \in Connections
      BY <1>2, <2>1 DEF MessageAccepted, Inv, OpenIsReachable
    <3>2. c \in Connections' /\ Len(connection_list[c].stored) \in Nat
      BY <1>1, <1>2, <3>1, StoredGrows
    <3>3. connection_list' = [connection_list EXCEPT ![c].stored = Append(@, m)]
      BY <2>1 DEF MessageAccepted
    <3>4. connection_list \in Seq(Entry)
      BY <1>2 DEF Inv, RecordsOK, Entry
    <3>5. connection_list[c] \in Entry
      <4> HIDE DEF Entry
      <4>1. QED
        BY <3>1, <3>4 DEF Connections
    <3>6. connection_list[c].stored \in Seq(Payloads)
      BY <3>5 DEF Entry
    <3>7. connection_list'[c].stored = Append(connection_list[c].stored, m)
      <4>1. connection_list'[c] = [connection_list[c] EXCEPT !.stored = Append(@, m)]
        <5> DEFINE e == [connection_list[c] EXCEPT !.stored = Append(@, m)]
        <5>1. connection_list' = [connection_list EXCEPT ![c] = e]
          BY <3>3
        <5>2. c \in 1..Len(connection_list)
          BY <3>1 DEF Connections
        <5> HIDE DEF e, Entry, c
        <5>3. connection_list'[c] = e
          BY <3>4, <5>1, <5>2
        <5>4. QED
          BY <5>3 DEF e
      <4>2. QED
        BY <3>5, <4>1 DEF Entry
    <3>8. QED
      BY <3>1, <3>2, <3>6, <3>7
  <2>4. n \in Nat /\ r \in Reference /\ r.conn = c /\ r.n = n
    <3>1. c \in Nat /\ n \in Nat
      BY <1>2, <2>3 DEF Inv, RecordsOK
    <3>2. QED
      BY <3>1 DEF Reference
  <2> HIDE DEF n, c, r
  <2>5. /\ all_messages' \in Seq(Reference)
        /\ DOMAIN all_messages' = 1..Len(all_messages) + 1
        /\ DOMAIN all_messages = 1..Len(all_messages)
        /\ Len(all_messages) \in Nat
        /\ all_messages'[Len(all_messages) + 1] = r
        /\ \A i \in 1..Len(all_messages) : all_messages'[i] = all_messages[i]
    BY <1>2, <2>2, <2>4
  <2>6. ASSUME NEW i \in DOMAIN all_messages'
        PROVE  /\ all_messages'[i].conn \in Connections'
               /\ all_messages'[i].n \in 1..Len(connection_list'[all_messages'[i].conn].stored)
    <3>1. CASE i = Len(all_messages) + 1
      BY <2>3, <2>4, <2>5, <3>1 DEF n
    <3>2. CASE i \in DOMAIN all_messages
      BY <1>3, <2>5, <3>2
    <3>3. QED
      BY <2>5, <3>1, <3>2
  <2>7. ASSUME NEW i \in DOMAIN all_messages', NEW j \in DOMAIN all_messages',
               i < j, all_messages'[i].conn = all_messages'[j].conn
        PROVE  all_messages'[i].n < all_messages'[j].n
    <3>1. i \in DOMAIN all_messages /\ (j \in DOMAIN all_messages \/ j = Len(all_messages) + 1)
      BY <2>5, <2>7
    <3>2. CASE j \in DOMAIN all_messages
      BY <1>2, <2>5, <2>7, <3>1, <3>2 DEF AllMessagesOrdered
    <3>3. CASE j = Len(all_messages) + 1
      <4>1. all_messages[i].conn = c
        BY <2>4, <2>5, <2>7, <3>1, <3>3
      <4>2. all_messages[i].n \in 1..Len(connection_list[c].stored)
        BY <1>3, <3>1, <4>1
      <4>3. QED
        BY <2>3, <2>4, <2>5, <3>1, <3>3, <4>2 DEF n
    <3>4. QED
      BY <3>1, <3>2, <3>3
  <2>8. QED
    BY <2>5, <2>6, <2>7 DEF AllMessagesOrdered
<1>6. QED
  BY <1>4, <1>5 DEF Receives

(* Every step of the controller keeps its invariant.                         *)
LEMMA StepKeepsControllerInv ==
  ASSUME ControllerInv, [Next]_vars
  PROVE  ControllerInv'
<1>1. Inv'
  BY StepOfManager, StepKeepsInv DEF ControllerInv
<1>2. ASSUME UNCHANGED all_messages
      PROVE  all_messages' \in Seq(Reference) /\ AllMessagesOrdered'
  <2>1. /\ Inv /\ AllMessagesOrdered /\ all_messages \in Seq(Reference)
        /\ \A i \in DOMAIN all_messages : all_messages[i].n \in Nat
    BY ReferenceFields DEF ControllerInv
  <2>2. ASSUME NEW i \in DOMAIN all_messages
        PROVE  LET d == all_messages[i].conn
               IN d \in Connections' /\ all_messages[i].n \in 1..Len(connection_list'[d].stored)
    <3>1. /\ all_messages[i].conn \in Connections
          /\ all_messages[i].n \in 1..Len(connection_list[all_messages[i].conn].stored)
      BY <2>1 DEF AllMessagesOrdered
    <3>2. QED
      BY <2>1, <3>1, StepOfManager, StoredGrows, SMTT(20)
  <2>3. QED
    BY <1>2, <2>1, <2>2 DEF AllMessagesOrdered
<1>3. CASE Backend
  <2>1. PICK id \in ConnIds : Opens(id) \/ Closes(id) \/ \E m \in Payloads : Receives(id, m)
    BY <1>3 DEF Backend
  <2>2. CASE Opens(id) \/ Closes(id)
    <3>1. UNCHANGED all_messages
      BY <2>2 DEF Opens, Closes
    <3>2. QED
      BY <1>1, <1>2, <3>1 DEF ControllerInv
  <2>3. CASE \E m \in Payloads : Receives(id, m)
    BY <1>1, <2>3, ReceivesKeepsOrder DEF ControllerInv
  <2>4. QED
    BY <2>1, <2>2, <2>3
<1>4. CASE User
  <2>1. UNCHANGED all_messages
    BY <1>4 DEF User, SimpleCommand, FilterCommand, BreakPointCommand, ConnectionCommand,
                ListCommand, Commands
  <2>2. QED
    BY <1>1, <1>2, <2>1 DEF ControllerInv
<1>5. CASE UNCHANGED vars
  <2>1. UNCHANGED all_messages
    BY <1>5 DEF vars
  <2>2. QED
    BY <1>1, <1>2, <2>1 DEF ControllerInv
<1>6. QED
  BY <1>3, <1>4, <1>5 DEF Next

(* Around the controller the connection manager does what it does alone: no  *)
(* command, filter or breakpoint changes what is recorded.                   *)
THEOREM ControllerImplementsManager == Spec => ManagerSpec
<1>1. ControllerInit => Init
  BY DEF ControllerInit
<1>2. [Next]_vars => [ManagerNext]_managerVars
  BY StepOfManager
<1>3. QED
  BY <1>1, <1>2, PTL DEF Spec, ManagerSpec

(* The controller's invariant holds in every state it can be in.             *)
LEMMA ControllerInvariant == Spec => []ControllerInv
<1>1. ControllerInit => ControllerInv
  <2>1. ASSUME ControllerInit PROVE Inv
    BY <2>1 DEF ControllerInit, Init, Inv, RecordsOK, OpenIsReachable, OnlyNewestOpen,
                Connections, IsOpen
  <2>2. QED
    BY <2>1 DEF ControllerInit, ControllerInv, AllMessagesOrdered
<1>2. ControllerInv /\ [Next]_vars => ControllerInv'
  BY StepKeepsControllerInv
<1>3. QED
  BY <1>1, <1>2, PTL DEF Spec

(* The controller's list of all messages refers to messages the connections  *)
(* have, in the order of each connection and to none twice, whatever is      *)
(* opened, closed, received and commanded.                                   *)
THEOREM AllMessagesStayOrdered == Spec => []AllMessagesOrdered
<1>1. ControllerInv => AllMessagesOrdered
  BY DEF ControllerInv
<1>2. QED
  BY <1>1, ControllerInvariant, PTL
------------------------------------------------------------------------------
(* What was shown as it came *)

Stored(r) == r.conn \in Connections /\ r.n \in 1..Len(connection_list[r.conn].stored)

(* A message that a connection has is never dropped, and does not change.    *)
LEMMA PayloadsStay ==
  ASSUME Inv, [Next]_vars
  PROVE  \A r \in Reference : Stored(r) =>
           /\ r.conn \in Connections'
           /\ r.n \in 1..Len(connection_list'[r.conn].stored)
           /\ connection_list'[r.conn].stored[r.n] = PayloadOf(r)
<1>1. SUFFICES ASSUME NEW r \in Reference, Stored(r)
               PROVE  /\ r.conn \in Connections'
                      /\ r.n \in 1..Len(connection_list'[r.conn].stored)
                      /\ connection_list'[r.conn].stored[r.n] = connection_list[r.conn].stored[r.n]
  BY DEF PayloadOf
<1>2. r.n \in Nat
  BY DEF Reference
<1>3. QED
  BY <1>1, <1>2, StepOfManager, StoredGrows DEF Stored

(* All that the controller was told of is there.                             *)
LEMMA AllAreStored ==
  ASSUME ControllerInv
  PROVE  /\ all_messages \in Seq(Reference) /\ Len(all_messages) \in Nat
         /\ \A i \in 1..Len(all_messages) : all_messages[i] \in Reference /\ Stored(all_messages[i])
BY DEF ControllerInv, AllMessagesOrdered, Stored

(* A message that is accepted is in its connection from then on.             *)
LEMMA AcceptedIsStored ==
  ASSUME Inv, NEW id \in ConnIds, NEW m \in Payloads, MessageAccepted(id, m)
  PROVE  LET c == open_connections[id]
             n == Len(connection_list[c].stored) + 1
         IN /\ [conn |-> c, n |-> n] \in Reference
            /\ connection_list'[c].stored[n] = m
<1> DEFINE c == open_connections[id]
           n == Len(connection_list[c].stored) + 1
           e == [connection_list[c] EXCEPT !.stored = Append(@, m)]
<1>1. c \in 1..Len(connection_list) /\ connection_list \in Seq(Entry)
  BY StateTypes DEF MessageAccepted, Inv, OpenIsReachable
<1>2. connection_list' = [connection_list EXCEPT ![c] = e]
  BY DEF MessageAccepted
<1>3. connection_list[c] \in Entry /\ c \in Nat
  <2> HIDE DEF Entry, c
  <2>1. QED
    BY <1>1
<1>4. connection_list[c].stored \in Seq(Payloads) /\ n \in Nat
  BY <1>3 DEF Entry
<1>5. e.stored = Append(connection_list[c].stored, m)
  BY <1>3 DEF Entry
<1>6. e.stored[n] = m
  BY <1>4, <1>5
<1>7. connection_list'[c] = e
  <2> HIDE DEF Entry, c, e
  <2>1. QED
    BY <1>1, <1>2
<1>8. QED
  BY <1>3, <1>4, <1>6, <1>7 DEF Reference

(* What matches stays the same while no message comes.                       *)
LEMMA MatchingStays ==
  ASSUME ControllerInv, [Next]_vars, UNCHANGED all_messages, UNCHANGED display_matcher
  PROVE  Matching(display_matcher, all_messages)' = Matching(display_matcher, all_messages)
<1> DEFINE P == {i \in 1..Len(all_messages) : PayloadOf(all_messages[i]).content \in display_matcher}
           Q == {i \in 1..Len(all_messages) :
                   connection_list'[all_messages[i].conn].stored[all_messages[i].n].content
                     \in display_matcher}
<1>1. Inv /\ all_messages \in Seq(Reference)
  BY DEF ControllerInv
<1>2. P = Q
  BY <1>1, AllAreStored, PayloadsStay
<1>3. QED
  BY <1>2 DEF Matching, PayloadOf

(* A message that is told of is the last that matches, or does not match.    *)
LEMMA MatchingGoesOn ==
  ASSUME ControllerInv, [Next]_vars, UNCHANGED display_matcher,
         NEW id \in ConnIds, NEW m \in Payloads, MessageAccepted(id, m),
         all_messages' = Append(all_messages, [conn |-> open_connections[id],
                           n |-> Len(connection_list[open_connections[id]].stored) + 1])
  PROVE  Matching(display_matcher, all_messages)' =
           IF m.content \in display_matcher
           THEN Append(Matching(display_matcher, all_messages),
                  [conn |-> open_connections[id],
                   n |-> Len(connection_list[open_connections[id]].stored) + 1])
           ELSE Matching(display_matcher, all_messages)
<1> DEFINE r == [conn |-> open_connections[id],
                 n |-> Len(connection_list[open_connections[id]].stored) + 1]
           P == {i \in 1..Len(all_messages) : PayloadOf(all_messages[i]).content \in display_matcher}
           at(i) == connection_list'[all_messages'[i].conn].stored[all_messages'[i].n]
           Q == {i \in 1..Len(all_messages') : at(i).content \in display_matcher}
<1>1. Inv /\ all_messages \in Seq(Reference) /\ Len(all_messages) \in Nat
  BY DEF ControllerInv
<1>2. r \in Reference /\ connection_list'[r.conn].stored[r.n] = m
  BY <1>1, AcceptedIsStored
<1>3. all_messages' = Append(all_messages, r)
  OBVIOUS
<1> HIDE DEF r
<1>4. /\ Len(all_messages') = Len(all_messages) + 1
      /\ all_messages'[Len(all_messages) + 1] = r
      /\ \A i \in 1..Len(all_messages) : all_messages'[i] = all_messages[i]
  BY <1>1, <1>2, <1>3
<1>5. ASSUME NEW i \in 1..Len(all_messages)
      PROVE  i \in P <=> i \in Q
  BY <1>1, <1>4, AllAreStored, PayloadsStay
<1>6. Len(all_messages) + 1 \in Q <=> m.content \in display_matcher
  <2>1. Len(all_messages) + 1 \in 1..Len(all_messages')
    BY <1>1, <1>4
  <2>2. at(Len(all_messages) + 1) = m
    BY <1>2, <1>4
  <2> HIDE DEF at
  <2>3. QED
    BY <2>1, <2>2
<1> HIDE DEF P, Q
<1>7. Selected(all_messages', Q) =
        IF Len(all_messages) + 1 \in Q THEN Append(Selected(all_messages, P), r)
        ELSE Selected(all_messages, P)
  BY <1>1, <1>2, <1>3, <1>5, SelectedAppend
<1>8. QED
  BY <1>6, <1>7 DEF Matching, PayloadOf, P, Q, r

(* As long as nothing is filtered otherwise and no connection is picked, all *)
(* connections are shown.                                                    *)
LiveInv == undisturbed => current_connection = 0 /\ live = Matching(display_matcher, all_messages)

LEMMA StepKeepsLiveInv ==
  ASSUME ControllerInv, LiveInv, [Next]_vars
  PROVE  LiveInv'
<1>1. CASE UNCHANGED <<all_messages, display_matcher, current_connection, live, undisturbed>>
  BY <1>1, MatchingStays DEF LiveInv
<1>2. CASE Backend
  <2>1. PICK id \in ConnIds : Opens(id) \/ Closes(id) \/ \E m \in Payloads : Receives(id, m)
    BY <1>2 DEF Backend
  <2>2. CASE Opens(id) \/ Closes(id)
    BY <1>1, <2>2 DEF Opens, Closes, filterVars, historyVars
  <2>3. ASSUME NEW m \in Payloads, Receives(id, m)
        PROVE  LiveInv'
    <3> DEFINE c == open_connections[id]
               r == [conn |-> c, n |-> Len(connection_list[c].stored) + 1]
    <3>1. CASE raised' # "none"
      BY <1>1, <2>3, <3>1 DEF Receives, filterVars
    <3>2. CASE raised' = "none"
      <4>1. MessageAccepted(id, m)
        BY <2>3, <3>2 DEF Receives, Message, MessageRefused
      <4>2. GotNewMessage(c, Len(connection_list[c].stored) + 1, m)
        BY <2>3, <3>2 DEF Receives
      <4>3. UNCHANGED <<display_matcher, current_connection, undisturbed>>
        BY <2>3 DEF Receives, filterVars
      <4>4. all_messages' = Append(all_messages, r)
        BY <4>2 DEF GotNewMessage
      <4>5. current_connection = 0 =>
              live' = IF m.content \in display_matcher THEN Append(live, r) ELSE live
        BY <4>2 DEF GotNewMessage
      <4>6. Matching(display_matcher, all_messages)' =
              IF m.content \in display_matcher
              THEN Append(Matching(display_matcher, all_messages), r)
              ELSE Matching(display_matcher, all_messages)
        BY <4>1, <4>3, <4>4, MatchingGoesOn
      <4>7. QED
        BY <4>3, <4>5, <4>6 DEF LiveInv
    <3>3. QED
      BY <3>1, <3>2
  <2>4. QED
    BY <2>1, <2>2, <2>3
<1>3. CASE User
  <2>1. CASE undisturbed' = FALSE
    BY <2>1 DEF LiveInv
  <2>2. CASE undisturbed' # FALSE
    BY <1>1, <1>3, <2>2 DEF User, SimpleCommand, FilterCommand, BreakPointCommand,
                             ConnectionCommand, ListCommand, Commands, filterVars
  <2>3. QED
    BY <2>1, <2>2
<1>4. CASE UNCHANGED vars
  BY <1>1, <1>4 DEF vars, filterVars, historyVars
<1>5. QED
  BY <1>2, <1>3, <1>4 DEF Next

(* Until a filter or connection command is given, the messages shown as they *)
(* came are those that a list without an argument selects: every one that    *)
(* the filter matches, in the order they came.                               *)
THEOREM LiveAlwaysListed == Spec => []LiveIsListed
<1>1. ControllerInit => LiveInv
  <2>1. ASSUME ControllerInit PROVE Matching(display_matcher, all_messages) = live
    BY <2>1, SelectedEmpty DEF ControllerInit, Matching
  <2>2. QED
    BY <2>1 DEF ControllerInit, LiveInv
<1>2. ControllerInv /\ LiveInv /\ [Next]_vars => LiveInv'
  BY StepKeepsLiveInv
<1>3. LiveInv => LiveIsListed
  BY DEF LiveInv, LiveIsListed
<1>4. QED
  BY <1>1, <1>2, <1>3, ControllerInvariant, PTL DEF Spec
------------------------------------------------------------------------------
(* What is listed *)

(* The connection that is shown is one of the connections.                   *)
ShownInv == current_connection \in Connections \cup {0}

LEMMA GetConnectionType ==
  ASSUME Inv, NEW arg
  PROVE  GetConnection(arg) \in Connections \cup {0}
<1> DEFINE named == {c \in Connections : Names[c] = arg}
           set == {c \in Connections : app_ids[c] = arg /\ app_ids[c] # ""}
<1>1. Connections \subseteq Nat
  BY StateTypes
<1>2. ASSUME NEW cs, cs # {}, cs \subseteq Connections
      PROVE  (CHOOSE c \in cs : \A d \in cs : c <= d) \in Connections
  <2>1. \E c \in cs : \A d \in cs : c <= d
    BY <1>1, <1>2, Least
  <2>2. QED
    BY <1>2, <2>1
<1>3. named \subseteq Connections /\ set \subseteq Connections
  OBVIOUS
<1>4. GetConnection(arg) =
        IF named # {} THEN CHOOSE c \in named : \A d \in named : c <= d
        ELSE IF set # {} THEN CHOOSE c \in set : \A d \in set : c <= d ELSE 0
  BY DEF GetConnection
<1> HIDE DEF named, set
<1>5. QED
  BY <1>2, <1>3, <1>4

LEMMA StepKeepsShownInv ==
  ASSUME Inv, ShownInv, [Next]_vars
  PROVE  ShownInv'
<1>1. \A c \in Connections : c \in Connections'
  BY StepOfManager, StoredGrows
<1>2. CASE UNCHANGED current_connection
  BY <1>1, <1>2 DEF ShownInv
<1>3. CASE Backend
  BY <1>2, <1>3 DEF Backend, Opens, Closes, Receives, filterVars
<1>4. CASE User
  <2>1. CASE \E arg \in ConnectionArgs : ConnectionCommand(arg)
    BY <1>1, <2>1, GetConnectionType DEF ConnectionCommand, ShownInv
  <2>2. CASE ~\E arg \in ConnectionArgs : ConnectionCommand(arg)
    BY <1>2, <1>4, <2>2 DEF User, SimpleCommand, FilterCommand, BreakPointCommand,
                            ListCommand, filterVars
  <2>3. QED
    BY <2>1, <2>2
<1>5. CASE UNCHANGED vars
  BY <1>2, <1>5 DEF vars, filterVars
<1>6. QED
  BY <1>3, <1>4, <1>5 DEF Next

(* What is searched are messages that the connections have.                  *)
LEMMA SearchedIsStored ==
  ASSUME ControllerInv, ShownInv
  PROVE  /\ Searched \in Seq(Reference) /\ Len(Searched) \in Nat
         /\ \A i \in 1..Len(Searched) : Searched[i] \in Reference /\ Stored(Searched[i])
<1>1. CASE current_connection = 0
  BY <1>1, AllAreStored DEF Searched
<1>2. CASE current_connection # 0
  <2> DEFINE c == current_connection
             N == Len(connection_list[c].stored)
             s == [n \in 1..N |-> [conn |-> c, n |-> n]]
  <2>1. c \in Connections /\ c \in Nat /\ N \in Nat
    BY <1>2, StateTypes, StoredIsCounted DEF ShownInv, ControllerInv
  <2> HIDE DEF N
  <2>2. \A i \in 1..N : s[i] \in Reference /\ s[i].conn = c /\ s[i].n = i
    BY <2>1 DEF Reference
  <2>3. Searched = s
    BY <1>2 DEF Searched, N
  <2>4. s \in Seq(Reference) /\ Len(s) = N
    BY <2>1, <2>2
  <2> HIDE DEF s
  <2>5. QED
    BY <2>1, <2>2, <2>3, <2>4 DEF Stored, N
<1>3. QED
  BY <1>1, <1>2

(* The greatest element of a set of numbers up to a bound.                   *)
LEMMA Greatest ==
  ASSUME NEW N \in Nat, NEW T, T \subseteq 1..N, T # {}
  PROVE  \E n \in T : \A m \in T : m <= n
<1> DEFINE D == {N - m : m \in T}
<1>1. D \subseteq Nat /\ D # {}
  <2>1. \A m \in T : N - m \in Nat
    OBVIOUS
  <2>2. QED
    BY <2>1
<1>2. PICK d \in D : \A e \in D : d <= e
  BY <1>1, Least
<1>3. PICK n \in T : d = N - n
  BY <1>2
<1>4. \A m \in T : N - n <= N - m
  BY <1>2, <1>3
<1>5. QED
  BY <1>4

(* Where the search ends: at the last message by which enough match, or else *)
(* at the first.                                                             *)
Hits(refs, matcher, i) == {j \in i..Len(refs) : PayloadOf(refs[j]).content \in matcher}
Ends(refs, matcher, cap) ==
  {i \in 1..Len(refs) : /\ PayloadOf(refs[i]).content \in matcher
                        /\ cap # 0 /\ Cardinality(Hits(refs, matcher, i)) >= cap}

LEMMA SearchEndIs ==
  ASSUME NEW refs \in Seq(Reference), NEW matcher, NEW cap
  PROVE  LET e == SearchEnd(refs, matcher, cap)
             ends == Ends(refs, matcher, cap)
         IN /\ e \in 1..Len(refs)+1
            /\ IF ends = {} THEN e = 1 ELSE e \in ends /\ \A j \in ends : j <= e
<1> DEFINE ends == Ends(refs, matcher, cap)
           e == SearchEnd(refs, matcher, cap)
<1>1. e = IF ends = {} THEN 1 ELSE CHOOSE i \in ends : \A j \in ends : j <= i
  BY DEF SearchEnd, Ends, Hits
<1>2. ends \subseteq 1..Len(refs) /\ Len(refs) \in Nat
  BY DEF Ends
<1> HIDE DEF ends, e
<1>3. CASE ends = {}
  BY <1>1, <1>2, <1>3 DEF ends, e
<1>4. CASE ends # {}
  <2>1. \E i \in ends : \A j \in ends : j <= i
    BY <1>2, <1>4, Greatest
  <2>2. e \in ends /\ \A j \in ends : j <= e
    BY <1>1, <1>4, <2>1
  <2>3. QED
    BY <1>2, <1>4, <2>2 DEF ends, e
<1>5. QED
  BY <1>3, <1>4

(* What a list shows are messages that the connections have.                 *)
LEMMA ListedIsStored ==
  ASSUME ControllerInv, ShownInv, NEW matcher, NEW cap
  PROVE  LET listing == Matching(matcher, SubSeq(Searched, SearchEnd(Searched, matcher, cap),
                                                 Len(Searched)))
         IN /\ listing \in Seq(Reference)
            /\ \A i \in 1..Len(listing) : listing[i] \in Reference /\ Stored(listing[i])
<1> DEFINE s == Searched
           e == SearchEnd(s, matcher, cap)
           t == SubSeq(s, e, Len(s))
           P == {i \in 1..Len(t) : PayloadOf(t[i]).content \in matcher}
<1>1. /\ s \in Seq(Reference) /\ Len(s) \in Nat
      /\ \A i \in 1..Len(s) : s[i] \in Reference /\ Stored(s[i])
  BY SearchedIsStored
<1> HIDE DEF s
<1>2. e \in 1..Len(s)+1
  BY <1>1, SearchEndIs
<1> HIDE DEF e
<1>3. /\ t \in Seq(Reference) /\ Len(t) = Len(s) - e + 1
      /\ \A i \in 1..Len(t) : t[i] = s[e + i - 1] /\ e + i - 1 \in 1..Len(s)
  BY <1>1, <1>2
<1> HIDE DEF t
<1>4. Matching(matcher, t) = Selected(t, P)
  BY DEF Matching
<1> HIDE DEF P
<1>5. Selected(t, P) \in Seq(Reference)
  BY <1>3, SelectedType
<1>6. PICK pos \in [1..Len(Selected(t, P)) -> P \cap 1..Len(t)] :
        \A k \in 1..Len(Selected(t, P)) : Selected(t, P)[k] = t[pos[k]]
  BY <1>3, SelectedPlaces
<1>7. ASSUME NEW k \in 1..Len(Selected(t, P))
      PROVE  Selected(t, P)[k] \in Reference /\ Stored(Selected(t, P)[k])
  <2>1. pos[k] \in 1..Len(t) /\ Selected(t, P)[k] = t[pos[k]]
    BY <1>6
  <2>2. t[pos[k]] = s[e + pos[k] - 1] /\ e + pos[k] - 1 \in 1..Len(s)
    BY <1>3, <2>1
  <2>3. QED
    BY <1>1, <2>1, <2>2
<1>8. QED
  BY <1>4, <1>5, <1>7 DEF s, e, t

(* They were sent at a time.                                                 *)
LEMMA TimesAreNumbers ==
  ASSUME Inv, NEW r \in Reference, Stored(r)
  PROVE  Time(r) \in Nat
<1>1. r.conn \in 1..Len(connection_list) /\ connection_list \in Seq(Entry)
  BY StateTypes DEF Stored
<1>2. connection_list[r.conn] \in Entry
  <2> HIDE DEF Entry
  <2>1. QED
    BY <1>1
<1>3. connection_list[r.conn].stored \in Seq(Payloads)
  BY <1>2 DEF Entry
<1>4. PayloadOf(r) \in Payloads
  BY <1>3 DEF Stored, PayloadOf
<1>5. QED
  BY <1>4, ControllerAssumption DEF Time
------------------------------------------------------------------------------
(* Separators *)

Line == [line : {"message", "gap", "list"}, time : Nat]

(* GapsAreReal, of any screen.                                               *)
RealGaps(s) ==
  \A i \in 1..Len(s) :
    /\ s[i].line = "gap" =>
         /\ i - 1 \in 1..Len(s) /\ i + 1 \in 1..Len(s)
         /\ s[i-1].line = "message" /\ s[i+1].line = "message"
         /\ s[i].time = s[i+1].time - s[i-1].time
         /\ s[i].time > 1
    /\ s[i].line = "message" /\ i + 1 \in 1..Len(s) /\ s[i+1].line = "message" =>
         s[i+1].time - s[i].time <= 1

(* The inductive invariant: the last message shown is the last line while    *)
(* its time is remembered, and otherwise nothing or a list is.               *)
EndsAt(s, last) ==
  /\ s \in Seq(Line) /\ RealGaps(s)
  /\ last \in Nat \cup {-1}
  /\ last = -1 => s = <<>> \/ s[Len(s)].line = "list"
  /\ last # -1 => s # <<>> /\ s[Len(s)].line = "message" /\ s[Len(s)].time = last

ScreenInv == EndsAt(screen, last_shown_timestamp)

LEMMA LineTypes ==
  /\ ListLine \in Line /\ ListLine.line = "list"
  /\ \A t \in Nat : /\ MessageLine(t) \in Line /\ GapLine(t) \in Line
                    /\ MessageLine(t).line = "message" /\ MessageLine(t).time = t
                    /\ GapLine(t).line = "gap" /\ GapLine(t).time = t
BY DEF ListLine, MessageLine, GapLine, Line

LEMMA ShowLinesType ==
  ASSUME NEW t \in Nat, NEW last \in Nat \cup {-1}
  PROVE  ShowLines(t, last) \in Seq(Line)
<1>1. CASE last # -1 /\ t - last > 1
  <2>1. t - last \in Nat
    BY <1>1
  <2>2. GapLine(t - last) \in Line /\ MessageLine(t) \in Line
    BY <2>1, LineTypes
  <2> HIDE DEF Line
  <2>3. QED
    BY <1>1, <2>2 DEF ShowLines
<1>2. CASE ~(last # -1 /\ t - last > 1)
  <2>1. MessageLine(t) \in Line
    BY LineTypes
  <2> HIDE DEF Line
  <2>2. QED
    BY <1>2, <2>1 DEF ShowLines
<1>3. QED
  BY <1>1, <1>2

(* A line that is no separator comes after: nothing but the last two lines   *)
(* can be wrong.                                                             *)
LEMMA OneLineMore ==
  ASSUME NEW s \in Seq(Line), RealGaps(s), NEW l \in Line, l.line # "gap",
         s # <<>> /\ s[Len(s)].line = "message" /\ l.line = "message" =>
           l.time - s[Len(s)].time <= 1
  PROVE  RealGaps(Append(s, l))
<1> DEFINE t == Append(s, l)
<1>1. /\ Len(s) \in Nat /\ Len(t) = Len(s) + 1 /\ t[Len(s) + 1] = l
      /\ \A i \in 1..Len(s) : t[i] = s[i]
  OBVIOUS
<1> HIDE DEF t, Line
<1>2. SUFFICES RealGaps(t)
  BY DEF t
<1>3. ASSUME NEW i \in 1..Len(t), t[i].line = "gap"
      PROVE  /\ i - 1 \in 1..Len(t) /\ i + 1 \in 1..Len(t)
             /\ t[i-1].line = "message" /\ t[i+1].line = "message"
             /\ t[i].time = t[i+1].time - t[i-1].time
             /\ t[i].time > 1
  <2>1. i \in 1..Len(s)
    BY <1>1, <1>3
  <2>2. s[i].line = "gap"
    BY <1>1, <1>3, <2>1
  <2>3. QED
    BY <1>1, <2>1, <2>2 DEF RealGaps
<1>4. ASSUME NEW i \in 1..Len(t), t[i].line = "message", i + 1 \in 1..Len(t),
             t[i+1].line = "message"
      PROVE  t[i+1].time - t[i].time <= 1
  <2>1. CASE i + 1 \in 1..Len(s)
    BY <1>1, <1>4, <2>1 DEF RealGaps
  <2>2. CASE i + 1 = Len(s) + 1
    BY <1>1, <1>4, <2>2
  <2>3. QED
    BY <1>1, <1>4, <2>1, <2>2
<1>5. QED
  BY <1>3, <1>4 DEF RealGaps

(* A separator between two messages says by how much they are apart.         *)
LEMMA GapBetween ==
  ASSUME NEW s \in Seq(Line), RealGaps(s), NEW g \in Line, NEW l \in Line,
         s # <<>>, s[Len(s)].line = "message", g.line = "gap", l.line = "message",
         g.time = l.time - s[Len(s)].time, g.time > 1
  PROVE  RealGaps(Append(Append(s, g), l))
<1> DEFINE t == Append(Append(s, g), l)
           n == Len(s)
<1>1. /\ n \in Nat /\ n > 0 /\ Len(t) = n + 2 /\ t[n + 1] = g /\ t[n + 2] = l
      /\ \A i \in 1..n : t[i] = s[i]
  OBVIOUS
<1>2. t[n] = s[n]
  BY <1>1
<1> HIDE DEF t, Line
<1>3. SUFFICES RealGaps(t)
  BY DEF t
<1>4. ASSUME NEW i \in 1..Len(t), t[i].line = "gap"
      PROVE  /\ i - 1 \in 1..Len(t) /\ i + 1 \in 1..Len(t)
             /\ t[i-1].line = "message" /\ t[i+1].line = "message"
             /\ t[i].time = t[i+1].time - t[i-1].time
             /\ t[i].time > 1
  <2>1. CASE i \in 1..n
    <3>1. s[i].line = "gap"
      BY <1>1, <1>4, <2>1
    <3>2. QED
      BY <1>1, <2>1, <3>1 DEF RealGaps
  <2>2. CASE i = n + 1
    BY <1>1, <1>2, <2>2
  <2>3. i \in 1..n \/ i = n + 1
    BY <1>1, <1>4
  <2>4. QED
    BY <2>1, <2>2, <2>3
<1>5. ASSUME NEW i \in 1..Len(t), t[i].line = "message", i + 1 \in 1..Len(t),
             t[i+1].line = "message"
      PROVE  t[i+1].time - t[i].time <= 1
  <2>1. i \in 1..n /\ i + 1 \in 1..n
    BY <1>1, <1>2, <1>5
  <2>2. QED
    BY <1>1, <1>5, <2>1 DEF RealGaps
<1>6. QED
  BY <1>4, <1>5 DEF RealGaps

LEMMA ShowKeeps ==
  ASSUME NEW s, NEW last, EndsAt(s, last), NEW t \in Nat
  PROVE  EndsAt(s \o ShowLines(t, last), t)
<1> DEFINE l == MessageLine(t)
<1>1. s \in Seq(Line) /\ RealGaps(s) /\ last \in Nat \cup {-1}
  BY DEF EndsAt
<1>2. l \in Line /\ l.line = "message" /\ l.time = t
  BY LineTypes
<1>3. CASE last # -1 /\ t - last > 1
  <2> DEFINE g == GapLine(t - last)
  <2>1. t - last \in Nat
    BY <1>1, <1>3
  <2>2. g \in Line /\ g.line = "gap" /\ g.time = t - last
    BY <2>1, LineTypes
  <2>3. ShowLines(t, last) = <<g, l>>
    BY <1>3 DEF ShowLines
  <2> HIDE DEF g, l, Line
  <2>4. s \o <<g, l>> = Append(Append(s, g), l)
    BY <1>1, <1>2, <2>2
  <2>5. RealGaps(Append(Append(s, g), l))
    <3>1. s # <<>> /\ s[Len(s)].line = "message" /\ s[Len(s)].time = last
      BY <1>3 DEF EndsAt
    <3>2. QED
      BY <1>1, <1>2, <1>3, <2>2, <3>1, GapBetween
  <2>6. LET x == Append(Append(s, g), l)
        IN x \in Seq(Line) /\ x # <<>> /\ x[Len(x)] = l
    <3> DEFINE y == Append(s, g)
    <3>1. y \in Seq(Line)
      BY <1>1, <2>2
    <3> HIDE DEF y
    <3>2. LET x == Append(y, l)
          IN x \in Seq(Line) /\ x # <<>> /\ x[Len(x)] = l
      BY <1>2, <3>1
    <3>3. QED
      BY <3>2 DEF y
  <2>7. t # -1
    OBVIOUS
  <2>8. QED
    BY <1>2, <2>3, <2>4, <2>5, <2>6, <2>7 DEF EndsAt
<1>4. CASE ~(last # -1 /\ t - last > 1)
  <2>1. ShowLines(t, last) = <<l>>
    BY <1>4 DEF ShowLines
  <2> HIDE DEF l, Line
  <2>2. s \o <<l>> = Append(s, l)
    BY <1>1, <1>2
  <2>3. RealGaps(Append(s, l))
    <3>1. s # <<>> /\ s[Len(s)].line = "message" => l.time - s[Len(s)].time <= 1
      <4>1. CASE last = -1
        BY <4>1 DEF EndsAt
      <4>2. CASE last # -1
        <5>1. s[Len(s)].time = last /\ last \in Nat
          BY <1>1, <4>2 DEF EndsAt
        <5>2. QED
          BY <1>2, <1>4, <4>2, <5>1
      <4>3. QED
        BY <4>1, <4>2
    <3>2. l.line # "gap"
      BY <1>2
    <3>3. QED
      BY <1>1, <1>2, <3>1, <3>2, OneLineMore
  <2>4. LET x == Append(s, l)
        IN x \in Seq(Line) /\ x # <<>> /\ x[Len(x)] = l
    BY <1>1, <1>2
  <2>5. t # -1
    OBVIOUS
  <2>6. QED
    BY <1>2, <2>1, <2>2, <2>3, <2>4, <2>5 DEF EndsAt
<1>5. QED
  BY <1>3, <1>4

(* Where a list begins or ends, what was shown before is forgotten.          *)
LEMMA ListLineKeeps ==
  ASSUME NEW s, NEW last, EndsAt(s, last)
  PROVE  EndsAt(s \o <<ListLine>>, -1)
<1> DEFINE l == ListLine
<1>1. s \in Seq(Line) /\ RealGaps(s)
  BY DEF EndsAt
<1>2. l \in Line /\ l.line = "list"
  BY LineTypes
<1> HIDE DEF l, Line
<1>3. s \o <<l>> = Append(s, l)
  BY <1>1, <1>2
<1>4. RealGaps(Append(s, l))
  <2>1. l.line # "gap" /\ l.line # "message"
    BY <1>2
  <2>2. QED
    BY <1>1, <1>2, <2>1, OneLineMore
<1>5. LET x == Append(s, l)
      IN x \in Seq(Line) /\ x[Len(x)] = l
  BY <1>1, <1>2
<1>6. QED
  BY <1>2, <1>3, <1>4, <1>5 DEF EndsAt, l

(* ListedUpTo is what its definition says.                                   *)
Since(refs, i) == IF i = 1 THEN -1 ELSE Time(refs[i - 1])

LEMMA ListedStep ==
  ASSUME NEW refs \in Seq(Reference), \A i \in 1..Len(refs) : Time(refs[i]) \in Nat
  PROVE  /\ ListedUpTo(refs)[0] = <<ListLine>>
         /\ \A i \in 1..Len(refs) :
              ListedUpTo(refs)[i] =
                ListedUpTo(refs)[i - 1] \o ShowLines(Time(refs[i]), Since(refs, i))
         /\ \A i \in 0..Len(refs) : ListedUpTo(refs)[i] \in Seq(Line)
<1> DEFINE N == Len(refs)
           S == Seq(Line)
           start == <<ListLine>>
           lines(i) == ShowLines(Time(refs[i]), Since(refs, i))
           step == [i \in 1..N |-> [s \in S |-> s \o lines(i)]]
           Def(f) == [i \in 0..N |-> IF i = 0 THEN <<ListLine>> ELSE f[i - 1] \o lines(i)]
           up == ListedUpTo(refs)
<1>1. N \in Nat
  OBVIOUS
<1>2. up = CHOOSE h : h = Def(h)
  BY Zenon DEF ListedUpTo, Since
<1>3. start \in S
  <2>1. ListLine \in Line
    BY LineTypes
  <2> HIDE DEF Line
  <2>2. QED
    BY <2>1
<1>4. ASSUME NEW i \in 1..N
      PROVE  lines(i) \in S
  <2>1. i = 1 \/ i - 1 \in 1..N
    BY <1>1
  <2>2. Since(refs, i) \in Nat \cup {-1}
    BY <2>1 DEF Since
  <2>3. QED
    BY <2>2, ShowLinesType
<1> HIDE DEF N, lines, up, Line
<1>5. ASSUME NEW i \in 1..N, NEW s \in S
      PROVE  s \o lines(i) \in S
  BY <1>4
<1>6. step \in [1..N -> [S -> S]]
  <2> HIDE DEF S
  <2>1. QED
    BY <1>5
<1>7. \A i \in 1..N, s \in S : step[i][s] = s \o lines(i)
  OBVIOUS
<1> HIDE DEF step, S
<1>8. PICK f \in [0..N -> S] : f[0] = start /\ \A i \in 1..N : f[i] = step[i][f[i - 1]]
  <2>1. \E f : IsStepwise(f, N, S, start, step)
    BY <1>1, <1>3, <1>6, Stepwise
  <2>2. QED
    BY <2>1 DEF IsStepwise
<1>9. ASSUME NEW i \in 1..N
      PROVE  f[i] = f[i - 1] \o lines(i)
  <2>1. i - 1 \in 0..N /\ f[i - 1] \in S
    BY <1>1, <1>8
  <2>2. QED
    BY <1>7, <1>8, <2>1
<1>10. f = Def(f)
  <2>1. ASSUME NEW i \in 0..N
        PROVE  f[i] = Def(f)[i]
    <3>1. CASE i = 0
      BY <1>8, <3>1
    <3>2. CASE i # 0
      <4>1. i \in 1..N
        BY <1>1, <3>2
      <4>2. QED
        BY <1>9, <3>2, <4>1
    <3>3. QED
      BY <3>1, <3>2
  <2>2. f = [i \in 0..N |-> f[i]]
    BY <1>8
  <2>3. QED
    BY <2>1, <2>2
<1>11. up = Def(up)
  <2> HIDE DEF Def
  <2>1. QED
    BY <1>2, <1>10, Zenon
<1>12. /\ up[0] = <<ListLine>>
       /\ \A i \in 1..N : up[i] = up[i - 1] \o lines(i)
  <2> DEFINE d == Def(up)
  <2>1. d[0] = <<ListLine>> /\ \A i \in 1..N : d[i] = up[i - 1] \o lines(i)
    BY <1>1
  <2> HIDE DEF d
  <2>2. up = d
    BY <1>11 DEF d
  <2>3. QED
    BY <2>1, <2>2
<1>13. \A i \in 0..N : up[i] \in S
  <2> DEFINE T == {i \in Nat : i <= N => up[i] \in S}
  <2>1. 0 \in T
    BY <1>3, <1>12
  <2>2. ASSUME NEW i \in Nat, i \in T
        PROVE  i + 1 \in T
    <3>1. SUFFICES ASSUME i + 1 <= N PROVE up[i + 1] \in S
      OBVIOUS
    <3>2. i + 1 \in 1..N /\ up[i] \in S /\ (i + 1) - 1 = i
      BY <1>1, <2>2, <3>1
    <3>3. up[i + 1] = up[i] \o lines(i + 1)
      BY <1>12, <3>2
    <3>4. QED
      BY <1>5, <3>2, <3>3
  <2> HIDE DEF T
  <2>3. Nat \subseteq T
    BY <2>1, <2>2, Induction
  <2>4. QED
    BY <1>1, <2>3 DEF T
<1>14. QED
  BY <1>12, <1>13 DEF N, S, lines, up

LEMMA OneAfterAnother ==
  \A s, t, u \in Seq(Line) : (s \o t) \o u = s \o (t \o u)
BY ConcatAssociative

(* A list keeps the separators right, and forgets its last message.          *)
LEMMA ListKeeps ==
  ASSUME NEW refs \in Seq(Reference), \A i \in 1..Len(refs) : Time(refs[i]) \in Nat,
         NEW s, NEW last, EndsAt(s, last)
  PROVE  EndsAt(s \o ListedLines(refs), -1)
<1> DEFINE N == Len(refs)
           up == ListedUpTo(refs)
           now(i) == IF i = 0 THEN -1 ELSE Time(refs[i])
           T == {i \in Nat : i <= N => EndsAt(s \o up[i], now(i))}
<1>1. N \in Nat /\ s \in Seq(Line)
  BY DEF EndsAt
<1>2. /\ up[0] = <<ListLine>>
      /\ \A i \in 1..N : up[i] = up[i - 1] \o ShowLines(Time(refs[i]), Since(refs, i))
      /\ \A i \in 0..N : up[i] \in Seq(Line)
  BY ListedStep
<1> HIDE DEF N, up
<1>3. 0 \in T
  BY <1>2, ListLineKeeps
<1>4. ASSUME NEW i \in Nat, i \in T
      PROVE  i + 1 \in T
  <2>1. SUFFICES ASSUME i + 1 <= N PROVE EndsAt(s \o up[i + 1], now(i + 1))
    OBVIOUS
  <2>2. /\ i + 1 \in 1..N /\ i \in 0..N /\ (i + 1) - 1 = i /\ i + 1 # 0
        /\ i + 1 = 1 <=> i = 0
        /\ i # 0 => i \in 1..N
    BY <1>1, <2>1
  <2> DEFINE t == Time(refs[i + 1])
             lines == ShowLines(t, Since(refs, i + 1))
  <2>3. t \in Nat /\ now(i + 1) = t /\ Since(refs, i + 1) = now(i)
    BY <2>2 DEF Since, N
  <2>4. EndsAt(s \o up[i], now(i))
    BY <1>4, <2>2, <1>1, <2>1
  <2>5. EndsAt((s \o up[i]) \o lines, t)
    BY <2>3, <2>4, ShowKeeps
  <2>6. lines \in Seq(Line)
    <3>1. now(i) \in Nat \cup {-1}
      BY <2>4 DEF EndsAt
    <3>2. QED
      BY <2>3, <3>1, ShowLinesType
  <2>7. up[i + 1] = up[i] \o lines
    BY <1>2, <2>2
  <2>8. (s \o up[i]) \o lines = s \o up[i + 1]
    <3>1. up[i] \in Seq(Line) /\ s \in Seq(Line)
      BY <1>1, <1>2, <2>2
    <3> DEFINE u == up[i]
    <3> HIDE DEF lines, u
    <3>2. u \in Seq(Line) /\ lines \in Seq(Line)
      BY <2>6, <3>1 DEF u
    <3>3. (s \o u) \o lines = s \o (u \o lines)
      BY <3>1, <3>2, OneAfterAnother, Zenon
    <3>4. QED
      BY <2>7, <3>3 DEF u
  <2>9. QED
    BY <2>3, <2>5, <2>8
<1> HIDE DEF T
<1>5. Nat \subseteq T
  BY <1>3, <1>4, Induction
<1>6. EndsAt(s \o up[N], now(N))
  BY <1>1, <1>5 DEF T
<1>7. EndsAt((s \o up[N]) \o <<ListLine>>, -1)
  BY <1>6, ListLineKeeps
<1>8. (s \o up[N]) \o <<ListLine>> = s \o (up[N] \o <<ListLine>>)
  <2>1. ListLine \in Line /\ N \in 0..N
    BY <1>1, LineTypes
  <2> HIDE DEF Line
  <2>2. <<ListLine>> \in Seq(Line) /\ up[N] \in Seq(Line)
    BY <1>2, <2>1
  <2>3. s \in Seq(Line)
    BY <1>1
  <2> DEFINE one == <<ListLine>>
             u == up[N]
  <2> HIDE DEF one, u
  <2>4. one \in Seq(Line) /\ u \in Seq(Line)
    BY <2>2 DEF one, u
  <2>5. (s \o u) \o one = s \o (u \o one)
    BY <2>3, <2>4, OneAfterAnother, Zenon
  <2>6. QED
    BY <2>5 DEF one, u
<1>9. QED
  BY <1>7, <1>8 DEF ListedLines, N, up

LEMMA StepKeepsScreenInv ==
  ASSUME ControllerInv, ShownInv, ScreenInv, [Next]_vars
  PROVE  ScreenInv'
<1>1. CASE UNCHANGED screenVars
  BY <1>1 DEF ScreenInv, screenVars
<1>2. CASE Backend
  <2>1. PICK id \in ConnIds : Opens(id) \/ Closes(id) \/ \E m \in Payloads : Receives(id, m)
    BY <1>2 DEF Backend
  <2>2. CASE Opens(id) \/ Closes(id)
    BY <1>1, <2>2 DEF Opens, Closes
  <2>3. ASSUME NEW m \in Payloads, Receives(id, m)
        PROVE  ScreenInv'
    <3>1. CASE UNCHANGED screenVars
      BY <1>1, <3>1
    <3>2. CASE /\ screen' = screen \o ShowLines(m.timestamp, last_shown_timestamp)
               /\ last_shown_timestamp' = m.timestamp
      <4>1. m.timestamp \in Nat
        BY ControllerAssumption
      <4>2. EndsAt(screen \o ShowLines(m.timestamp, last_shown_timestamp), m.timestamp)
        BY <4>1, ShowKeeps DEF ScreenInv
      <4>3. QED
        BY <3>2, <4>2 DEF ScreenInv
    <3>3. QED
      BY <2>3, <3>1, <3>2 DEF Receives, GotNewMessage, screenVars
  <2>4. QED
    BY <2>1, <2>2, <2>3
<1>3. ASSUME NEW matcher, NEW count, ListCommand(matcher, count)
      PROVE  ScreenInv'
  <2> DEFINE cap == IF count = <<>> THEN 0 ELSE count[1]
             listing == Matching(matcher, SubSeq(Searched, SearchEnd(Searched, matcher, cap),
                                                 Len(Searched)))
  <2>1. CASE UNCHANGED screenVars
    BY <1>1, <2>1
  <2>2. CASE screen' = screen \o ListedLines(listing) /\ last_shown_timestamp' = -1
    <3>1. /\ listing \in Seq(Reference)
          /\ \A i \in 1..Len(listing) : listing[i] \in Reference /\ Stored(listing[i])
      BY ListedIsStored
    <3> HIDE DEF listing
    <3>2. \A i \in 1..Len(listing) : Time(listing[i]) \in Nat
      BY <3>1, TimesAreNumbers DEF ControllerInv
    <3>3. EndsAt(screen \o ListedLines(listing), -1)
      BY <3>1, <3>2, ListKeeps DEF ScreenInv
    <3>4. QED
      BY <2>2, <3>3 DEF ScreenInv
  <2>3. QED
    BY <1>3, <2>1, <2>2 DEF ListCommand
<1>4. CASE User
  <2>1. CASE \E matcher, count : ListCommand(matcher, count)
    BY <1>3, <2>1
  <2>2. CASE ~\E matcher, count : ListCommand(matcher, count)
    BY <1>1, <1>4, <2>2 DEF User, SimpleCommand, FilterCommand, BreakPointCommand,
                             ConnectionCommand
  <2>3. QED
    BY <2>1, <2>2
<1>5. CASE UNCHANGED vars
  BY <1>1, <1>5 DEF vars
<1>6. QED
  BY <1>2, <1>4, <1>5 DEF Next

LEMMA ShownInvariant == Spec => []ShownInv
<1>1. ControllerInit => ShownInv
  BY DEF ControllerInit, ShownInv
<1>2. ControllerInv /\ ShownInv /\ [Next]_vars => ShownInv'
  BY StepKeepsShownInv DEF ControllerInv
<1>3. QED
  BY <1>1, <1>2, ControllerInvariant, PTL DEF Spec

(* A separator is between two messages shown one after the other exactly if  *)
(* they are more than a second apart, and says by how much, whatever is      *)
(* listed in between.                                                        *)
THEOREM GapsAreAlwaysReal == Spec => []GapsAreReal
<1>1. ControllerInit => ScreenInv
  BY DEF ControllerInit, ScreenInv, EndsAt, RealGaps
<1>2. ControllerInv /\ ShownInv /\ ScreenInv /\ [Next]_vars => ScreenInv'
  BY StepKeepsScreenInv
<1>3. ScreenInv => GapsAreReal
  <2>1. SUFFICES ASSUME ScreenInv PROVE GapsAreReal
    OBVIOUS
  <2>2. DOMAIN screen = 1..Len(screen) /\ RealGaps(screen)
    BY <2>1 DEF ScreenInv, EndsAt
  <2>3. QED
    BY <2>2 DEF RealGaps, GapsAreReal
<1>4. QED
  BY <1>1, <1>2, <1>3, ControllerInvariant, ShownInvariant, PTL DEF Spec
------------------------------------------------------------------------------
(* How much is listed *)

(* An enumeration counts what it enumerates.                                 *)
LEMMA Counted ==
  ASSUME NEW S, NEW n \in Nat, NEW f \in [1..n -> S],
         \A i, j \in 1..n : f[i] = f[j] => i = j,
         \A x \in S : \E i \in 1..n : f[i] = x
  PROVE  Cardinality(S) = n
<1>1. f \in Injection(1..n, S)
  BY DEF Injection, IsInjective
<1>2. f \in Surjection(1..n, S)
  BY DEF Surjection
<1>3. ExistsBijection(1..n, S)
  BY <1>1, <1>2 DEF ExistsBijection, Bijection
<1>4. QED
  BY <1>3, FS_CountingElements

(* A COUNT below 0 is one of 1.                                              *)
Most(cap) == IF cap < 0 THEN 1 ELSE cap

(* A search that ends before the first message has found as many as asked    *)
(* for, and no search finds more.                                            *)
LEMMA SearchFinds ==
  ASSUME NEW refs \in Seq(Reference), NEW matcher, NEW cap \in Int, NEW n \in Nat, NEW q,
         q \in [1..n -> Hits(refs, matcher, SearchEnd(refs, matcher, cap))],
         \A i, j \in 1..n : i < j => q[i] < q[j],
         \A x \in Hits(refs, matcher, SearchEnd(refs, matcher, cap)) : \E i \in 1..n : q[i] = x
  PROVE  /\ cap # 0 => n <= Most(cap)
         /\ cap = 0 \/ n < Most(cap) => SearchEnd(refs, matcher, cap) = 1
<1> DEFINE e == SearchEnd(refs, matcher, cap)
           ends == Ends(refs, matcher, cap)
           N == Len(refs)
           hits(i) == Hits(refs, matcher, i)
           hit(i) == PayloadOf(refs[i]).content \in matcher
<1>1. N \in Nat /\ e \in 1..N+1
  BY SearchEndIs
<1>2. IF ends = {} THEN e = 1 ELSE e \in ends /\ \A j \in ends : j <= e
  BY SearchEndIs
<1>3. \A i \in Nat : hits(i) = {j \in i..N : hit(j)}
  BY DEF Hits
<1>4. ends = {i \in 1..N : hit(i) /\ cap # 0 /\ Cardinality(hits(i)) >= cap}
  BY DEF Ends
<1> HIDE DEF e, ends, N, hits, hit
<1>5. \A i \in 1..n : q[i] \in hits(e) /\ q[i] \in e..N /\ q[i] \in 1..N /\ hit(q[i])
  <2>1. \A i \in 1..n : q[i] \in hits(e)
    BY DEF hits, e
  <2>2. QED
    BY <1>1, <1>3, <2>1
<1>6. \A x \in e..N : hit(x) => \E i \in 1..n : q[i] = x
  <2>1. \A x \in hits(e) : \E i \in 1..n : q[i] = x
    BY DEF hits, e
  <2>2. QED
    BY <1>1, <1>3, <2>1, SMTT(20)
<1>7. ASSUME NEW k \in 1..n
      PROVE  Cardinality(hits(q[k])) = n - k + 1
  <2> DEFINE f == [i \in 1..n-k+1 |-> q[k + i - 1]]
             S == hits(q[k])
  <2>1. \A i \in 1..n-k+1 : k + i - 1 \in 1..n /\ f[i] = q[k + i - 1]
    OBVIOUS
  <2>2. ASSUME NEW i \in 1..n-k+1
        PROVE  f[i] \in S
    <3>1. k = k + i - 1 \/ k < k + i - 1
      OBVIOUS
    <3>2. q[k] <= q[k + i - 1]
      <4>1. k + i - 1 \in 1..n /\ k \in 1..n
        BY <2>1
      <4>2. q[k] \in Nat /\ q[k + i - 1] \in Nat
        BY <1>5, <4>1
      <4>3. k < k + i - 1 => q[k] < q[k + i - 1]
        BY <4>1
      <4>4. QED
        BY <3>1, <4>2, <4>3
    <3>3. QED
      BY <1>1, <1>3, <1>5, <2>1, <3>2
  <2>3. ASSUME NEW i \in 1..n-k+1, NEW j \in 1..n-k+1, f[i] = f[j]
        PROVE  i = j
    <3>1. k + i - 1 < k + j - 1 \/ k + j - 1 < k + i - 1 \/ i = j
      OBVIOUS
    <3>2. QED
      BY <1>1, <1>5, <2>1, <2>3, <3>1
  <2>4. ASSUME NEW x \in S
        PROVE  \E i \in 1..n-k+1 : f[i] = x
    <3>1. x \in q[k]..N /\ hit(x)
      BY <1>1, <1>3, <1>5
    <3>2. PICK j \in 1..n : q[j] = x
      <4>1. q[k] \in e..N /\ e \in Int /\ N \in Int
        BY <1>1, <1>5
      <4>2. x \in e..N
        BY <3>1, <4>1
      <4>3. QED
        BY <1>6, <3>1, <4>2
    <3>3. ~(j < k)
      BY <1>1, <1>5, <3>1, <3>2
    <3>4. j - k + 1 \in 1..n-k+1 /\ k + (j - k + 1) - 1 = j
      BY <3>3
    <3>5. QED
      BY <2>1, <3>2, <3>4
  <2> DEFINE M == n - k + 1
  <2>5. M \in Nat /\ f \in [1..M -> S]
    <3>1. M \in Nat
      OBVIOUS
    <3>2. \A i \in 1..M : f[i] \in S
      BY <2>2
    <3>3. f = [i \in 1..M |-> f[i]]
      OBVIOUS
    <3> HIDE DEF f, S, M
    <3>4. QED
      BY <3>1, <3>2, <3>3
  <2> HIDE DEF f, S
  <2>6. /\ \A i, j \in 1..M : f[i] = f[j] => i = j
        /\ \A x \in S : \E i \in 1..M : f[i] = x
    BY <2>3, <2>4
  <2> HIDE DEF M
  <2>7. Cardinality(S) = M
    BY <2>5, <2>6, Counted
  <2>8. QED
    BY <2>7 DEF S, M
<1>8. ASSUME ends # {}
      PROVE  n >= 1 /\ q[1] = e /\ Cardinality(hits(e)) = n /\ n >= cap
  <2>1. e \in 1..N /\ hit(e) /\ cap # 0 /\ Cardinality(hits(e)) >= cap
    BY <1>2, <1>4, <1>8
  <2>2. PICK i \in 1..n : q[i] = e
    BY <1>1, <1>6, <2>1
  <2>3. i = 1
    BY <1>1, <1>5, <2>2
  <2>4. n >= 1 /\ 1 \in 1..n /\ n - 1 + 1 = n
    BY <2>2
  <2>5. Cardinality(hits(e)) = n
    BY <1>7, <2>2, <2>3, <2>4
  <2>6. QED
    BY <2>1, <2>2, <2>3, <2>4, <2>5
<1>9. ASSUME cap # 0, n > Most(cap)
      PROVE  FALSE
  <2> DEFINE most == Most(cap)
  <2>1. most \in Nat /\ most >= 1 /\ most >= cap
    BY <1>9 DEF Most
  <2> HIDE DEF most
  <2>2. CASE ends = {}
    <3>1. 1 \in 1..n /\ n - 1 + 1 = n /\ n >= cap
      BY <1>9, <2>1 DEF most
    <3>2. q[1] \in ends
      BY <1>4, <1>5, <1>7, <1>9, <3>1
    <3>3. QED
      BY <2>2, <3>2
  <2>3. CASE ends # {}
    <3>1. 2 \in 1..n /\ 1 \in 1..n /\ n - 2 + 1 >= cap
      BY <1>9, <2>1 DEF most
    <3>2. q[2] \in ends
      BY <1>4, <1>5, <1>7, <1>9, <3>1, SMTT(20)
    <3>3. q[2] <= e /\ q[1] < q[2] /\ q[1] = e /\ q[1] \in Nat /\ q[2] \in Nat
      BY <1>1, <1>2, <1>5, <1>8, <2>3, <3>1, <3>2
    <3>4. QED
      BY <3>3
  <2>4. QED
    BY <2>2, <2>3
<1>10. ASSUME cap = 0 \/ n < Most(cap)
       PROVE  e = 1
  <2>1. ends = {}
    <3>1. CASE cap = 0
      BY <1>4, <3>1
    <3>2. CASE n < Most(cap)
      BY <1>8, <3>2 DEF Most
    <3>3. QED
      BY <1>10, <3>1, <3>2
  <2>2. QED
    BY <1>2, <2>1
<1>11. cap # 0 => n <= Most(cap)
  <2>1. n \in Int /\ Most(cap) \in Int
    BY DEF Most
  <2>2. QED
    BY <1>9, <2>1
<1>12. QED
  BY <1>10, <1>11 DEF e
------------------------------------------------------------------------------
(* What the connections told of *)

(* Among(c), of any events.                                                  *)
AboutMessages(es, c) == {i \in 1..Len(es) : es[i].kind = "message" /\ c \in {0, es[i].conn}}
ToldOf(es, c) == Selected(es, AboutMessages(es, c))
RefersTo(e) == [conn |-> e.conn, n |-> e.n]
AmongOf(es, c) == [i \in 1..Len(ToldOf(es, c)) |-> RefersTo(ToldOf(es, c)[i])]

LEMMA AmongDef ==
  \A c : Among(c) = AmongOf(events, c)
BY DEF Among, AmongOf, ToldOf, AboutMessages, RefersTo

LEMMA AmongGoesOn ==
  ASSUME NEW es \in Seq(Events), NEW e \in Events
  PROVE  AmongOf(Append(es, e), 0) =
           IF e.kind = "message" THEN Append(AmongOf(es, 0), RefersTo(e)) ELSE AmongOf(es, 0)
<1> DEFINE P == AboutMessages(es, 0)
           fs == Append(es, e)
           Q == AboutMessages(fs, 0)
           s == Selected(es, P)
           a == AmongOf(es, 0)
<1>1. /\ Len(es) \in Nat /\ Len(fs) = Len(es) + 1 /\ fs[Len(es) + 1] = e
      /\ \A i \in 1..Len(es) : fs[i] = es[i]
  BY DEF Events
<1> HIDE DEF fs
<1>2. \A i \in 1..Len(es) : i \in P <=> i \in Q
  BY <1>1 DEF AboutMessages
<1>3. Len(es) + 1 \in Q <=> e.kind = "message"
  BY <1>1 DEF AboutMessages
<1> HIDE DEF P, Q
<1>4. Selected(fs, Q) = IF Len(es) + 1 \in Q THEN Append(s, e) ELSE s
  BY <1>2, SelectedAppend DEF fs
<1>5. s \in Seq(Events)
  BY SelectedType
<1>6. a = [i \in 1..Len(s) |-> RefersTo(s[i])]
  BY DEF AmongOf, ToldOf, P
<1>7. AmongOf(fs, 0) = [i \in 1..Len(Selected(fs, Q)) |-> RefersTo(Selected(fs, Q)[i])]
  BY DEF AmongOf, ToldOf, Q
<1> HIDE DEF s, a
<1>8. CASE e.kind = "message"
  <2> DEFINE t == Append(s, e)
             b == [i \in 1..Len(t) |-> RefersTo(t[i])]
             r == RefersTo(e)
  <2>1. AmongOf(fs, 0) = b
    BY <1>3, <1>4, <1>7, <1>8
  <2>2. /\ Len(s) \in Nat /\ Len(t) = Len(s) + 1 /\ t[Len(s) + 1] = e
        /\ \A i \in 1..Len(s) : t[i] = s[i]
    BY <1>5 DEF Events
  <2>3. \A i \in 1..Len(s) : s[i] \in Events /\ RefersTo(s[i]) \in Reference
    <3>1. ASSUME NEW i \in 1..Len(s) PROVE s[i] \in Events
      BY <1>5
    <3>2. QED
      BY <3>1 DEF RefersTo, Reference, Events
  <2>4. r \in Reference
    BY DEF RefersTo, Reference, Events
  <2>5. a \in Seq(Reference) /\ Len(a) = Len(s) /\ \A i \in 1..Len(s) : a[i] = RefersTo(s[i])
    BY <1>6, <2>2, <2>3
  <2> HIDE DEF r, t
  <2>6. b = Append(a, r)
    <3> DEFINE x == Append(a, r)
    <3>1. x = [i \in 1..Len(s)+1 |-> IF i = Len(s) + 1 THEN r ELSE a[i]]
      <4>1. /\ x \in Seq(Reference) /\ Len(x) = Len(s) + 1
            /\ \A i \in 1..Len(s)+1 : x[i] = IF i = Len(s) + 1 THEN r ELSE a[i]
        BY <2>2, <2>4, <2>5
      <4> HIDE DEF x
      <4>2. x = [i \in 1..Len(s)+1 |-> x[i]]
        BY <4>1
      <4>3. QED
        BY <4>1, <4>2
    <3>2. \A i \in 1..Len(s)+1 : RefersTo(t[i]) = IF i = Len(s) + 1 THEN r ELSE a[i]
      BY <2>2, <2>5 DEF r
    <3>3. b = [i \in 1..Len(s)+1 |-> RefersTo(t[i])]
      BY <2>2
    <3>4. b = [i \in 1..Len(s)+1 |-> IF i = Len(s) + 1 THEN r ELSE a[i]]
      BY <3>2, <3>3
    <3>5. QED
      BY <2>5, <3>1, <3>4
  <2>7. QED
    BY <1>8, <2>1, <2>6 DEF fs, a, r
<1>9. CASE e.kind # "message"
  BY <1>3, <1>4, <1>6, <1>7, <1>9 DEF fs, a
<1>10. QED
  BY <1>8, <1>9

(* The controller's own list is what all connections told of.                *)
AllInv == all_messages = Among(0)

LEMMA StepKeepsAllInv ==
  ASSUME ControllerInv, AllInv, [Next]_vars
  PROVE  AllInv'
<1>1. Inv /\ events \in Seq(Events) /\ open_connections \in [ConnIds -> Nat]
  BY StateTypes DEF ControllerInv
<1>2. all_messages = AmongOf(events, 0)
  BY AmongDef DEF AllInv
<1>3. SUFFICES all_messages' = AmongOf(events', 0)
  BY AmongDef DEF AllInv, Among, AmongOf, ToldOf, AboutMessages, RefersTo
<1>4. CASE UNCHANGED <<all_messages, events>>
  BY <1>2, <1>4
<1>5. CASE Backend
  <2>1. PICK id \in ConnIds : Opens(id) \/ Closes(id) \/ \E m \in Payloads : Receives(id, m)
    BY <1>5 DEF Backend
  <2> DEFINE c == open_connections[id]
             ends == events \o ClosedEvents(id)
  <2>2. c \in Nat
    BY <1>1
  <2>3. ends \in Seq(Events) /\ AmongOf(ends, 0) = AmongOf(events, 0)
    <3>1. CASE IsOpen(id)
      <4> DEFINE e == Event("closed", c, 0)
      <4>1. e \in Events /\ e.kind # "message"
        BY <2>2 DEF Event, Events
      <4>2. ClosedEvents(id) = <<e>>
        BY <3>1 DEF ClosedEvents
      <4> HIDE DEF e
      <4>3. ends = Append(events, e) /\ ends \in Seq(Events)
        BY <1>1, <4>1, <4>2
      <4>4. QED
        BY <1>1, <4>1, <4>3, AmongGoesOn
    <3>2. CASE ~IsOpen(id)
      <4>1. ClosedEvents(id) = <<>>
        BY <3>2 DEF ClosedEvents
      <4>2. ends = events
        BY <1>1, <4>1
      <4>3. QED
        BY <1>1, <4>2
    <3>3. QED
      BY <3>1, <3>2
  <2>4. CASE Opens(id)
    <3> DEFINE d == Len(connection_list) + 1
               e == Event("opened", d, 0)
    <3>1. e \in Events /\ e.kind # "message"
      <4>1. d \in Nat
        BY StateTypes, <1>1
      <4>2. QED
        BY <4>1 DEF Event, Events
    <3>2. events' = ends \o <<e>> /\ all_messages' = all_messages
      BY <2>4 DEF Opens, OpenConnection
    <3> HIDE DEF ends, e
    <3>3. events' = Append(ends, e)
      BY <2>3, <3>1, <3>2
    <3>4. QED
      BY <1>2, <2>3, <3>1, <3>2, <3>3, AmongGoesOn
  <2>5. CASE Closes(id)
    <3>1. events' = ends /\ all_messages' = all_messages
      BY <2>5 DEF Closes, CloseConnection
    <3>2. QED
      BY <1>2, <2>3, <3>1
  <2>6. ASSUME NEW m \in Payloads, Receives(id, m)
        PROVE  all_messages' = AmongOf(events', 0)
    <3> DEFINE n == Len(connection_list[c].stored) + 1
               e == Event("message", c, n)
               r == [conn |-> c, n |-> n]
    <3>1. CASE raised' = "none"
      <4>1. MessageAccepted(id, m)
        BY <2>6, <3>1 DEF Receives, Message, MessageRefused
      <4>2. events' = Append(events, e)
        BY <3>1, <4>1 DEF MessageAccepted
      <4>3. all_messages' = Append(all_messages, r)
        BY <2>6, <3>1 DEF Receives, GotNewMessage
      <4>4. n \in Nat
        <5>1. c \in 1..Len(connection_list) /\ connection_list \in Seq(Entry)
          BY <1>1, <4>1, StateTypes DEF MessageAccepted, Inv, OpenIsReachable
        <5>2. Len(connection_list[c].stored) \in Nat
          BY <5>1, StoredIsCounted
        <5>3. QED
          BY <5>2
      <4>5. e \in Events /\ e.kind = "message" /\ RefersTo(e) = r
        BY <2>2, <4>4 DEF Event, Events, RefersTo
      <4>6. QED
        BY <1>1, <1>2, <4>2, <4>3, <4>5, AmongGoesOn
    <3>2. CASE raised' # "none"
      <4>1. UNCHANGED <<all_messages, events>>
        BY <2>6, <3>2 DEF Receives, Message, MessageAccepted, MessageRefused
      <4>2. QED
        BY <1>4, <4>1
    <3>3. QED
      BY <3>1, <3>2
  <2>7. QED
    BY <2>1, <2>4, <2>5, <2>6
<1>6. CASE User
  BY <1>4, <1>6 DEF User, SimpleCommand, FilterCommand, BreakPointCommand, ConnectionCommand,
                    ListCommand, Commands, managerVars
<1>7. CASE UNCHANGED vars
  BY <1>4, <1>7 DEF vars, managerVars
<1>8. QED
  BY <1>5, <1>6, <1>7 DEF Next

(* What was told of, in its order, is part of what is searched, in its order. *)
LEMMA ToldIsSearched ==
  ASSUME ControllerInv, ShownInv, AllInv, StoryOfEachConnection
  PROVE  LET among == Among(current_connection)
         IN \E at \in [1..Len(among) -> 1..Len(Searched)] :
              /\ \A p, q \in 1..Len(among) : p < q => at[p] < at[q]
              /\ \A p \in 1..Len(among) : among[p] = Searched[at[p]]
<1> DEFINE c == current_connection
           among == Among(c)
<1>1. CASE c = 0
  <2> DEFINE at == [p \in 1..Len(among) |-> p]
  <2>1. Searched = among
    BY <1>1 DEF AllInv, Searched
  <2>2. /\ at \in [1..Len(among) -> 1..Len(Searched)]
        /\ \A p, q \in 1..Len(among) : p < q => at[p] < at[q]
        /\ \A p \in 1..Len(among) : among[p] = Searched[at[p]]
    BY <2>1
  <2>3. QED
    BY <2>2
<1>2. CASE c # 0
  <2> DEFINE P == AboutMessages(events, c)
             s == Selected(events, P)
             N == Len(connection_list[c].stored)
  <2>1. c \in Connections /\ events \in Seq(Events) /\ N \in Nat
    BY <1>2, StateTypes, StoredIsCounted DEF ShownInv, ControllerInv
  <2>2. /\ \A i \in P : /\ i \in 1..Len(events)
                        /\ events[i].conn = c /\ events[i].n \in 1..N
        /\ \A i, j \in P : i < j => events[i].n < events[j].n
    BY <1>2, <2>1 DEF AboutMessages, StoryOfEachConnection
  <2>3. Searched = [n \in 1..N |-> [conn |-> c, n |-> n]]
    BY <1>2 DEF Searched
  <2> HIDE DEF P, N
  <2>4. PICK pos \in [1..Len(s) -> P \cap 1..Len(events)] :
          /\ \A j, k \in 1..Len(s) : j < k => pos[j] < pos[k]
          /\ \A k \in 1..Len(s) : s[k] = events[pos[k]]
    <3> HIDE DEF among
    <3>1. s = Selected(events, P) /\ events \in Seq(Events)
      BY <2>1
    <3> HIDE DEF s
    <3>2. QED
      BY <3>1, SelectedPlaces
  <2>5. s \in Seq(Events) /\ Len(s) \in Nat
    BY <2>1, SelectedType
  <2>6. among = [i \in 1..Len(s) |-> RefersTo(s[i])]
    BY AmongDef DEF AmongOf, ToldOf, P
  <2> HIDE DEF among, s
  <2>7. Len(among) = Len(s) /\ Len(Searched) = N
    BY <2>1, <2>3, <2>5, <2>6
  <2> DEFINE at == [p \in 1..Len(s) |-> s[p].n]
  <2>8. ASSUME NEW p \in 1..Len(s)
        PROVE  at[p] \in 1..N /\ among[p] = Searched[at[p]] /\ at[p] = events[pos[p]].n /\ pos[p] \in P
    <3>1. pos[p] \in P /\ s[p] = events[pos[p]]
      BY <2>4
    <3>2. s[p].conn = c /\ s[p].n \in 1..N
      BY <2>2, <3>1
    <3>3. among[p] = [conn |-> c, n |-> s[p].n]
      BY <2>6, <3>2 DEF RefersTo
    <3>4. QED
      BY <2>3, <3>1, <3>2, <3>3
  <2>9. ASSUME NEW p \in 1..Len(s), NEW q \in 1..Len(s), p < q
        PROVE  at[p] < at[q]
    BY <2>2, <2>4, <2>8, <2>9
  <2>10. at \in [1..Len(s) -> 1..N]
    BY <2>8
  <2> HIDE DEF at
  <2>11. QED
    BY <2>7, <2>8, <2>9, <2>10 DEF among
<1>3. QED
  BY <1>1, <1>2
------------------------------------------------------------------------------
(* What a list shows *)

(* ListShowsLast, of one list in which the messages of a set match.          *)
ShownIn(l) == {l.messages[i] : i \in 1..Len(l.messages)}
InList(l) == ShownIn(l) \cup {l.among[p] : p \in 1..Len(l.among)}
MatchesIn(l) == {r \in InList(l) : PayloadOf(r).content \in l.matcher}

ShowsMatching(l, hits) ==
  /\ ShownIn(l) \subseteq hits
  /\ l.conn = 0 => \A r \in ShownIn(l) : \E p \in 1..Len(l.among) : l.among[p] = r
ShowsInOrder(l, hits) ==
  /\ \A p, q \in 1..Len(l.among) :
       p < q /\ l.among[p] \in ShownIn(l) /\ l.among[q] \in hits => l.among[q] \in ShownIn(l)
  /\ \A i, j \in 1..Len(l.messages) : \A p, q \in 1..Len(l.among) :
       i < j /\ l.messages[i] = l.among[p] /\ l.messages[j] = l.among[q] => p < q
ShowsEnough(l, hits) ==
  /\ l.cap # 0 => Len(l.messages) <= Most(l.cap)
  /\ l.cap = 0 \/ Len(l.messages) < Most(l.cap) =>
       \A p \in 1..Len(l.among) : l.among[p] \in hits => l.among[p] \in ShownIn(l)
ShowsLast(l, hits) == ShowsMatching(l, hits) /\ ShowsInOrder(l, hits) /\ ShowsEnough(l, hits)

(* The inductive invariant.                                                  *)
IsRight(l) == (\A r \in InList(l) : r \in Reference /\ Stored(r)) /\ ShowsLast(l, MatchesIn(l))
ListedInv == \A k \in DOMAIN listed : IsRight(listed[k])

LEMMA RightListShowsLast ==
  ListedInv => ListShowsLast
<1>1. SUFFICES ASSUME ListedInv, NEW k \in DOMAIN listed
               PROVE  LET l == listed[k]
                          n == Len(l.messages)
                          shown == {l.messages[i] : i \in 1..n}
                          most == IF l.cap < 0 THEN 1 ELSE l.cap
                          matches(r) == PayloadOf(r).content \in l.matcher
                      IN /\ \A r \in shown : matches(r)
                         /\ l.conn = 0 =>
                              \A r \in shown : \E p \in 1..Len(l.among) : l.among[p] = r
                         /\ \A p, q \in 1..Len(l.among) :
                              p < q /\ l.among[p] \in shown /\ matches(l.among[q]) =>
                                l.among[q] \in shown
                         /\ \A i, j \in 1..n : \A p, q \in 1..Len(l.among) :
                              i < j /\ l.messages[i] = l.among[p] /\ l.messages[j] = l.among[q] =>
                                p < q
                         /\ l.cap # 0 => n <= most
                         /\ l.cap = 0 \/ n < most =>
                              \A p \in 1..Len(l.among) :
                                matches(l.among[p]) => l.among[p] \in shown
  BY DEF ListShowsLast
<1> DEFINE l == listed[k]
           hits == MatchesIn(l)
<1>2. ShowsMatching(l, hits) /\ ShowsInOrder(l, hits) /\ ShowsEnough(l, hits)
  BY <1>1 DEF ListedInv, IsRight, ShowsLast
<1>3. \A r \in ShownIn(l) : r \in hits => PayloadOf(r).content \in l.matcher
  BY DEF MatchesIn
<1>4. \A p \in 1..Len(l.among) :
        PayloadOf(l.among[p]).content \in l.matcher => l.among[p] \in hits
  BY DEF MatchesIn, InList
<1>5. ShownIn(l) = {l.messages[i] : i \in 1..Len(l.messages)}
  BY DEF ShownIn
<1> HIDE DEF l, hits
<1>6. /\ \A r \in ShownIn(l) : PayloadOf(r).content \in l.matcher
      /\ l.conn = 0 => \A r \in ShownIn(l) : \E p \in 1..Len(l.among) : l.among[p] = r
  BY <1>2, <1>3 DEF ShowsMatching
<1>7. /\ \A p, q \in 1..Len(l.among) :
           p < q /\ l.among[p] \in ShownIn(l) /\ PayloadOf(l.among[q]).content \in l.matcher =>
             l.among[q] \in ShownIn(l)
      /\ \A i, j \in 1..Len(l.messages) : \A p, q \in 1..Len(l.among) :
           i < j /\ l.messages[i] = l.among[p] /\ l.messages[j] = l.among[q] => p < q
  BY <1>2, <1>4 DEF ShowsInOrder
<1>8. /\ l.cap # 0 => Len(l.messages) <= Most(l.cap)
      /\ l.cap = 0 \/ Len(l.messages) < Most(l.cap) =>
           \A p \in 1..Len(l.among) :
             PayloadOf(l.among[p]).content \in l.matcher => l.among[p] \in ShownIn(l)
  BY <1>2, <1>4 DEF ShowsEnough
<1>9. QED
  BY <1>5, <1>6, <1>7, <1>8, Zenon DEF l, Most

(* No message is searched twice.                                             *)
LEMMA SearchedOnce ==
  ASSUME ControllerInv, ShownInv
  PROVE  \A x, y \in 1..Len(Searched) : Searched[x] = Searched[y] => x = y
<1>1. CASE current_connection = 0
  <2>1. Searched = all_messages /\ DOMAIN all_messages = 1..Len(all_messages)
    BY <1>1 DEF Searched, ControllerInv
  <2>2. SUFFICES ASSUME NEW x \in 1..Len(all_messages), NEW y \in 1..Len(all_messages),
                        all_messages[x] = all_messages[y], x # y
                 PROVE  FALSE
    BY <2>1
  <2>3. all_messages[x].n \in Nat /\ all_messages[y].n = all_messages[x].n
    BY <2>1, <2>2, ReferenceFields
  <2>4. all_messages[x].n < all_messages[y].n \/ all_messages[y].n < all_messages[x].n
    <3>1. x < y \/ y < x
      BY <2>2
    <3>2. QED
      BY <2>1, <2>2, <3>1 DEF ControllerInv, AllMessagesOrdered
  <2>5. QED
    BY <2>3, <2>4
<1>2. CASE current_connection # 0
  <2> DEFINE c == current_connection
             N == Len(connection_list[c].stored)
  <2>1. N \in Nat
    BY <1>2, StateTypes, StoredIsCounted DEF ShownInv, ControllerInv
  <2>2. Searched = [n \in 1..N |-> [conn |-> c, n |-> n]]
    BY <1>2 DEF Searched
  <2> HIDE DEF N
  <2>3. Len(Searched) = N /\ \A x \in 1..N : Searched[x].n = x
    BY <2>1, <2>2
  <2>4. QED
    BY <2>3
<1>3. QED
  BY <1>1, <1>2

(* What matches from the place on where the search ended is found, in order. *)
LEMMA FoundInOrder ==
  ASSUME NEW refs \in Seq(Reference), NEW matcher, NEW e \in 1..Len(refs)+1
  PROVE  LET found == Matching(matcher, SubSeq(refs, e, Len(refs)))
         IN \E at \in [1..Len(found) -> Hits(refs, matcher, e)] :
              /\ \A i, j \in 1..Len(found) : i < j => at[i] < at[j]
              /\ \A x \in Hits(refs, matcher, e) : \E i \in 1..Len(found) : at[i] = x
              /\ \A i \in 1..Len(found) : found[i] = refs[at[i]]
<1> DEFINE t == SubSeq(refs, e, Len(refs))
           P == {i \in 1..Len(t) : PayloadOf(t[i]).content \in matcher}
           s == Selected(t, P)
           hits == Hits(refs, matcher, e)
<1>1. /\ t \in Seq(Reference) /\ Len(t) = Len(refs) - e + 1 /\ Len(refs) \in Nat
      /\ \A i \in 1..Len(t) : t[i] = refs[e + i - 1]
  OBVIOUS
<1> HIDE DEF t
<1>2. Matching(matcher, t) = s
  BY DEF Matching
<1>3. ASSUME NEW i \in 1..Len(t)
      PROVE  e + i - 1 \in e..Len(refs) /\ (i \in P <=> e + i - 1 \in hits)
  BY <1>1 DEF Hits
<1>4. ASSUME NEW x \in hits
      PROVE  x - e + 1 \in 1..Len(t) /\ e + (x - e + 1) - 1 = x /\ x \in Nat
  BY <1>1 DEF Hits
<1> HIDE DEF P, hits
<1>5. PICK pos \in [1..Len(s) -> P \cap 1..Len(t)] :
        /\ \A j, k \in 1..Len(s) : j < k => pos[j] < pos[k]
        /\ \A n \in P \cap 1..Len(t) : \E k \in 1..Len(s) : pos[k] = n
        /\ \A k \in 1..Len(s) : s[k] = t[pos[k]]
  <2>1. t \in Seq(Reference)
    BY <1>1
  <2>2. QED
    BY <2>1, SelectedPlaces
<1>6. Len(s) \in Nat
  BY <1>1, SelectedType
<1> HIDE DEF s
<1> DEFINE at == [i \in 1..Len(s) |-> e + pos[i] - 1]
<1>7. ASSUME NEW i \in 1..Len(s)
      PROVE  pos[i] \in 1..Len(t) /\ at[i] = e + pos[i] - 1 /\ at[i] \in hits /\ s[i] = refs[at[i]]
  <2>1. pos[i] \in P /\ pos[i] \in 1..Len(t) /\ s[i] = t[pos[i]]
    BY <1>5
  <2>2. QED
    BY <1>1, <1>3, <2>1
<1>8. at \in [1..Len(s) -> hits]
  BY <1>7
<1>9. ASSUME NEW i \in 1..Len(s), NEW j \in 1..Len(s), i < j
      PROVE  at[i] < at[j]
  <2>1. pos[i] < pos[j] /\ pos[i] \in Nat /\ pos[j] \in Nat /\ e \in Nat
    BY <1>5, <1>7, <1>9
  <2>2. QED
    BY <1>7, <2>1
<1>10. ASSUME NEW x \in hits
       PROVE  \E i \in 1..Len(s) : at[i] = x
  <2>1. x - e + 1 \in P \cap 1..Len(t)
    BY <1>3, <1>4
  <2>2. PICK k \in 1..Len(s) : pos[k] = x - e + 1
    BY <1>5, <2>1
  <2>3. QED
    BY <1>4, <2>2
<1> HIDE DEF at
<1>11. /\ at \in [1..Len(s) -> hits]
       /\ \A i, j \in 1..Len(s) : i < j => at[i] < at[j]
       /\ \A x \in hits : \E i \in 1..Len(s) : at[i] = x
       /\ \A i \in 1..Len(s) : s[i] = refs[at[i]]
  BY <1>7, <1>8, <1>9, <1>10
<1>12. QED
  BY <1>2, <1>11, Zenon DEF hits, t

(* What was just listed.                                                     *)
Listing(matcher, cap) ==
  [matcher |-> matcher, cap |-> cap, conn |-> current_connection,
   among |-> Among(current_connection),
   messages |-> Matching(matcher, SubSeq(Searched, SearchEnd(Searched, matcher, cap),
                                         Len(Searched)))]

LEMMA NewListIsRight ==
  ASSUME ControllerInv, ShownInv, AllInv, StoryOfEachConnection, NEW matcher, NEW cap \in Int
  PROVE  IsRight(Listing(matcher, cap))
<1> DEFINE l == Listing(matcher, cap)
           s == Searched
           N == Len(s)
           e == SearchEnd(s, matcher, cap)
           hit(x) == PayloadOf(s[x]).content \in matcher
           n == Len(l.messages)
           found == Hits(s, matcher, e)
           hits == MatchesIn(l)
<1>1. /\ s \in Seq(Reference) /\ N \in Nat
      /\ \A x \in 1..N : s[x] \in Reference /\ Stored(s[x])
  BY SearchedIsStored
<1>2. \A x, y \in 1..N : s[x] = s[y] => x = y
  BY SearchedOnce
<1>3. e \in 1..N+1
  BY <1>1, SearchEndIs
<1>4. /\ l.matcher = matcher /\ l.cap = cap /\ l.conn = current_connection
      /\ l.among = Among(current_connection)
      /\ l.messages = Matching(matcher, SubSeq(s, e, N))
  BY DEF Listing
<1>5. n \in Nat
  BY <1>4, ListedIsStored
<1>6. PICK q \in [1..n -> found] :
        /\ \A i, j \in 1..n : i < j => q[i] < q[j]
        /\ \A x \in found : \E i \in 1..n : q[i] = x
        /\ \A i \in 1..n : l.messages[i] = s[q[i]]
  <2>1. \E at \in [1..n -> found] :
          /\ \A i, j \in 1..n : i < j => at[i] < at[j]
          /\ \A x \in found : \E i \in 1..n : at[i] = x
          /\ \A i \in 1..n : l.messages[i] = s[at[i]]
    <3> HIDE DEF s, l, e
    <3>1. QED
      BY <1>1, <1>3, <1>4, FoundInOrder
  <2>2. QED
    BY <2>1
<1>7. PICK at \in [1..Len(l.among) -> 1..N] :
        /\ \A p, r \in 1..Len(l.among) : p < r => at[p] < at[r]
        /\ \A p \in 1..Len(l.among) : l.among[p] = s[at[p]]
  <2> DEFINE among == Among(current_connection)
  <2>1. \E at \in [1..Len(among) -> 1..N] :
          /\ \A p, r \in 1..Len(among) : p < r => at[p] < at[r]
          /\ \A p \in 1..Len(among) : among[p] = s[at[p]]
    BY ToldIsSearched
  <2>2. l.among = among
    BY <1>4
  <2> HIDE DEF among, l, s, N
  <2>3. QED
    BY <2>1, <2>2
<1>8. found = {x \in e..N : hit(x)}
  BY DEF Hits
<1>9. /\ cap # 0 => n <= Most(cap)
      /\ cap = 0 \/ n < Most(cap) => e = 1
  <2> HIDE DEF l, s, n
  <2>1. QED
    BY <1>1, <1>5, <1>6, SearchFinds
<1>10. current_connection = 0 => s = l.among
  BY <1>4 DEF AllInv, Searched
<1>11. Len(l.among) \in Nat
  BY <1>4, AmongDef, SelectedType, StateTypes DEF ControllerInv, AmongOf, ToldOf
<1> HIDE DEF l, s, N, e, n, found
<1>12. ASSUME NEW i \in 1..n
       PROVE  /\ q[i] \in 1..N /\ q[i] \in e..N /\ hit(q[i])
              /\ l.messages[i] = s[q[i]] /\ l.messages[i] \in ShownIn(l)
  <2>1. q[i] \in found
    BY <1>6
  <2>2. l.messages[i] \in ShownIn(l)
    BY DEF ShownIn, n
  <2>3. QED
    BY <1>1, <1>3, <1>6, <1>8, <2>1, <2>2
<1>13. ASSUME NEW r \in ShownIn(l)
       PROVE  \E i \in 1..n : r = l.messages[i]
  BY DEF ShownIn, n
<1>14. ASSUME NEW p \in 1..Len(l.among)
       PROVE  at[p] \in 1..N /\ l.among[p] = s[at[p]]
  BY <1>7
<1>15. \A r \in InList(l) : r \in Reference /\ Stored(r)
  BY <1>1, <1>12, <1>13, <1>14 DEF InList
<1>16. \A r : r \in hits <=> r \in InList(l) /\ PayloadOf(r).content \in matcher
  BY <1>4 DEF MatchesIn
<1> HIDE DEF hits
<1>17. ASSUME NEW p \in 1..Len(l.among), l.among[p] \in hits, at[p] >= e
       PROVE  l.among[p] \in ShownIn(l)
  <2>1. at[p] \in 1..N /\ l.among[p] = s[at[p]] /\ hit(at[p])
    BY <1>14, <1>16, <1>17
  <2>2. at[p] \in found
    BY <1>1, <1>3, <1>8, <1>17, <2>1
  <2>3. PICK i \in 1..n : q[i] = at[p]
    BY <1>6, <2>2
  <2>4. QED
    BY <1>12, <2>1, <2>3
<1>18. ASSUME NEW i \in 1..n, NEW p \in 1..Len(l.among), l.messages[i] = l.among[p]
       PROVE  q[i] = at[p]
  BY <1>2, <1>12, <1>14, <1>18
<1>19. ShowsMatching(l, hits)
  <2>1. ASSUME NEW r \in ShownIn(l)
        PROVE  r \in hits
    <3>1. PICK i \in 1..n : r = l.messages[i]
      BY <1>13
    <3>2. PayloadOf(r).content \in matcher
      BY <1>12, <3>1
    <3>3. QED
      BY <1>16, <3>2 DEF InList
  <2>2. ASSUME l.conn = 0, NEW r \in ShownIn(l)
        PROVE  \E p \in 1..Len(l.among) : l.among[p] = r
    <3>1. PICK i \in 1..n : r = l.messages[i]
      BY <1>13
    <3>2. s = l.among /\ N = Len(l.among)
      BY <1>4, <1>10, <2>2 DEF N
    <3>3. QED
      BY <1>12, <3>1, <3>2
  <2>3. QED
    BY <2>1, <2>2 DEF ShowsMatching
<1>20. ShowsInOrder(l, hits)
  <2>1. ASSUME NEW p \in 1..Len(l.among), NEW r \in 1..Len(l.among),
               p < r, l.among[p] \in ShownIn(l), l.among[r] \in hits
        PROVE  l.among[r] \in ShownIn(l)
    <3>1. PICK i \in 1..n : l.among[p] = l.messages[i]
      BY <1>13, <2>1
    <3>2. q[i] = at[p] /\ q[i] \in e..N
      BY <1>12, <1>18, <3>1
    <3>3. at[p] < at[r] /\ at[r] \in 1..N
      BY <1>7, <2>1
    <3>4. at[r] >= e
      BY <1>1, <1>3, <3>2, <3>3
    <3>5. QED
      BY <1>17, <2>1, <3>4
  <2>2. ASSUME NEW i \in 1..n, NEW j \in 1..n,
               NEW p \in 1..Len(l.among), NEW r \in 1..Len(l.among),
               i < j, l.messages[i] = l.among[p], l.messages[j] = l.among[r]
        PROVE  p < r
    <3>1. q[i] < q[j] /\ q[i] = at[p] /\ q[j] = at[r]
      BY <1>6, <1>18, <2>2
    <3>2. at[p] \in 1..N /\ at[r] \in 1..N
      BY <1>14
    <3>3. r < p => at[r] < at[p]
      BY <1>7
    <3>4. p # r /\ ~(r < p)
      BY <1>1, <3>1, <3>2, <3>3
    <3>5. QED
      BY <1>11, <3>4
  <2>3. QED
    BY <2>1, <2>2 DEF ShowsInOrder, n
<1>21. ShowsEnough(l, hits)
  <2>1. ASSUME cap = 0 \/ n < Most(cap), NEW p \in 1..Len(l.among), l.among[p] \in hits
        PROVE  l.among[p] \in ShownIn(l)
    <3>1. e = 1 /\ at[p] >= 1
      BY <1>1, <1>9, <1>14, <2>1
    <3>2. QED
      BY <1>17, <2>1, <3>1
  <2>2. QED
    BY <1>4, <1>9, <2>1 DEF ShowsEnough, n
<1>22. QED
  BY <1>15, <1>19, <1>20, <1>21 DEF IsRight, ShowsLast, l, hits

(* A list that was right stays right: what it shows does not change.         *)
LEMMA RightListStays ==
  ASSUME Inv, [Next]_vars
  PROVE  \A l : IsRight(l) => IsRight(l)'
<1>1. SUFFICES ASSUME NEW l, IsRight(l) PROVE IsRight(l)'
  OBVIOUS
<1>2. \A r \in InList(l) :
        /\ r \in Reference /\ r.conn \in Connections'
        /\ r.n \in 1..Len(connection_list'[r.conn].stored)
        /\ connection_list'[r.conn].stored[r.n] = PayloadOf(r)
  BY <1>1, PayloadsStay DEF IsRight
<1>3. \A r \in InList(l) : r \in Reference /\ Stored(r)'
  BY <1>2 DEF Stored
<1>4. MatchesIn(l)' = MatchesIn(l)
  <2>1. \A r \in InList(l) : PayloadOf(r)' = PayloadOf(r)
    BY <1>2 DEF PayloadOf
  <2>2. MatchesIn(l)' = {r \in InList(l) : PayloadOf(r)'.content \in l.matcher}
    BY DEF MatchesIn, InList, ShownIn
  <2>3. QED
    BY <2>1, <2>2 DEF MatchesIn
<1>5. ShowsLast(l, MatchesIn(l))'
  <2> DEFINE hits == MatchesIn(l)
  <2>1. ShowsLast(l, hits)
    BY <1>1 DEF IsRight
  <2>2. QED
    BY <1>4, <2>1 DEF ShowsLast, ShowsMatching, ShowsInOrder, ShowsEnough, ShownIn
<1>6. QED
  BY <1>3, <1>5 DEF IsRight, InList, ShownIn

LEMMA StepKeepsListedInv ==
  ASSUME ControllerInv, ShownInv, AllInv, StoryOfEachConnection, ListedInv, [Next]_vars
  PROVE  ListedInv'
<1>1. CASE UNCHANGED listed
  <2>1. ASSUME NEW k \in DOMAIN listed'
        PROVE  IsRight(listed[k])'
    <3>1. PICK l : l = listed[k]
      OBVIOUS
    <3>2. IsRight(l)
      BY <1>1, <2>1, <3>1 DEF ListedInv
    <3>3. IsRight(l)'
      BY <3>2, RightListStays DEF ControllerInv
    <3>4. listed'[k] = l
      BY <1>1, <3>1
    <3>5. QED
      BY <3>3, <3>4
  <2>2. QED
    BY <2>1 DEF ListedInv
<1>2. CASE Backend
  BY <1>1, <1>2 DEF Backend, Opens, Closes, Receives, historyVars
<1>3. ASSUME NEW matcher, NEW count \in {<<>>} \cup {<<n>> : n \in Counts},
             ListCommand(matcher, count)
      PROVE  ListedInv'
  <2> DEFINE cap == IF count = <<>> THEN 0 ELSE count[1]
  <2>1. cap \in Int
    BY ControllerAssumption
  <2>2. listed' = <<Listing(matcher, cap)>>
    BY <1>3 DEF ListCommand, Listing
  <2> HIDE DEF cap
  <2>3. PICK l : l = Listing(matcher, cap)
    OBVIOUS
  <2>4. IsRight(l)
    BY <2>1, <2>3, NewListIsRight
  <2>5. IsRight(l)'
    BY <2>4, RightListStays DEF ControllerInv
  <2>6. \A k \in DOMAIN listed' : listed'[k] = l
    BY <2>2, <2>3
  <2>7. ASSUME NEW k \in DOMAIN listed'
        PROVE  IsRight(listed[k])'
    <3>1. listed'[k] = l
      BY <2>6
    <3>2. QED
      BY <2>5, <3>1
  <2>8. QED
    BY <2>7 DEF ListedInv
<1>4. CASE User
  <2>1. CASE \E matcher : \E count \in {<<>>} \cup {<<n>> : n \in Counts} :
               ListCommand(matcher, count)
    BY <1>3, <2>1
  <2>2. CASE ~\E matcher : \E count \in {<<>>} \cup {<<n>> : n \in Counts} :
               ListCommand(matcher, count)
    BY <1>1, <1>4, <2>2 DEF User, SimpleCommand, FilterCommand, BreakPointCommand,
                            ConnectionCommand
  <2>3. QED
    BY <2>1, <2>2
<1>5. CASE UNCHANGED vars
  BY <1>1, <1>5 DEF vars, historyVars
<1>6. QED
  BY <1>2, <1>4, <1>5 DEF Next

(* What the connections told of is all in the controller's own list.         *)
LEMMA AllInvariant == Spec => []AllInv
<1>1. ControllerInit => AllInv
  <2>1. ASSUME ControllerInit PROVE AmongOf(events, 0) = <<>>
    <3>1. events = <<>>
      BY <2>1 DEF ControllerInit, Init
    <3>2. ToldOf(<<>>, 0) = <<>>
      BY SelectedEmpty DEF ToldOf
    <3>3. QED
      BY <3>1, <3>2 DEF AmongOf
  <2>2. QED
    BY <2>1, AmongDef DEF ControllerInit, AllInv
<1>2. ControllerInv /\ AllInv /\ [Next]_vars => AllInv'
  BY StepKeepsAllInv
<1>3. QED
  BY <1>1, <1>2, ControllerInvariant, PTL DEF Spec

(* A list shows what was told of that matches: the last COUNT of it, in its  *)
(* order, or all of it without a COUNT or if there is less, whatever was     *)
(* opened, closed, received, filtered and listed before.                     *)
THEOREM ListAlwaysShowsLast == Spec => []ListShowsLast
<1>1. ControllerInit => ListedInv
  BY DEF ControllerInit, ListedInv
<1>2. /\ ControllerInv /\ ShownInv /\ AllInv /\ StoryOfEachConnection
      /\ ListedInv /\ [Next]_vars
      => ListedInv'
  BY StepKeepsListedInv
<1>3. ListedInv => ListShowsLast
  BY RightListShowsLast
<1>4. Spec => []StoryOfEachConnection
  BY ControllerImplementsManager, StoryAlwaysTold, PTL
<1>5. QED
  BY <1>1, <1>2, <1>3, <1>4, ControllerInvariant, ShownInvariant, AllInvariant, PTL DEF Spec
==============================================================================
