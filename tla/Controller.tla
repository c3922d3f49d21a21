------------------------------ MODULE Controller ------------------------------
(* frontends/tui/controller.py: listens to the connection manager, shows the *)
(* messages the filter lets through, asks for a pause at those the           *)
(* breakpoint matcher matches, and carries out the user's commands.          *)
(*                                                                           *)
(* A matcher is the set of contents it matches: how the user's text becomes  *)
(* one is the business of module Filter.  A message is a payload: what it    *)
(* says, the second it was sent in and the app id it sets, "" for none.  It  *)
(* is referred to by its connection and its number there.  Of what is        *)
(* printed only the lines that show a message, the separators between them,  *)
(* and where a list begins or ends are kept.  Every call and every command   *)
(* runs to its end in the main thread.                                       *)
EXTENDS ConnectionManager, Selection, Integers, FiniteSets

CONSTANTS
  Contents,      \* what messages say
  Times,         \* when they are sent
  Matchers,      \* matchers the user asks for
  Names,         \* names of connections, in the order they are given
  Counts,        \* numbers the user gives to list after ~
  MaxCommands    \* bound: commands in a session

ASSUME ControllerAssumption ==
  /\ \A m \in Payloads : m.content \in Contents /\ m.timestamp \in Times
  /\ Times \subseteq Nat /\ Counts \subseteq Int
  /\ Matchers \subseteq SUBSET Contents
  /\ \A c, d \in 1..MaxConnections : c # d => Names[c] # Names[d]
  /\ MaxCommands \in Nat

VARIABLES
  app_ids,               \* of each connection, "" for none
  all_messages,          \* the messages told of, over all connections
  display_matcher,
  stop_matcher,
  current_connection,    \* the connection shown, 0 for all of them
  last_shown_timestamp,  \* -1 for None
  screen,                \* lines shown
  ui,                    \* what the UI was asked in the last step
  listed,                \* <<>>, or what the last list command showed and said
  live,                  \* the messages shown when they came
  undisturbed,           \* no filter or connection command has been given
  commands               \* how many commands were given

filterVars == <<display_matcher, stop_matcher, current_connection>>
screenVars == <<last_shown_timestamp, screen>>
historyVars == <<listed, live, undisturbed>>
vars == <<managerVars, app_ids, all_messages, filterVars, screenVars, ui, historyVars, commands>>

ControllerInit ==
  /\ Init
  /\ app_ids = <<>>
  /\ all_messages = <<>>
  /\ display_matcher \in Matchers
  /\ stop_matcher \in Matchers
  /\ current_connection = 0
  /\ last_shown_timestamp = -1
  /\ screen = <<>>
  /\ ui = "none"
  /\ listed = <<>> /\ live = <<>> /\ undisturbed = TRUE
  /\ commands = 0

PayloadOf(r) == connection_list[r.conn].stored[r.n]
Time(r) == PayloadOf(r).timestamp
Matching(matcher, refs) ==
  Selected(refs, {i \in 1..Len(refs) : PayloadOf(refs[i]).content \in matcher})

MessageLine(t) == [line |-> "message", time |-> t]
GapLine(t) == [line |-> "gap", time |-> t]
ListLine == [line |-> "list", time |-> 0]

(* _show_message.                                                            *)
ShowLines(t, last) ==
  IF last # -1 /\ t - last > 1 THEN <<GapLine(t - last), MessageLine(t)>> ELSE <<MessageLine(t)>>

------------------------------------------------------------------------------
(* What the connection manager tells *)

Opens(id) ==
  /\ OpenConnection(id)
  /\ app_ids' = Append(app_ids, "")
  /\ ui' = "none"
  /\ UNCHANGED <<all_messages, filterVars, screenVars, historyVars, commands>>

Closes(id) ==
  /\ CloseConnection(id)
  /\ ui' = "none"
  /\ UNCHANGED <<app_ids, all_messages, filterVars, screenVars, historyVars, commands>>

(* Mutant: a message it stops at is not shown as well.                       *)
StopsOrShows(c, n, m) ==
  LET inView == current_connection \in {0, c}
      stops == inView /\ m.content \in stop_matcher
      shown == inView /\ m.content \in display_matcher /\ ~stops
      r == [conn |-> c, n |-> n]
  IN /\ all_messages' = Append(all_messages, r)
     /\ screen' = IF shown THEN screen \o ShowLines(m.timestamp, last_shown_timestamp) ELSE screen
     /\ last_shown_timestamp' = IF shown THEN m.timestamp ELSE last_shown_timestamp
     /\ live' = IF shown THEN Append(live, r) ELSE live
     /\ ui' = IF stops THEN "pause" ELSE "none"

(* Mutant: a message is only kept when it is shown.                          *)
KeepsShown(c, n, m) ==
  LET inView == current_connection \in {0, c}
      shown == inView /\ m.content \in display_matcher
      r == [conn |-> c, n |-> n]
  IN /\ all_messages' = IF shown THEN Append(all_messages, r) ELSE all_messages
     /\ screen' = IF shown THEN screen \o ShowLines(m.timestamp, last_shown_timestamp) ELSE screen
     /\ last_shown_timestamp' = IF shown THEN m.timestamp ELSE last_shown_timestamp
     /\ live' = IF shown THEN Append(live, r) ELSE live
     /\ ui' = IF inView /\ m.content \in stop_matcher THEN "pause" ELSE "none"

(* connection_got_new_message.                                               *)
GotNewMessage(c, n, m) ==
  LET inView == current_connection \in {0, c}
      shown == inView /\ m.content \in display_matcher
      r == [conn |-> c, n |-> n]
  IN /\ all_messages' = Append(all_messages, r)
     /\ screen' = IF shown THEN screen \o ShowLines(m.timestamp, last_shown_timestamp) ELSE screen
     /\ last_shown_timestamp' = IF shown THEN m.timestamp ELSE last_shown_timestamp
     /\ live' = IF shown THEN Append(live, r) ELSE live
     /\ ui' = IF inView /\ m.content \in stop_matcher THEN "pause" ELSE "none"

(* Handling a message may set the connection's app id.  When it raises, the  *)
(* controller is told nothing.                                               *)
Receives(id, m) ==
  LET c == open_connections[id]
  IN /\ Message(id, m)
     /\ IF raised' = "none"
        THEN /\ GotNewMessage(c, Len(connection_list[c].stored) + 1, m)
             /\ app_ids' = IF m.app_id = "" THEN app_ids ELSE [app_ids EXCEPT ![c] = m.app_id]
        ELSE ui' = "none" /\ UNCHANGED <<app_ids, all_messages, screenVars, live>>
     /\ UNCHANGED <<filterVars, listed, undisturbed, commands>>

------------------------------------------------------------------------------
(* Commands *)

Commands(request) ==
  /\ commands < MaxCommands
  /\ commands' = commands + 1
  /\ ui' = request
  /\ UNCHANGED <<managerVars, app_ids, all_messages, live>>

(* Resume, quit, and the commands that only print something: help, matcher,  *)
(* filter and breakpoint without an argument or with one that does not       *)
(* parse, and what is not a command.                                         *)
SimpleCommand(request) ==
  /\ Commands(request)
  /\ UNCHANGED <<filterVars, screenVars, listed, undisturbed>>

FilterCommand(matcher) ==
  /\ Commands("none")
  /\ display_matcher' = matcher
  /\ undisturbed' = FALSE
  /\ UNCHANGED <<stop_matcher, current_connection, screenVars, listed>>

BreakPointCommand(matcher) ==
  /\ Commands("none")
  /\ stop_matcher' = matcher
  /\ UNCHANGED <<display_matcher, current_connection, screenVars, listed, undisturbed>>

(* _get_connection: by name, or else the first that has the app id; 0 for    *)
(* None.                                                                     *)
GetConnection(arg) ==
  LET named == {c \in Connections : Names[c] = arg}
      set == {c \in Connections : app_ids[c] = arg /\ app_ids[c] # ""}
      first(cs) == CHOOSE c \in cs : \A d \in cs : c <= d
  IN IF named # {} THEN first(named) ELSE IF set # {} THEN first(set) ELSE 0

(* Without an argument, or if it names no connection, they are only listed.  *)
ConnectionCommand(arg) ==
  /\ Commands("none")
  /\ current_connection' =
       IF arg = "all" THEN 0
       ELSE IF GetConnection(arg) # 0 THEN GetConnection(arg) ELSE current_connection
  /\ undisturbed' = FALSE
  /\ UNCHANGED <<display_matcher, stop_matcher, screenVars, listed>>

(* What the connections have told of: all of them, or the one that is shown. *)
(* Kept with a list so that properties can compare it with what was listed.  *)
Among(c) ==
  LET told == Selected(events, {i \in 1..Len(events) :
                events[i].kind = "message" /\ c \in {0, events[i].conn}})
  IN [i \in 1..Len(told) |-> [conn |-> told[i].conn, n |-> told[i].n]]

(* The list that is searched: the controller's own, or the connection's.     *)
Searched ==
  IF current_connection = 0 THEN all_messages
  ELSE [n \in 1..Len(connection_list[current_connection].stored) |->
          [conn |-> current_connection, n |-> n]]

(* Mutant: the search ends before the message that reaches the cap.          *)
SearchEndsEarly(refs, matcher, cap) ==
  LET hit(i) == PayloadOf(refs[i]).content \in matcher
      hits(i) == Cardinality({j \in i..Len(refs) : hit(j)})
      ends == {i \in 1..Len(refs) : hit(i) /\ cap # 0 /\ hits(i) >= cap}
  IN IF ends = {} THEN 1 ELSE 1 + CHOOSE i \in ends : \A j \in ends : j <= i

(* _get_matching looks at the messages from the last one on, and ends at a   *)
(* match by which there are at least cap of them; 0 stands for None.  The    *)
(* number of the earliest one it has looked at:                              *)
SearchEnd(refs, matcher, cap) ==
  LET hit(i) == PayloadOf(refs[i]).content \in matcher
      hits(i) == Cardinality({j \in i..Len(refs) : hit(j)})
      ends == {i \in 1..Len(refs) : hit(i) /\ cap # 0 /\ hits(i) >= cap}
  IN IF ends = {} THEN 1 ELSE CHOOSE i \in ends : \A j \in ends : j <= i

(* Mutant: the separator refers to what was shown before the list.           *)
ListedLinesNoReset(refs) ==
  LET upTo[i \in 0..Len(refs)] ==
        IF i = 0 THEN <<ListLine>>
        ELSE upTo[i - 1] \o
               ShowLines(Time(refs[i]), IF i = 1 THEN last_shown_timestamp ELSE Time(refs[i - 1]))
  IN upTo[Len(refs)] \o <<ListLine>>

(* show_messages, when something matches: what is shown up to each message.  *)
ListedUpTo(refs) ==
  LET upTo[i \in 0..Len(refs)] ==
        IF i = 0 THEN <<ListLine>>
        ELSE upTo[i - 1] \o ShowLines(Time(refs[i]), IF i = 1 THEN -1 ELSE Time(refs[i - 1]))
  IN upTo

ListedLines(refs) == ListedUpTo(refs)[Len(refs)] \o <<ListLine>>

(* Mutant: the list is reversed in place to be searched.                     *)
ListReversing(matcher, count) ==
  LET matching == Matching(matcher, Searched)
  IN /\ commands < MaxCommands /\ commands' = commands + 1
     /\ all_messages' =
          IF current_connection = 0
          THEN [i \in 1..Len(all_messages) |-> all_messages[Len(all_messages) + 1 - i]]
          ELSE all_messages
     /\ screen' = IF matching = <<>> THEN screen ELSE screen \o ListedLines(matching)
     /\ last_shown_timestamp' = IF matching = <<>> THEN last_shown_timestamp ELSE -1
     /\ ui' = "none"
     /\ UNCHANGED <<managerVars, app_ids, live, filterVars, listed, undisturbed>>

(* list_command with the matcher asked for (the filter, if none was; nothing *)
(* matches one that does not parse).                                         *)
ListCommand(matcher, count) ==
  LET cap == IF count = <<>> THEN 0 ELSE count[1]
      searched == SubSeq(Searched, SearchEnd(Searched, matcher, cap), Len(Searched))
      matching == Matching(matcher, searched)
  IN /\ Commands("none")
     /\ listed' = <<[matcher |-> matcher, cap |-> cap, conn |-> current_connection,
                     among |-> Among(current_connection), messages |-> matching]>>
     /\ IF matching = <<>>
        THEN UNCHANGED screenVars
        ELSE screen' = screen \o ListedLines(matching) /\ last_shown_timestamp' = -1
     /\ UNCHANGED <<filterVars, undisturbed>>

Backend ==
  \E id \in ConnIds : Opens(id) \/ Closes(id) \/ \E m \in Payloads : Receives(id, m)

ConnectionArgs ==
  {"", "all"} \cup {m.app_id : m \in Payloads} \cup {Names[c] : c \in 1..MaxConnections}

User ==
  \/ \E request \in {"none", "resume", "quit"} : SimpleCommand(request)
  \/ \E matcher \in Matchers : FilterCommand(matcher) \/ BreakPointCommand(matcher)
  \/ \E arg \in ConnectionArgs : ConnectionCommand(arg)
  \/ \E count \in {<<>>} \cup {<<n>> : n \in Counts} :
       \/ ListCommand(display_matcher, count)
       \/ \E matcher \in Matchers \cup {{}} : ListCommand(matcher, count)

Next == Backend \/ User

Spec == ControllerInit /\ [][Next]_vars

------------------------------------------------------------------------------
(* Properties *)

(* The controller's own list of all messages stays in step with the lists of *)
(* the connections: it refers to messages they have, those of each           *)
(* connection in their order, and to none twice.                             *)
AllMessagesOrdered ==
  /\ \A i \in DOMAIN all_messages :
       /\ all_messages[i].conn \in Connections
       /\ all_messages[i].n \in 1..Len(connection_list[all_messages[i].conn].stored)
  /\ \A i, j \in DOMAIN all_messages :
       i < j /\ all_messages[i].conn = all_messages[j].conn => all_messages[i].n < all_messages[j].n

(* A list shows what was told of, hidden by a filter or not when it came,    *)
(* that matches: the last COUNT of it in its order, or all of it without a   *)
(* COUNT or if there is less; a COUNT below 0 is one of 1.  Only a           *)
(* connection's own list may also have messages whose handling raised.       *)
ListShowsLast ==
  \A k \in DOMAIN listed :
    LET l == listed[k]
        n == Len(l.messages)
        shown == {l.messages[i] : i \in 1..n}
        most == IF l.cap < 0 THEN 1 ELSE l.cap
        matches(r) == PayloadOf(r).content \in l.matcher
    IN /\ \A r \in shown : matches(r)
       /\ l.conn = 0 => \A r \in shown : \E p \in 1..Len(l.among) : l.among[p] = r
       /\ \A p, q \in 1..Len(l.among) :
            p < q /\ l.among[p] \in shown /\ matches(l.among[q]) => l.among[q] \in shown
       /\ \A i, j \in 1..n : \A p, q \in 1..Len(l.among) :
            i < j /\ l.messages[i] = l.among[p] /\ l.messages[j] = l.among[q] => p < q
       /\ l.cap # 0 => n <= most
       /\ l.cap = 0 \/ n < most =>
            \A p \in 1..Len(l.among) : matches(l.among[p]) => l.among[p] \in shown

(* Two messages shown one after the other are apart by more than a second if *)
(* and only if a separator is between them, and it says by how much; what    *)
(* was shown before a list began or ended does not count.                    *)
GapsAreReal ==
  \A i \in DOMAIN screen :
    /\ screen[i].line = "gap" =>
         /\ i - 1 \in DOMAIN screen /\ i + 1 \in DOMAIN screen
         /\ screen[i-1].line = "message" /\ screen[i+1].line = "message"
         /\ screen[i].time = screen[i+1].time - screen[i-1].time
         /\ screen[i].time > 1
    /\ screen[i].line = "message" /\ i + 1 \in DOMAIN screen /\ screen[i+1].line = "message" =>
         screen[i+1].time - screen[i].time <= 1

(* Until a filter or connection command is given, what was shown as it came  *)
(* is what a list without an argument would show again.                      *)
LiveIsListed == undisturbed => live = Matching(display_matcher, all_messages)
==============================================================================
