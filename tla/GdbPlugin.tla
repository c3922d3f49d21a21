------------------------------ MODULE GdbPlugin ------------------------------
(* GDB mode (backends/gdb_plugin/plugin.py): the plugin lives inside GDB,    *)
(* which calls it when the debugged program reaches a breakpoint on a        *)
(* function of libwayland and when the user issues a wl command.  It feeds   *)
(* the connection manager and keeps a dictionary of connections of its own;  *)
(* a PersistentUIState (core/persistent_ui_state.py) that the controller     *)
(* writes tells it whether the program shall stay stopped.                   *)
(*                                                                           *)
(* GDB has one thread: a callback runs to its end before the program or the  *)
(* user can do anything.  process_message calls the manager twice, so it is  *)
(* split in two actions.  GDB and the program are modelled as the code       *)
(* relies on them: stop() decides whether the program stops, and it stops    *)
(* when stop() raises.  A connection of the program is an instance, numbered *)
(* in the order they were made; its address, which is the id the plugin      *)
(* uses, may be used again.  The content of a message is its instance.       *)
EXTENDS ConnectionManager

CONSTANTS
  MaxInstances,   \* bound: connections the program makes
  MaxRuns         \* bound: how often the user starts the program

ASSUME PluginAssumption ==
  /\ MaxInstances \in Nat /\ MaxRuns \in Nat
  /\ 1..MaxInstances \subseteq Payloads
  /\ "none" \notin ConnIds

VARIABLES
  gdb,            \* "prompt", "running", "gone", or in process_message: "open", "message"
  live,           \* is there a process
  clients,        \* address -> the instance that lives there, 0 for none
  instances,      \* how many instances the program has made
  connections,    \* Plugin.connections: id -> connection, 0 for none
  paused,         \* PersistentUIState
  should_quit,
  hit,            \* the message being processed: its connection id, and
                  \* whether it matches the breakpoint matcher
  command,        \* the last wl command
  runs            \* how often the program was started

programVars == <<live, clients, instances, runs>>
pluginVars == <<connections, paused, should_quit, hit, command>>
vars == <<managerVars, gdb, programVars, pluginVars>>

NoHit == [conn |-> "none", stop |-> FALSE]

PluginInit ==
  /\ Init
  /\ gdb = "prompt"
  /\ live = FALSE
  /\ clients = [id \in ConnIds |-> 0]
  /\ instances = 0
  /\ connections = [id \in ConnIds |-> 0]
  /\ paused = FALSE /\ should_quit = FALSE
  /\ hit = NoHit
  /\ command = "none"
  /\ runs = 0

------------------------------------------------------------------------------
(* The program *)

Connects(id) ==
  /\ gdb = "running"
  /\ clients[id] = 0 /\ instances < MaxInstances
  /\ instances' = instances + 1
  /\ clients' = [clients EXCEPT ![id] = instances + 1]
  /\ UNCHANGED <<managerVars, gdb, live, runs, pluginVars>>

(* The process ends, or is killed: nothing tells the plugin.                 *)
ProcessEnds ==
  /\ gdb = "running"
  /\ gdb' = "prompt" /\ live' = FALSE
  /\ clients' = [id \in ConnIds |-> 0]
  /\ UNCHANGED <<managerVars, instances, runs, pluginVars>>

(* The user interrupts the program, or a breakpoint of the user's is hit.    *)
Stops ==
  /\ gdb = "running"
  /\ gdb' = "prompt"
  /\ UNCHANGED <<managerVars, programVars, pluginVars>>

------------------------------------------------------------------------------
(* Breakpoints *)

(* Mutant: a pause of before is not ended by the message that shows that the *)
(* program runs again.                                                       *)
StalePause(id, stop) ==
  /\ gdb = "running" /\ clients[id] # 0
  /\ connections[id] = 0 => Len(connection_list) < MaxConnections
  /\ connections[id] # 0 => Len(connection_list[connections[id]].stored) < MaxStored
  /\ hit' = [conn |-> id, stop |-> stop]
  /\ gdb' = IF connections[id] = 0 THEN "open" ELSE "message"
  /\ UNCHANGED <<managerVars, programVars, connections, paused, should_quit, command>>

(* WlClosureCallBreakpoint.stop, up to the first call of the manager.  The   *)
(* user may have continued with GDB's own command, of which the plugin only  *)
(* learns by the next message.                                               *)
MessageBreakpoint(id, stop) ==
  /\ gdb = "running" /\ clients[id] # 0
  /\ connections[id] = 0 => Len(connection_list) < MaxConnections
  /\ connections[id] # 0 => Len(connection_list[connections[id]].stored) < MaxStored
  /\ paused' = FALSE
  /\ hit' = [conn |-> id, stop |-> stop]
  /\ gdb' = IF connections[id] = 0 THEN "open" ELSE "message"
  /\ UNCHANGED <<managerVars, programVars, connections, should_quit, command>>

PluginOpens ==
  /\ gdb = "open"
  /\ OpenConnection(hit.conn)
  /\ connections' = [connections EXCEPT ![hit.conn] = Len(connection_list')]
  /\ gdb' = "message"
  /\ UNCHANGED <<programVars, paused, should_quit, hit, command>>

(* The controller, told of the message, asks for a pause when the breakpoint *)
(* matcher matches it; stop() returns paused().  When the manager raises the *)
(* controller is told nothing, and the exception stops the program.          *)
PluginMessage ==
  /\ gdb = "message"
  /\ Message(hit.conn, clients[hit.conn])
  /\ paused' = (paused \/ (raised' = "none" /\ hit.stop))
  /\ gdb' = IF paused' \/ raised' # "none" THEN "prompt" ELSE "running"
  /\ hit' = NoHit
  /\ UNCHANGED <<programVars, connections, should_quit, command>>

(* Mutants: nobody hears of the end; the plugin's dictionary is left alone.  *)
DestroyUnnoticed(id) ==
  /\ gdb = "running" /\ clients[id] # 0
  /\ clients' = [clients EXCEPT ![id] = 0]
  /\ UNCHANGED <<managerVars, gdb, live, instances, runs, pluginVars>>

DestroyKeeping(id) ==
  /\ gdb = "running" /\ clients[id] # 0
  /\ clients' = [clients EXCEPT ![id] = 0]
  /\ \/ /\ connections[id] # 0
        /\ CloseConnection(id)
        /\ UNCHANGED <<connections, gdb>>
     \/ /\ connections[id] = 0
        /\ raised' = "KeyError"
        /\ gdb' = "prompt"
        /\ UNCHANGED <<connection_list, open_connections, events, connections>>
  /\ UNCHANGED <<live, instances, runs, paused, should_quit, hit, command>>

(* WlConnectionDestroyBreakpoint.stop.  A connection without messages is not *)
(* in the dictionary: del raises.                                            *)
DestroyBreakpoint(id) ==
  /\ gdb = "running" /\ clients[id] # 0
  /\ clients' = [clients EXCEPT ![id] = 0]
  /\ \/ /\ connections[id] # 0
        /\ connections' = [connections EXCEPT ![id] = 0]
        /\ CloseConnection(id)
        /\ UNCHANGED gdb
     \/ /\ connections[id] = 0
        /\ raised' = "KeyError"
        /\ gdb' = "prompt"
        /\ UNCHANGED <<connection_list, open_connections, events, connections>>
  /\ UNCHANGED <<live, instances, runs, paused, should_quit, hit, command>>

------------------------------------------------------------------------------
(* The user *)

(* GDB's own run: a process that is still there is killed.                   *)
Run ==
  /\ gdb = "prompt" /\ runs < MaxRuns
  /\ runs' = runs + 1
  /\ live' = TRUE /\ gdb' = "running"
  /\ clients' = [id \in ConnIds |-> 0]
  /\ UNCHANGED <<managerVars, instances, pluginVars>>

(* GDB's own continue.                                                       *)
Continue ==
  /\ gdb = "prompt" /\ live
  /\ gdb' = "running"
  /\ UNCHANGED <<managerVars, programVars, pluginVars>>

(* Plugin.invoke_command.  GDB asks before it quits while a process lives,   *)
(* and refuses to continue when there is none.                               *)
WlCommand(c) ==
  /\ gdb = "prompt"
  /\ command' = c
  /\ paused' = (c # "resume")
  /\ should_quit' = (should_quit \/ c = "quit")
  /\ \/ should_quit' /\ gdb' = "gone"
     \/ should_quit' /\ live /\ gdb' = "prompt"
     \/ ~should_quit' /\ ~paused' /\ live /\ gdb' = "running"
     \/ ~should_quit' /\ (paused' \/ ~live) /\ gdb' = "prompt"
  /\ UNCHANGED <<managerVars, programVars, connections, hit>>

Program == ProcessEnds \/ Stops \/ \E id \in ConnIds : Connects(id)

Plugin ==
  \/ \E id \in ConnIds :
       \/ \E stop \in BOOLEAN : MessageBreakpoint(id, stop)
       \/ DestroyBreakpoint(id)
  \/ PluginOpens \/ PluginMessage

User == Run \/ Continue \/ \E c \in {"resume", "quit", "other"} : WlCommand(c)

Next == Program \/ Plugin \/ User

Spec == PluginInit /\ [][Next]_vars

------------------------------------------------------------------------------
(* Properties *)

(* Types, and which ids process_message is called with at each of its steps. *)
PluginTypeOK ==
  /\ gdb \in {"prompt", "running", "open", "message", "gone"}
  /\ clients \in [ConnIds -> 0..instances]
  /\ instances \in 0..MaxInstances
  /\ connections \in [ConnIds -> 0..Len(connection_list)]
  /\ {live, paused, should_quit} \subseteq BOOLEAN
  /\ hit = NoHit \/ (hit.conn \in ConnIds /\ hit.stop \in BOOLEAN)
  /\ gdb \in {"open", "message"} <=> hit # NoHit
  /\ gdb = "open" => connections[hit.conn] = 0
  /\ gdb = "message" => connections[hit.conn] # 0
  /\ command \in {"none", "resume", "quit", "other"}
  /\ runs \in 0..MaxRuns

(* The plugin's dictionary and the manager's name the same connections, so   *)
(* that the manager never refuses a message of the plugin and no message     *)
(* reopens a connection.                                                     *)
DictionariesAgree == connections = open_connections

(* While the program has run only once, a connection of wayland-debug stands *)
(* for one connection of the program: no messages of two are mixed, though   *)
(* addresses are reused, and those of one are never split.                   *)
OneInstanceEach ==
  runs <= 1 =>
    \A c, d \in Connections :
      \A i \in 1..Len(connection_list[c].stored), j \in 1..Len(connection_list[d].stored) :
        connection_list[c].stored[i] = connection_list[d].stored[j] <=> c = d

(* A message stops the program exactly when it matches the breakpoint        *)
(* matcher or its handling raised: never because of a pause from before,     *)
(* whether that was ended by wl resume, by GDB's continue or by a new run.   *)
StopsExactlyAtMatches ==
  [][gdb = "message" =>
       (gdb' = "prompt" <=> hit.stop \/ raised' # "none")]_vars

(* interfaces/connection_id_sink.py: connection_id is "the unique ID of the  *)
(* connection this message was on"; so a connection holds no messages of     *)
(* another one.                                                              *)
MessagesOfOneConnection ==
  \A c \in Connections :
    \A i, j \in 1..Len(connection_list[c].stored) :
      connection_list[c].stored[i] = connection_list[c].stored[j]
==============================================================================
