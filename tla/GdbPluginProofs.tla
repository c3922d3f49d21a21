--------------------------- MODULE GdbPluginProofs ---------------------------
(* Theorems about GdbPlugin for any set of addresses, any number of          *)
(* connections and runs of the program, and any order of breakpoints and     *)
(* commands.                                                                 *)
EXTENDS GdbPlugin, ManagerProofs

(* While a message is processed its address is in use, and the pause of      *)
(* before is over.                                                           *)
HitIsLive == hit # NoHit => clients[hit.conn] # 0 /\ ~paused

(* Everything PluginTypeOK says but the range of connections, which follows  *)
(* from the two dictionaries being equal.                                    *)
OwnTypes ==
  /\ gdb \in {"prompt", "running", "open", "message", "gone"}
  /\ clients \in [ConnIds -> 0..instances]
  /\ instances \in 0..MaxInstances
  /\ live \in BOOLEAN /\ paused \in BOOLEAN /\ should_quit \in BOOLEAN
  /\ hit = NoHit \/ (hit.conn \in ConnIds /\ hit.stop \in BOOLEAN)
  /\ gdb \in {"open", "message"} <=> hit # NoHit
  /\ gdb = "open" => connections[hit.conn] = 0
  /\ gdb = "message" => connections[hit.conn] # 0
  /\ command \in {"none", "resume", "quit", "other"}
  /\ runs \in 0..MaxRuns

(* The inductive invariant.                                                  *)
PInv == Inv /\ OwnTypes /\ DictionariesAgree /\ HitIsLive

(* The invariant implies the type invariant of the plugin.                   *)
LEMMA InvTypes ==
  ASSUME PInv
  PROVE  PluginTypeOK
<1>1. connections \in [ConnIds -> 0..Len(connection_list)]
  <2>1. Len(connection_list) \in Nat /\ Connections = 1..Len(connection_list)
    BY DEF PInv, Inv, RecordsOK, Connections
  <2>2. open_connections \in [ConnIds -> Nat]
    BY DEF PInv, Inv, RecordsOK
  <2>3. \A id \in ConnIds : open_connections[id] \in 0..Len(connection_list)
    <3>1. SUFFICES ASSUME NEW id \in ConnIds
                   PROVE  open_connections[id] \in 0..Len(connection_list)
      OBVIOUS
    <3>2. open_connections[id] = 0 \/ open_connections[id] \in 1..Len(connection_list)
      BY <2>1 DEF PInv, Inv, OpenIsReachable, IsOpen
    <3>3. QED
      BY <2>1, <3>2
  <2>4. QED
    BY <2>2, <2>3 DEF PInv, DictionariesAgree
<1>2. QED
  BY <1>1 DEF PInv, OwnTypes, PluginTypeOK

(* Steps that leave the manager alone leave its invariant alone.             *)
LEMMA ManagerUnchanged ==
  ASSUME Inv, UNCHANGED <<connection_list, open_connections, events>>
  PROVE  Inv'
  BY DEF Inv, RecordsOK, OpenIsReachable, OnlyNewestOpen, Connections, IsOpen

(* What the program does.                                                    *)
LEMMA ProgramKeepsInv ==
  ASSUME PInv, Program
  PROVE  PInv'
<1>1. hit = NoHit /\ UNCHANGED <<managerVars, pluginVars>>
  BY DEF Program, Connects, ProcessEnds, Stops, PInv, OwnTypes
<1>2. Inv' /\ DictionariesAgree' /\ HitIsLive'
  BY <1>1, ManagerUnchanged DEF PInv, managerVars, pluginVars, DictionariesAgree, HitIsLive
<1>3. OwnTypes'
  <2>1. CASE \E id \in ConnIds : Connects(id)
    <3>1. PICK id \in ConnIds : Connects(id)
      BY <2>1
    <3>2. /\ instances \in Nat /\ instances' = instances + 1 /\ instances' \in 0..MaxInstances
          /\ clients' \in [ConnIds -> 0..instances']
      BY <3>1, PluginAssumption DEF Connects, PInv, OwnTypes
    <3>3. QED
      BY <1>1, <3>1, <3>2 DEF Connects, PInv, OwnTypes, pluginVars, NoHit
  <2>2. CASE ProcessEnds
    <3>1. clients' = [id \in ConnIds |-> 0] /\ live' = FALSE /\ instances \in Nat
      BY <2>2, PluginAssumption DEF ProcessEnds, PInv, OwnTypes
    <3>2. clients' \in [ConnIds -> 0..instances]
      BY <3>1
    <3>3. QED
      BY <1>1, <2>2, <3>1, <3>2 DEF ProcessEnds, PInv, OwnTypes, pluginVars, NoHit
  <2>3. CASE Stops
    BY <1>1, <2>3 DEF Stops, PInv, OwnTypes, pluginVars, programVars, NoHit
  <2>4. QED
    BY <2>1, <2>2, <2>3 DEF Program
<1>4. QED
  BY <1>2, <1>3 DEF PInv

(* What the user does.                                                       *)
LEMMA UserKeepsInv ==
  ASSUME PInv, User
  PROVE  PInv'
<1>1. hit = NoHit /\ UNCHANGED <<managerVars, hit, connections, instances>>
  BY DEF User, Run, Continue, WlCommand, PInv, OwnTypes, pluginVars, programVars
<1>2. Inv' /\ DictionariesAgree' /\ HitIsLive'
  BY <1>1, ManagerUnchanged DEF PInv, managerVars, DictionariesAgree, HitIsLive
<1>3. OwnTypes'
  <2>1. CASE Run
    <3>1. clients' \in [ConnIds -> 0..instances] /\ live' \in BOOLEAN /\ runs' \in 0..MaxRuns
      BY <2>1, PluginAssumption DEF Run, PInv, OwnTypes
    <3>2. QED
      BY <1>1, <2>1, <3>1 DEF Run, PInv, OwnTypes, pluginVars, NoHit
  <2>2. CASE Continue
    BY <1>1, <2>2 DEF Continue, PInv, OwnTypes, pluginVars, programVars, NoHit
  <2>3. CASE \E c \in {"resume", "quit", "other"} : WlCommand(c)
    BY <1>1, <2>3 DEF WlCommand, PInv, OwnTypes, programVars, NoHit
  <2>4. QED
    BY <2>1, <2>2, <2>3 DEF User
<1>4. QED
  BY <1>2, <1>3 DEF PInv
(* A breakpoint on a message: the dictionaries are looked at, not changed.   *)
LEMMA BreakpointKeepsInv ==
  ASSUME PInv, NEW id \in ConnIds, NEW stop \in BOOLEAN, MessageBreakpoint(id, stop)
  PROVE  PInv'
<1>1. /\ UNCHANGED <<managerVars, programVars, connections, should_quit, command>>
      /\ paused' = FALSE /\ clients[id] # 0
      /\ hit' = [conn |-> id, stop |-> stop]
      /\ gdb' = IF connections[id] = 0 THEN "open" ELSE "message"
  BY DEF MessageBreakpoint
<1>2. hit'.conn = id /\ hit'.stop = stop /\ hit' # NoHit
  BY <1>1, PluginAssumption DEF NoHit
<1>3. Inv' /\ DictionariesAgree' /\ HitIsLive'
  BY <1>1, <1>2, ManagerUnchanged DEF PInv, managerVars, programVars, DictionariesAgree, HitIsLive
<1>4. OwnTypes'
  BY <1>1, <1>2 DEF PInv, OwnTypes, programVars
<1>5. QED
  BY <1>3, <1>4 DEF PInv

(* The first message of an address opens a connection in both dictionaries.  *)
LEMMA OpensKeepsInv ==
  ASSUME PInv, PluginOpens
  PROVE  PInv'
<1> DEFINE n == Len(connection_list) + 1
<1>1. /\ gdb = "open" /\ gdb' = "message"
      /\ OpenConnection(hit.conn)
      /\ connections' = [connections EXCEPT ![hit.conn] = Len(connection_list')]
      /\ UNCHANGED <<programVars, paused, should_quit, hit, command>>
  BY DEF PluginOpens
<1>2. hit # NoHit /\ hit.conn \in ConnIds
  BY <1>1 DEF PInv, OwnTypes
<1>3. Inv'
  BY <1>1, <1>2, OpenKeepsInv DEF PInv
<1>4. n \in Nat \ {0} /\ Len(connection_list') = n
  <2> DEFINE e == [id |-> hit.conn, open |-> TRUE, stored |-> <<>>]
  <2>1. Closed(hit.conn) \in Seq(Entry) /\ Len(Closed(hit.conn)) = Len(connection_list)
    BY <1>2, ClosedEffect DEF PInv
  <2>2. connection_list' = Append(Closed(hit.conn), e)
    BY <1>1 DEF OpenConnection
  <2>3. Len(connection_list) \in Nat
    BY DEF PInv, Inv, RecordsOK
  <2>4. e \in Entry
    BY <1>2 DEF Entry
  <2> HIDE DEF e
  <2>5. QED
    BY <2>1, <2>2, <2>3, <2>4
<1>5. open_connections' = [open_connections EXCEPT ![hit.conn] = n]
  BY <1>1 DEF OpenConnection
<1>6. DictionariesAgree'
  BY <1>1, <1>4, <1>5 DEF PInv, DictionariesAgree
<1>7. connections'[hit.conn] = n
  BY <1>1, <1>2, <1>4 DEF PInv, Inv, RecordsOK, DictionariesAgree
<1>8. OwnTypes' /\ HitIsLive'
  BY <1>1, <1>2, <1>4, <1>7 DEF PInv, OwnTypes, HitIsLive, programVars, NoHit
<1>9. QED
  BY <1>3, <1>6, <1>8 DEF PInv

(* A message goes to the connection its address leads to.                    *)
LEMMA PluginMessageKeepsInv ==
  ASSUME PInv, PluginMessage
  PROVE  PInv'
<1>1. /\ gdb = "message" /\ gdb' \in {"prompt", "running"}
      /\ Message(hit.conn, clients[hit.conn])
      /\ paused' = (paused \/ (raised' = "none" /\ hit.stop))
      /\ hit' = NoHit
      /\ UNCHANGED <<programVars, connections, should_quit, command>>
  BY DEF PluginMessage
<1>2. hit # NoHit /\ hit.conn \in ConnIds /\ hit.stop \in BOOLEAN
  BY <1>1 DEF PInv, OwnTypes
<1>3. clients[hit.conn] \in Payloads
  <2>1. clients[hit.conn] \in 0..instances /\ instances \in 0..MaxInstances /\ clients[hit.conn] # 0
    BY <1>2 DEF PInv, OwnTypes, HitIsLive
  <2>2. clients[hit.conn] \in 1..MaxInstances
    BY <2>1, PluginAssumption
  <2>3. QED
    BY <2>2, PluginAssumption
<1>4. Inv'
  BY <1>1, <1>2, <1>3, MessageKeepsInv DEF PInv
<1>5. open_connections' = open_connections
  BY <1>1 DEF Message, MessageRefused, MessageAccepted
<1>6. DictionariesAgree' /\ HitIsLive'
  BY <1>1, <1>5 DEF PInv, DictionariesAgree, HitIsLive
<1>7. paused' \in BOOLEAN
  BY <1>1
<1>8. OwnTypes'
  BY <1>1, <1>7 DEF PInv, OwnTypes, programVars, NoHit
<1>9. QED
  BY <1>4, <1>6, <1>8 DEF PInv

(* A connection of the program ends: it leaves both dictionaries, or was in  *)
(* neither.                                                                  *)
LEMMA DestroyKeepsInv ==
  ASSUME PInv, NEW id \in ConnIds, DestroyBreakpoint(id)
  PROVE  PInv'
<1>1. /\ gdb = "running" /\ hit = NoHit
      /\ clients' = [clients EXCEPT ![id] = 0]
      /\ gdb' \in {"running", "prompt"}
      /\ UNCHANGED <<live, instances, runs, paused, should_quit, hit, command>>
  BY DEF DestroyBreakpoint, PInv, OwnTypes
<1>2. OwnTypes' /\ HitIsLive'
  <2>1. clients' \in [ConnIds -> 0..instances]
    BY <1>1, PluginAssumption DEF PInv, OwnTypes
  <2>2. QED
    BY <1>1, <2>1 DEF PInv, OwnTypes, HitIsLive, NoHit
<1>3. Inv' /\ DictionariesAgree'
  <2>1. CASE connections[id] # 0
    <3>1. CloseConnection(id) /\ connections' = [connections EXCEPT ![id] = 0]
      BY <2>1 DEF DestroyBreakpoint
    <3>2. open_connections' = [open_connections EXCEPT ![id] = 0]
      BY <3>1 DEF CloseConnection
    <3>3. QED
      BY <3>1, <3>2, CloseKeepsInv DEF PInv, DictionariesAgree
  <2>2. CASE connections[id] = 0
    BY <2>2, ManagerUnchanged DEF DestroyBreakpoint, PInv, DictionariesAgree
  <2>3. QED
    BY <2>1, <2>2
<1>4. QED
  BY <1>2, <1>3 DEF PInv

(* The invariant holds in every state of a session.                          *)
THEOREM PluginInvariant == Spec => []PInv
<1>1. PluginInit => PInv
  <2>1. SUFFICES ASSUME PluginInit PROVE PInv
    OBVIOUS
  <2>2. Inv
    BY <2>1 DEF PluginInit, Init, Inv, RecordsOK, OpenIsReachable, OnlyNewestOpen,
                Connections, IsOpen
  <2>3. clients \in [ConnIds -> 0..instances] /\ instances \in 0..MaxInstances /\ runs \in 0..MaxRuns
    BY <2>1, PluginAssumption DEF PluginInit
  <2>4. OwnTypes /\ HitIsLive
    BY <2>1, <2>3 DEF PluginInit, OwnTypes, HitIsLive
  <2>5. DictionariesAgree
    BY <2>1 DEF PluginInit, Init, DictionariesAgree
  <2>6. QED
    BY <2>2, <2>4, <2>5 DEF PInv
<1>2. PInv /\ [Next]_vars => PInv'
  <2>1. SUFFICES ASSUME PInv, [Next]_vars PROVE PInv'
    OBVIOUS
  <2>2. CASE Program
    BY <2>1, <2>2, ProgramKeepsInv
  <2>3. CASE Plugin
    BY <2>1, <2>3, BreakpointKeepsInv, OpensKeepsInv, PluginMessageKeepsInv, DestroyKeepsInv
    DEF Plugin
  <2>4. CASE User
    BY <2>1, <2>4, UserKeepsInv
  <2>5. CASE UNCHANGED vars
    <3>1. Inv'
      BY <2>1, <2>5, ManagerUnchanged DEF PInv, vars, managerVars
    <3>2. QED
      BY <2>1, <2>5, <3>1 DEF PInv, OwnTypes, DictionariesAgree, HitIsLive, vars, managerVars,
                              programVars, pluginVars, NoHit
  <2>6. QED
    BY <2>1, <2>2, <2>3, <2>4, <2>5 DEF Next
<1>3. QED
  BY <1>1, <1>2, PTL DEF Spec

(* The plugin's dictionary and the manager's are equal in every state, at    *)
(* every step of process_message: no message is refused by the manager's     *)
(* assert, and none opens a connection anew.                                 *)
THEOREM DictionariesStayEqual == Spec => []DictionariesAgree
<1>1. PInv => DictionariesAgree
  BY DEF PInv
<1>2. QED
  BY <1>1, PluginInvariant, PTL

(* The plugin is well typed, and calls the manager with the ids it should.   *)
THEOREM PluginTypeCorrect == Spec => []PluginTypeOK
<1>1. PInv => PluginTypeOK
  BY InvTypes
<1>2. QED
  BY <1>1, PluginInvariant, PTL

(* A message stops the program exactly when it matches the breakpoint        *)
(* matcher or when handling it raised; a pause from before never does.       *)
THEOREM StopsAreMatches == Spec => StopsExactlyAtMatches
<1> DEFINE Stop == gdb = "message" => (gdb' = "prompt" <=> hit.stop \/ raised' # "none")
<1>1. PInv /\ [Next]_vars => [Stop]_vars
  <2>1. SUFFICES ASSUME PInv, Next, gdb = "message"
                 PROVE  gdb' = "prompt" <=> hit.stop \/ raised' # "none"
    OBVIOUS
  <2>2. PluginMessage
    BY <2>1 DEF Next, Program, Connects, ProcessEnds, Stops, Plugin, MessageBreakpoint,
                PluginOpens, DestroyBreakpoint, User, Run, Continue, WlCommand
  <2>3. paused = FALSE /\ hit.stop \in BOOLEAN
    BY <2>1 DEF PInv, OwnTypes, HitIsLive
  <2>4. /\ paused' = (paused \/ (raised' = "none" /\ hit.stop))
        /\ gdb' = IF paused' \/ raised' # "none" THEN "prompt" ELSE "running"
    BY <2>2 DEF PluginMessage
  <2>5. QED
    BY <2>3, <2>4
<1>2. QED
  BY <1>1, PluginInvariant, PTL DEF Spec, StopsExactlyAtMatches
------------------------------------------------------------------------------
(* Instances *)

Stored(c) == connection_list[c].stored

(* The program makes connections only while it lives, and what is recorded   *)
(* of them was made by then.                                                 *)
OnlyLiveRuns ==
  /\ gdb \in {"running", "open", "message"} => live
  /\ live => runs # 0
  /\ runs = 0 => Connections = {}

(* Messages come from instances there were, and two addresses never have the *)
(* same one.                                                                 *)
InstancesOK ==
  /\ \A c \in Connections : \A i \in 1..Len(Stored(c)) : Stored(c)[i] \in 1..instances
  /\ \A a, b \in ConnIds : clients[a] # 0 /\ a # b => clients[a] # clients[b]

(* While the process lives an id in use stands for the instance at that      *)
(* address: the messages of the instance are those of the connection the id  *)
(* leads to.                                                                 *)
AddressesOK ==
  live =>
    \A id \in ConnIds :
      /\ connections[id] # 0 => clients[id] # 0
      /\ clients[id] # 0 =>
           \A c \in Connections : \A i \in 1..Len(Stored(c)) :
             Stored(c)[i] = clients[id] <=> connections[id] = c

OneEach ==
  \A c, d \in Connections : \A i \in 1..Len(Stored(c)), j \in 1..Len(Stored(d)) :
    Stored(c)[i] = Stored(d)[j] <=> c = d

(* What strengthens OneInstanceEach: it is inductive with PInv.              *)
FirstRunOK == OnlyLiveRuns /\ (runs <= 1 => InstancesOK /\ AddressesOK /\ OneEach)

(* A step of the program, or one of GDB's: nothing is stored.                *)
LEMMA ProgramKeepsFirstRun ==
  ASSUME PInv, FirstRunOK, Program
  PROVE  FirstRunOK'
<1>1. /\ UNCHANGED <<connection_list, connections, runs>> /\ gdb = "running"
      /\ live /\ instances \in Nat /\ clients \in [ConnIds -> 0..instances]
  BY PluginAssumption
  DEF Program, Connects, ProcessEnds, Stops, managerVars, pluginVars, programVars,
      FirstRunOK, OnlyLiveRuns, PInv, OwnTypes
<1>2. OnlyLiveRuns' /\ (OneEach => OneEach') /\ Connections' = Connections
  <2>1. Connections' = Connections
    BY <1>1 DEF Connections
  <2>2. gdb' = "prompt" \/ (gdb' = gdb /\ live' = live)
    BY DEF Program, Connects, ProcessEnds, Stops
  <2>3. live' => live
    BY DEF Program, Connects, ProcessEnds, Stops, programVars
  <2>4. OnlyLiveRuns'
    BY <1>1, <2>1, <2>2, <2>3 DEF FirstRunOK, OnlyLiveRuns
  <2>5. OneEach => OneEach'
    BY <1>1, <2>1 DEF OneEach, Stored
  <2>6. QED
    BY <2>1, <2>4, <2>5
<1>3. SUFFICES ASSUME runs <= 1
               PROVE  InstancesOK' /\ AddressesOK'
  BY <1>1, <1>2 DEF FirstRunOK
<1>4. InstancesOK /\ AddressesOK
  BY <1>3 DEF FirstRunOK
<1>5. CASE ProcessEnds
  <2>1. clients' = [id \in ConnIds |-> 0] /\ ~live' /\ instances' = instances
    BY <1>5 DEF ProcessEnds
  <2>2. QED
    BY <1>1, <1>2, <1>4, <2>1 DEF InstancesOK, AddressesOK, Stored
<1>6. CASE Stops
  BY <1>1, <1>2, <1>4, <1>6 DEF Stops, programVars, InstancesOK, AddressesOK, Stored
<1>7. CASE \E id \in ConnIds : Connects(id)
  <2>1. PICK id \in ConnIds : Connects(id)
    BY <1>7
  <2>2. /\ clients[id] = 0 /\ instances' = instances + 1 /\ live' = live
        /\ \A a \in ConnIds : clients'[a] = IF a = id THEN instances + 1 ELSE clients[a]
        /\ \A a \in ConnIds : clients[a] \in 0..instances
    BY <1>1, <2>1 DEF Connects
  <2>3. connections[id] = 0
    BY <1>1, <1>4, <2>2 DEF AddressesOK
  <2>4. InstancesOK'
    <3>1. \A a, b \in ConnIds : clients'[a] # 0 /\ a # b => clients'[a] # clients'[b]
      BY <1>1, <1>4, <2>2 DEF InstancesOK
    <3>2. \A c \in Connections : \A i \in 1..Len(Stored(c)) : Stored(c)[i] \in 1..instances + 1
      BY <1>1, <1>4 DEF InstancesOK
    <3>3. QED
      BY <1>1, <1>2, <2>2, <3>1, <3>2 DEF InstancesOK, Stored
  <2>5. AddressesOK'
    <3>1. 0 \notin Connections
      BY DEF Connections
    <3>2. \A c \in Connections : \A i \in 1..Len(Stored(c)) : Stored(c)[i] # instances + 1
      BY <1>1, <1>4 DEF InstancesOK
    <3>3. SUFFICES ASSUME NEW a \in ConnIds
                   PROVE  /\ connections[a] # 0 => clients'[a] # 0
                          /\ clients'[a] # 0 =>
                               \A c \in Connections : \A i \in 1..Len(Stored(c)) :
                                 Stored(c)[i] = clients'[a] <=> connections[a] = c
      BY <1>1, <1>2 DEF AddressesOK, Stored
    <3>4. CASE a = id
      BY <1>1, <2>2, <2>3, <3>1, <3>2, <3>4
    <3>5. CASE a # id
      BY <1>1, <1>4, <2>2, <3>5 DEF AddressesOK
    <3>6. QED
      BY <3>4, <3>5
  <2>6. QED
    BY <2>4, <2>5
<1>8. QED
  BY <1>5, <1>6, <1>7 DEF Program

(* What the user does: the first run starts with nothing recorded.           *)
LEMMA UserKeepsFirstRun ==
  ASSUME PInv, FirstRunOK, User
  PROVE  FirstRunOK'
<1>1. UNCHANGED <<connection_list, connections, instances>> /\ runs \in Nat
  BY DEF User, Run, Continue, WlCommand, managerVars, pluginVars, programVars, PInv, OwnTypes
<1>2. CASE Run
  <2>1. /\ runs' = runs + 1 /\ live' /\ Connections' = Connections
        /\ clients' = [id \in ConnIds |-> 0]
    BY <1>1, <1>2 DEF Run, Connections
  <2>2. OnlyLiveRuns'
    BY <1>1, <2>1 DEF OnlyLiveRuns
  <2>3. ASSUME runs' <= 1 PROVE InstancesOK' /\ AddressesOK' /\ OneEach'
    <3>1. runs = 0 /\ Connections = {}
      BY <1>1, <2>1, <2>3 DEF FirstRunOK, OnlyLiveRuns
    <3>2. \A id \in ConnIds : connections[id] = 0
      BY <3>1 DEF PInv, DictionariesAgree, Inv, OpenIsReachable, IsOpen
    <3>3. QED
      BY <1>1, <2>1, <3>1, <3>2 DEF InstancesOK, AddressesOK, OneEach
  <2>4. QED
    BY <2>2, <2>3 DEF FirstRunOK
<1>3. CASE Continue \/ \E c \in {"resume", "quit", "other"} : WlCommand(c)
  <2>1. UNCHANGED <<programVars, connection_list, connections>> /\ (gdb' = "running" => live)
        /\ gdb' \notin {"open", "message"}
    BY <1>1, <1>3 DEF Continue, WlCommand
  <2>2. QED
    BY <2>1 DEF programVars, FirstRunOK, OnlyLiveRuns, InstancesOK, AddressesOK, OneEach,
                Connections, Stored
<1>4. QED
  BY <1>2, <1>3 DEF User

(* A breakpoint on a message stores nothing yet.                             *)
LEMMA BreakpointKeepsFirstRun ==
  ASSUME PInv, FirstRunOK, NEW id \in ConnIds, NEW stop \in BOOLEAN, MessageBreakpoint(id, stop)
  PROVE  FirstRunOK'
<1>1. UNCHANGED <<connection_list, programVars, connections>> /\ gdb = "running"
  BY DEF MessageBreakpoint, managerVars
<1>2. OnlyLiveRuns'
  BY <1>1 DEF programVars, FirstRunOK, OnlyLiveRuns, Connections
<1>3. ASSUME runs <= 1 PROVE InstancesOK' /\ AddressesOK' /\ OneEach'
  <2>1. InstancesOK /\ AddressesOK /\ OneEach
    BY <1>3 DEF FirstRunOK
  <2>2. InstancesOK'
    BY <1>1, <2>1 DEF programVars, InstancesOK, Connections, Stored
  <2>3. AddressesOK'
    BY <1>1, <2>1 DEF programVars, AddressesOK, Connections, Stored
  <2>4. OneEach'
    BY <1>1, <2>1 DEF programVars, OneEach, Connections, Stored
  <2>5. QED
    BY <2>2, <2>3, <2>4
<1>4. QED
  BY <1>1, <1>2, <1>3 DEF programVars, FirstRunOK

(* A new connection has nothing stored.                                      *)
LEMMA OpensKeepsFirstRun ==
  ASSUME PInv, FirstRunOK, PluginOpens
  PROVE  FirstRunOK'
<1> DEFINE n == Len(connection_list)
           id == hit.conn
<1>1. /\ gdb = "open" /\ gdb' = "message" /\ OpenConnection(id)
      /\ connections' = [connections EXCEPT ![id] = Len(connection_list')]
      /\ UNCHANGED programVars
  BY DEF PluginOpens
<1>2. /\ id \in ConnIds /\ connections[id] = 0 /\ clients[id] # 0 /\ live
  BY <1>1 DEF PInv, OwnTypes, HitIsLive, FirstRunOK, OnlyLiveRuns
<1>3. /\ n \in Nat /\ Connections = 1..n
      /\ connections \in [ConnIds -> Nat]
  BY DEF PInv, Inv, RecordsOK, Connections, DictionariesAgree
<1>4. /\ Connections' = 1..n+1 /\ Len(connection_list') = n + 1
      /\ connection_list'[n + 1].stored = <<>>
      /\ \A c \in 1..n : connection_list'[c].stored = Stored(c)
  <2> DEFINE e == [id |-> id, open |-> TRUE, stored |-> <<>>]
  <2>1. /\ Closed(id) \in Seq(Entry) /\ Len(Closed(id)) = n
        /\ \A c \in 1..n : Closed(id)[c].stored = Stored(c)
    BY <1>2, <1>3, ClosedEffect DEF PInv, Stored
  <2>2. connection_list' = Append(Closed(id), e)
    BY <1>1 DEF OpenConnection
  <2>3. e \in Entry /\ e.stored = <<>>
    BY <1>2 DEF Entry
  <2> HIDE DEF e
  <2>4. /\ Len(connection_list') = n + 1 /\ connection_list'[n + 1] = e
        /\ \A c \in 1..n : connection_list'[c] = Closed(id)[c]
    BY <1>3, <2>1, <2>2, <2>3
  <2>5. QED
    BY <1>3, <2>1, <2>3, <2>4 DEF Connections
<1>5. OnlyLiveRuns'
  BY <1>1, <1>2 DEF programVars, FirstRunOK, OnlyLiveRuns
<1>6. ASSUME runs <= 1 PROVE InstancesOK' /\ AddressesOK' /\ OneEach'
  <2>1. InstancesOK /\ AddressesOK /\ OneEach
    BY <1>6 DEF FirstRunOK
  <2>2. \A c \in Connections' : \A i \in 1..Len(Stored(c)') :
          c \in Connections /\ i \in 1..Len(Stored(c)) /\ Stored(c)'[i] = Stored(c)[i]
    <3>1. SUFFICES ASSUME NEW c \in 1..n+1, NEW i \in 1..Len(connection_list'[c].stored)
                   PROVE  /\ c \in 1..n /\ i \in 1..Len(Stored(c))
                          /\ connection_list'[c].stored[i] = Stored(c)[i]
      BY <1>3, <1>4 DEF Stored
    <3>2. c # n + 1
      BY <1>4, <3>1
    <3>3. c \in 1..n
      BY <1>3, <3>1, <3>2
    <3>4. QED
      BY <1>4, <3>1, <3>3
  <2>3. InstancesOK'
    BY <1>1, <2>1, <2>2 DEF programVars, InstancesOK
  <2>4. OneEach'
    BY <2>1, <2>2 DEF OneEach
  <2>5. AddressesOK'
    <3>1. SUFFICES ASSUME NEW a \in ConnIds
                   PROVE  /\ connections'[a] # 0 => clients[a] # 0
                          /\ clients[a] # 0 =>
                               \A c \in Connections' : \A i \in 1..Len(Stored(c)') :
                                 Stored(c)'[i] = clients[a] <=> connections'[a] = c
      BY <1>1 DEF programVars, AddressesOK
    <3>2. \A b \in ConnIds : connections'[b] = IF b = id THEN n + 1 ELSE connections[b]
      BY <1>1, <1>3, <1>4
    <3>3. CASE a = id
      <4>1. \A c \in Connections : c # 0 /\ c # n + 1
        BY <1>3
      <4>2. \A c \in Connections : \A i \in 1..Len(Stored(c)) : Stored(c)[i] # clients[id]
        BY <1>2, <2>1, <4>1 DEF AddressesOK
      <4>3. QED
        BY <1>2, <2>2, <3>2, <3>3, <4>1, <4>2
    <3>4. CASE a # id
      BY <1>2, <2>1, <2>2, <3>2, <3>4 DEF AddressesOK
    <3>5. QED
      BY <3>3, <3>4
  <2>6. QED
    BY <2>3, <2>4, <2>5
<1>7. QED
  BY <1>1, <1>5, <1>6 DEF FirstRunOK, programVars

(* A message adds the instance at its address to the connection of its id.   *)
LEMMA MessageKeepsFirstRun ==
  ASSUME PInv, FirstRunOK, PluginMessage
  PROVE  FirstRunOK'
<1> DEFINE n == Len(connection_list)
           id == hit.conn
           m == clients[id]
           o == connections[id]
<1>1. /\ gdb = "message" /\ Message(id, m) /\ gdb' \in {"prompt", "running"}
      /\ UNCHANGED <<programVars, connections>>
  BY DEF PluginMessage
<1>2. /\ id \in ConnIds /\ o # 0 /\ m # 0 /\ live
      /\ instances \in Nat /\ m \in 1..instances
  <2>1. /\ id \in ConnIds /\ o # 0 /\ m # 0 /\ live
        /\ clients \in [ConnIds -> 0..instances] /\ instances \in Nat
    BY <1>1, PluginAssumption DEF PInv, OwnTypes, HitIsLive, FirstRunOK, OnlyLiveRuns
  <2>2. m \in 0..instances
    BY <2>1
  <2>3. QED
    BY <2>1, <2>2
<1>3. m \in Payloads
  BY <1>2, PluginAssumption DEF PInv, OwnTypes
<1>4. /\ n \in Nat /\ Connections = 1..n
      /\ connection_list \in Seq(Entry)
  BY DEF PInv, Inv, RecordsOK, Connections, Entry
<1>5. /\ o = open_connections[id] /\ o \in 1..n /\ connection_list[o].id = id
      /\ \A a \in ConnIds : connections[a] # 0 => connection_list[connections[a]].id = a
  BY <1>2, <1>4 DEF PInv, DictionariesAgree, Inv, OpenIsReachable, IsOpen
<1>6. MessageAccepted(id, m)
  BY <1>1, <1>2, <1>5 DEF Message, MessageRefused, IsOpen
<1>7. /\ Connections' = 1..n
      /\ Stored(o) \in Seq(Payloads) /\ connection_list'[o].stored = Append(Stored(o), m)
      /\ \A c \in 1..n : c # o => connection_list'[c].stored = Stored(c)
  <2>1. connection_list[o] \in Entry
    BY <1>4, <1>5
  <2>2. Stored(o) \in Seq(Payloads)
    BY <2>1 DEF Entry, Stored
  <2>3. connection_list' =
          [connection_list EXCEPT ![o].stored = Append(connection_list[o].stored, m)]
    BY <1>5, <1>6 DEF MessageAccepted
  <2> DEFINE t == Append(connection_list[o].stored, m)
             e == [connection_list[o] EXCEPT !.stored = t]
  <2>4. e.stored = t /\ t = Append(Stored(o), m)
    BY <2>1 DEF Entry, Stored
  <2>5. connection_list' = [connection_list EXCEPT ![o] = e]
    BY <2>3
  <2> HIDE DEF e, t
  <2>6. /\ Len(connection_list') = n /\ connection_list'[o] = e
        /\ \A c \in 1..n : c # o => connection_list'[c] = connection_list[c]
    BY <1>4, <1>5, <2>5
  <2>7. QED
    BY <1>4, <2>2, <2>4, <2>6 DEF Connections, Stored
<1>8. OnlyLiveRuns'
  BY <1>1, <1>2, <1>4, <1>5, <1>7 DEF programVars, FirstRunOK, OnlyLiveRuns
<1>9. ASSUME runs <= 1 PROVE InstancesOK' /\ AddressesOK' /\ OneEach'
  <2>1. InstancesOK /\ AddressesOK /\ OneEach
    BY <1>9 DEF FirstRunOK
  <2>2. ASSUME NEW c \in Connections', NEW i \in 1..Len(Stored(c)')
        PROVE  \/ c = o /\ Stored(c)'[i] = m
               \/ c \in Connections /\ i \in 1..Len(Stored(c)) /\ Stored(c)'[i] = Stored(c)[i]
    <3>1. CASE c = o
      <4>1. Stored(c)' = Append(Stored(o), m) /\ Len(Stored(o)) \in Nat
        <5>1. Len(Stored(o)) \in Nat
          BY <1>7
        <5>2. connection_list'[c].stored = Append(Stored(o), m)
          BY <1>7, <3>1
        <5>3. QED
          BY <5>1, <5>2 DEF Stored
      <4>2. i \in 1..Len(Stored(o)) + 1
        BY <1>3, <1>7, <2>2, <4>1
      <4>3. Stored(c)'[i] = IF i = Len(Stored(o)) + 1 THEN m ELSE Stored(o)[i]
        BY <1>3, <1>7, <4>1, <4>2
      <4>4. QED
        BY <1>4, <1>5, <3>1, <4>1, <4>2, <4>3
    <3>2. CASE c # o
      BY <1>4, <1>7, <2>2, <3>2 DEF Stored
    <3>3. QED
      BY <3>1, <3>2
  <2>3. \A c \in Connections : \A i \in 1..Len(Stored(c)) : Stored(c)[i] = m <=> c = o
    BY <1>2, <2>1 DEF AddressesOK
  <2>4. InstancesOK'
    BY <1>1, <1>2, <2>1, <2>2 DEF programVars, InstancesOK
  <2>5. OneEach'
    <3>1. SUFFICES ASSUME NEW c \in Connections', NEW d \in Connections',
                          NEW i \in 1..Len(Stored(c)'), NEW j \in 1..Len(Stored(d)')
                   PROVE  Stored(c)'[i] = Stored(d)'[j] <=> c = d
      BY DEF OneEach
    <3>2. \/ c = o /\ Stored(c)'[i] = m
          \/ c \in Connections /\ i \in 1..Len(Stored(c)) /\ Stored(c)'[i] = Stored(c)[i]
      BY <2>2
    <3>3. \/ d = o /\ Stored(d)'[j] = m
          \/ d \in Connections /\ j \in 1..Len(Stored(d)) /\ Stored(d)'[j] = Stored(d)[j]
      BY <2>2
    <3>4. QED
      BY <2>1, <2>3, <3>2, <3>3 DEF OneEach
  <2>6. AddressesOK'
    <3>1. SUFFICES ASSUME NEW a \in ConnIds, clients[a] # 0,
                          NEW c \in Connections', NEW i \in 1..Len(Stored(c)')
                   PROVE  Stored(c)'[i] = clients[a] <=> connections[a] = c
      BY <1>1, <1>2, <2>1 DEF programVars, AddressesOK
    <3>2. clients[a] = m <=> a = id
      BY <1>2, <2>1, <3>1 DEF InstancesOK
    <3>3. connections[a] = o <=> a = id
      BY <1>2, <1>5
    <3>4. CASE c = o /\ Stored(c)'[i] = m
      BY <3>2, <3>3, <3>4
    <3>5. CASE c \in Connections /\ i \in 1..Len(Stored(c)) /\ Stored(c)'[i] = Stored(c)[i]
      BY <1>2, <2>1, <3>1, <3>5 DEF AddressesOK
    <3>6. QED
      BY <2>2, <3>4, <3>5
  <2>7. QED
    BY <2>4, <2>5, <2>6
<1>10. QED
  BY <1>1, <1>8, <1>9 DEF FirstRunOK, programVars

(* A connection that ends frees its address and its id together.             *)
LEMMA DestroyKeepsFirstRun ==
  ASSUME PInv, FirstRunOK, NEW id \in ConnIds, DestroyBreakpoint(id)
  PROVE  FirstRunOK'
<1> DEFINE n == Len(connection_list)
<1>1. /\ gdb = "running" /\ gdb' \in {"running", "prompt"} /\ live
      /\ clients' = [clients EXCEPT ![id] = 0]
      /\ UNCHANGED <<live, instances, runs>>
  BY DEF DestroyBreakpoint, FirstRunOK, OnlyLiveRuns
<1>2. /\ clients \in [ConnIds -> Nat] /\ connections \in [ConnIds -> Nat]
      /\ Connections = 1..n /\ n \in Nat
  <2>1. clients \in [ConnIds -> 0..instances] /\ instances \in Nat
    BY PluginAssumption DEF PInv, OwnTypes
  <2>2. clients \in [ConnIds -> Nat]
    BY <2>1
  <2>3. QED
    BY <2>2 DEF PInv, DictionariesAgree, Inv, RecordsOK, Connections
<1>3. /\ Connections' = Connections
      /\ \A c \in Connections : connection_list'[c].stored = Stored(c)
      /\ \A a \in ConnIds : connections'[a] = IF a = id THEN 0 ELSE connections[a]
  <2>1. CASE connections[id] # 0
    <3>1. /\ connection_list' = Closed(id)
          /\ connections' = [connections EXCEPT ![id] = 0]
      BY <2>1 DEF DestroyBreakpoint, CloseConnection
    <3>2. QED
      BY <1>2, <3>1, ClosedEffect, ZenonT(30) DEF PInv, Connections, Stored
  <2>2. CASE connections[id] = 0
    BY <1>2, <2>2 DEF DestroyBreakpoint, Connections, Stored
  <2>3. QED
    BY <2>1, <2>2
<1>4. \A a \in ConnIds : clients'[a] = IF a = id THEN 0 ELSE clients[a]
  BY <1>1, <1>2
<1>5. OnlyLiveRuns'
  BY <1>1, <1>3 DEF FirstRunOK, OnlyLiveRuns
<1>6. ASSUME runs <= 1 PROVE InstancesOK' /\ AddressesOK' /\ OneEach'
  <2>1. InstancesOK /\ AddressesOK /\ OneEach
    BY <1>6 DEF FirstRunOK
  <2>2. OneEach'
    BY <1>3, <2>1, SMTT(20) DEF OneEach, Stored
  <2>3. InstancesOK'
    BY <1>1, <1>3, <1>4, <2>1 DEF InstancesOK, Stored
  <2>4. AddressesOK'
    BY <1>1, <1>3, <1>4, <2>1 DEF AddressesOK, Stored
  <2>5. QED
    BY <2>2, <2>3, <2>4
<1>7. QED
  BY <1>1, <1>5, <1>6 DEF FirstRunOK

(* While the program has run only once no messages of two of its connections *)
(* are mixed, and those of one are never split, however addresses are reused *)
(* and whatever breakpoints raise.                                           *)
THEOREM OneInstancePerConnection == Spec => []OneInstanceEach
<1>1. PluginInit => FirstRunOK
  <2>1. SUFFICES ASSUME PluginInit PROVE FirstRunOK
    OBVIOUS
  <2>2. Connections = {}
    BY <2>1 DEF PluginInit, Init, Connections
  <2>3. QED
    BY <2>1, <2>2 DEF PluginInit, FirstRunOK, OnlyLiveRuns, InstancesOK, AddressesOK, OneEach
<1>2. PInv /\ FirstRunOK /\ [Next]_vars => FirstRunOK'
  <2>1. SUFFICES ASSUME PInv, FirstRunOK, [Next]_vars PROVE FirstRunOK'
    OBVIOUS
  <2>2. CASE Program
    BY <2>1, <2>2, ProgramKeepsFirstRun
  <2>3. CASE Plugin
    BY <2>1, <2>3, BreakpointKeepsFirstRun, OpensKeepsFirstRun, MessageKeepsFirstRun,
       DestroyKeepsFirstRun
    DEF Plugin
  <2>4. CASE User
    BY <2>1, <2>4, UserKeepsFirstRun
  <2>5. CASE UNCHANGED vars
    BY <2>1, <2>5 DEF vars, managerVars, programVars, pluginVars, FirstRunOK, OnlyLiveRuns,
                      InstancesOK, AddressesOK, OneEach, Connections, Stored
  <2>6. QED
    BY <2>1, <2>2, <2>3, <2>4, <2>5 DEF Next
<1>3. FirstRunOK => OneInstanceEach
  BY DEF FirstRunOK, OneEach, OneInstanceEach, Stored
<1>4. QED
  BY <1>1, <1>2, <1>3, PluginInvariant, PTL DEF Spec
==============================================================================
