--------------------------- MODULE ObjectLifetimes ---------------------------
(* What the object database of one Wayland connection promises, without      *)
(* messages, logs or times: an id names a sequence of objects (generations), *)
(* at most the newest of which is alive.                                     *)
(* An object of the client dies only by an explicit delete; an object of the *)
(* server also dies when its id is used again, for the log never says that   *)
(* the server has freed an id.                                               *)
EXTENDS Naturals

CONSTANTS
  Ids,        \* object ids, from 1, which is the wl_display of the connection
  ServerIds,  \* the ids the server allocates (0xff000000 and above)
  Types,      \* interface names
  Dead        \* not a type: no generation of the id is alive

VARIABLES
  generations,  \* how many objects an id has named so far
  live          \* the type of the object an id names, or Dead

vars == <<generations, live>>

TypeOK ==
  /\ generations \in [Ids -> Nat]
  /\ live \in [Ids -> Types \cup {Dead}]

Init ==
  /\ generations = [id \in Ids |-> IF id = 1 THEN 1 ELSE 0]
  /\ live = [id \in Ids |-> IF id = 1 THEN "wl_display" ELSE Dead]

(* An id can be given to a new object when nothing alive holds it, or when   *)
(* the holder belongs to the server.  The display is never replaced.         *)
Create(id, type) ==
  /\ id > 1
  /\ live[id] = Dead \/ id \in ServerIds
  /\ generations' = [generations EXCEPT ![id] = @ + 1]
  /\ live' = [live EXCEPT ![id] = type]

(* An explicit delete of an id that was used before.                         *)
Delete(id) ==
  /\ generations[id] > 0
  /\ live' = [live EXCEPT ![id] = Dead]
  /\ UNCHANGED generations

Next ==
  \E id \in Ids :
    \/ \E type \in Types : Create(id, type)
    \/ Delete(id)

Spec == Init /\ [][Next]_vars
==============================================================================
