----------------------------- MODULE Connection ------------------------------
(* One Wayland connection as wayland-debug tracks it: ConnectionImpl         *)
(* (core/connection_impl.py) together with the resolution of a message and   *)
(* of its arguments (core/wl/message.py, arg.py, object.py), which read and  *)
(* write its object database.                                                *)
(*                                                                           *)
(* ConnectionImpl.message is a handler of several steps, any of which may    *)
(* raise and leave what was done before it in place.  Each step is an action *)
(* here: the message is stored and its target resolved (Begin...), then each *)
(* argument is resolved in turn (Resolve...), then the listener is told and  *)
(* the title is detected (Finish).  While a handler runs (pc = "args") no    *)
(* other operation of the connection can start: the program has one thread   *)
(* that touches connections.                                                 *)
(*                                                                           *)
(* The time of an event is the position in message_list of the message that  *)
(* caused it: time stamps come from the messages and are used only to date   *)
(* births and deaths.  Generations are counted from 1; the code counts from  *)
(* 0.  Generation 0 stands for an object that could not be resolved.         *)
EXTENDS Integers, Sequences

CONSTANTS
  Ids,          \* object ids that occur
  ServerIds,    \* those at or above 0xff000000
  Types,        \* interface names that occur
  NoType,       \* a message or an argument that does not say its type (None)
  Strings,      \* values of string arguments
  Empty,        \* the empty string; also "no title" and "no app id"
  LastPart,     \* what follows the last '.' of a string
  Protocol,     \* loaded protocols: interface -> message -> number of arguments
  Messages,     \* the messages the backends can deliver
  MaxMessages   \* bound: how many messages a behaviour may deliver

Args ==
  [kind : {"int"}, value : Int]
  \cup [kind : {"string"}, value : Strings]
  \cup [kind : {"object"}, id : Ids, type : Types \cup {NoType}, is_new : BOOLEAN]
  \cup [kind : {"other"}]  \* null, float, fd, array, unknown

ASSUME ConnectionAssumption ==
  /\ Ids \subseteq Nat \ {0}
  /\ 1 \in Ids
  /\ ServerIds \subseteq Ids
  /\ 1 \notin ServerIds
  /\ "wl_display" \in Types
  /\ NoType \notin Types
  /\ Empty \in Strings
  /\ LastPart \in [Strings -> Strings]
  /\ LastPart[Empty] = Empty
  /\ Messages \subseteq [id : Ids, type : Types \cup {NoType},
                         name : STRING, args : Seq(Args)]
  /\ MaxMessages \in Nat

(* Only wl_registry.bind carries an interface name in a string argument.     *)
ASSUME BindAssumption ==
  \A m \in Messages : \A i \in 1..Len(m.args) :
    m.name = "bind" /\ i = 2 /\ m.args[i].kind = "string"
      => m.args[i].value \in Types

VARIABLES
  db,            \* id -> the objects it has named, oldest first
  message_list,  \* every message received, with what it was resolved to
  announced,     \* positions of the messages connection_got_new_message told of
  title,         \* title shown for the connection, Empty for none
  app_id,        \* app id, Empty for none
  open,          \* has close() not been called yet
  shown,         \* <<title, open>> when connection_str_changed was last called
  pc,            \* "idle", or "args" while a message is being resolved
  next,          \* the argument to resolve next
  raised         \* what the last handler raised, or "none"

vars == <<db, message_list, announced, title, app_id, open, shown, pc, next, raised>>

------------------------------------------------------------------------------
(* Objects and the database *)

NewObject(type, now) == [type |-> type, alive |-> TRUE, born |-> now, died |-> 0]

(* ObjectBase.destroy does not look at alive: a second delete_id moves the   *)
(* time of death.                                                            *)
Destroyed(obj, now) == [obj EXCEPT !.alive = FALSE, !.died = now]

LastOf(d, id) == d[id][Len(d[id])]

Used(d, id) == d[id] # <<>>

InUse(d, id) == Used(d, id) /\ LastOf(d, id).alive

(* Mutant: the time of death of every object the id has named is set.        *)
DestroyEvery(d, id, now) ==
  [d EXCEPT ![id] = [g \in 1..Len(@) |-> Destroyed(@[g], now)]]

DestroyLast(d, id, now) == [d EXCEPT ![id][Len(d[id])] = Destroyed(@, now)]

(* Mutants: the oldest object of the id; the type is not compared.           *)
RetrieveOldest(d, id, type) ==
  IF Used(d, id) /\ (type = NoType \/ d[id][1].type = type) THEN 1 ELSE 0

RetrieveAnyType(d, id, type) == IF Used(d, id) THEN Len(d[id]) ELSE 0

(* retrieve_object(id, -1, type): the newest generation, if the type fits.   *)
Retrieve(d, id, type) ==
  IF Used(d, id) /\ (type = NoType \/ LastOf(d, id).type = type)
  THEN Len(d[id])
  ELSE 0

(* Mutants: the missing type is not noticed; whoever holds the id loses it;  *)
(* an id of the client is never given again.                                 *)
CreatableUntyped(d, id, type) ==
  id > 1 /\ (InUse(d, id) => id \in ServerIds /\ ~(type = "wl_registry" /\ id = 2))

CreatableAlways(d, id, type) == type # NoType /\ id > 1

CreatableOnce(d, id, type) ==
  type # NoType /\ id > 1 /\ (Used(d, id) => id \in ServerIds)

(* create_object raises for the display's id and for an id that is in use,   *)
(* unless the server owns it; a second wl_registry@2 means that the log      *)
(* mixes several connections.  Arg.Object.resolve raises for a missing type. *)
Creatable(d, id, type) ==
  /\ type # NoType
  /\ id > 1
  /\ InUse(d, id) => id \in ServerIds /\ ~(type = "wl_registry" /\ id = 2)

(* Mutant: the server's object that held the id stays alive.                 *)
CreatedBesides(d, id, type, now) == [d EXCEPT ![id] = Append(@, NewObject(type, now))]

(* The database after create_object; the server's object that held the id    *)
(* is destroyed first.                                                       *)
Created(d, id, type, now) ==
  LET freed == IF InUse(d, id) THEN DestroyLast(d, id, now) ELSE d
  IN [freed EXCEPT ![id] = Append(@, NewObject(type, now))]

------------------------------------------------------------------------------
(* Messages *)

(* A stored message: what was received, the generation its target and each   *)
(* of its object arguments was resolved to, and the generation delete_id     *)
(* destroyed.                                                                *)
Stored(d, m) ==
  [msg |-> m, obj |-> Retrieve(d, m.id, m.type),
   objs |-> [i \in 1..Len(m.args) |-> 0], destroyed |-> 0]

TargetType(d, e) == IF e.obj = 0 THEN e.msg.type ELSE d[e.msg.id][e.obj].type

HasKind(m, i, kind) == i \in 1..Len(m.args) /\ m.args[i].kind = kind

IsBind(d, e) == TargetType(d, e) = "wl_registry" /\ e.msg.name = "bind"

IsDeleteId(e) ==
  e.msg.id = 1 /\ e.obj = 1 /\ e.msg.name = "delete_id" /\ e.msg.args # <<>>

(* The asserts of Message.resolve and Arg.Object.set_type about bind.        *)
GoodBind(m) ==
  /\ Len(m.args) = 4
  /\ HasKind(m, 2, "string")
  /\ HasKind(m, 4, "object")
  /\ m.args[4].type \in {NoType, m.args[2].value}

GoodDeleteId(d, m) ==
  HasKind(m, 1, "int") /\ m.args[1].value \in Ids /\ Used(d, m.args[1].value)

(* The type of an object argument; bind takes it from its string argument.   *)
ArgType(d, e, i) ==
  IF IsBind(d, e) /\ i = 4 THEN e.msg.args[2].value ELSE e.msg.args[i].type

(* protocol.get_arg raises for a message the interface does not have and for *)
(* an argument the message does not have; it knows nothing of an interface   *)
(* that is not loaded and does not check bind.                               *)
GetArgRaises(type, name, i) ==
  /\ type \in DOMAIN Protocol
  /\ <<type, name>> # <<"wl_registry", "bind">>
  /\ name \in DOMAIN Protocol[type] => i > Protocol[type][name]

------------------------------------------------------------------------------
(* ConnectionImpl.message *)

Init ==
  /\ db = [id \in Ids |-> IF id = 1 THEN <<NewObject("wl_display", 0)>> ELSE <<>>]
  /\ message_list = <<>>
  /\ announced = <<>>
  /\ title = Empty
  /\ app_id = Empty
  /\ open = TRUE
  /\ shown = <<Empty, TRUE>>
  /\ pc = "idle"
  /\ next = 1
  /\ raised = "none"

Now == Len(message_list)

Current == message_list[Now]

CanBegin == pc = "idle" /\ Now < MaxMessages

ListenerUnchanged == UNCHANGED <<announced, title, app_id, open, shown>>

(* Mutant: the exception is swallowed and the arguments are resolved.        *)
RaiseSwallowed(e) == pc' = "args" /\ next' = 1 /\ raised' = e

(* An exception leaves the handler: what it has done so far stays done, the  *)
(* listener is not told of the message.                                      *)
Raise(e) == pc' = "idle" /\ next' = 1 /\ raised' = e

(* resolve raises before it looks at the arguments.                          *)
BeginRaises(m) ==
  LET e == Stored(db, m)
  IN /\ CanBegin
     /\ \/ /\ IsBind(db, e) /\ ~GoodBind(m)
           /\ Raise("AssertionError")
        \/ /\ IsDeleteId(e) /\ ~HasKind(m, 1, "int")
           /\ Raise("AssertionError")
        \/ /\ IsDeleteId(e) /\ HasKind(m, 1, "int") /\ ~GoodDeleteId(db, m)
           /\ Raise("RuntimeError")
     /\ message_list' = Append(message_list, e)
     /\ UNCHANGED db
     /\ ListenerUnchanged

(* wl_display.delete_id: the newest object of the id is destroyed.           *)
BeginDeleteId(m) ==
  LET e == Stored(db, m)
      id == m.args[1].value
  IN /\ CanBegin
     /\ IsDeleteId(e) /\ GoodDeleteId(db, m)
     /\ message_list' = Append(message_list, [e EXCEPT !.destroyed = Len(db[id])])
     /\ db' = DestroyLast(db, id, Now + 1)
     /\ pc' = "args" /\ next' = 1 /\ raised' = "none"
     /\ ListenerUnchanged

(* Any other message.                                                        *)
BeginOther(m) ==
  LET e == Stored(db, m)
  IN /\ CanBegin
     /\ ~IsDeleteId(e)
     /\ IsBind(db, e) => GoodBind(m)
     /\ message_list' = Append(message_list, e)
     /\ pc' = "args" /\ next' = 1 /\ raised' = "none"
     /\ UNCHANGED db
     /\ ListenerUnchanged

------------------------------------------------------------------------------
(* Arg.resolve, for argument "next" of the current message *)

Arg == Current.msg.args[next]

AtArg == pc = "args" /\ next <= Len(Current.msg.args)

NameKnown == ~GetArgRaises(TargetType(db, Current), Current.msg.name, next)

(* The first thing every resolve does is to look up the argument's name.     *)
ResolveRaises ==
  /\ AtArg
  /\ ~NameKnown
  /\ Raise("RuntimeError")
  /\ UNCHANGED <<db, message_list>>
  /\ ListenerUnchanged

ResolvePlain ==
  /\ AtArg
  /\ NameKnown
  /\ Arg.kind # "object"
  /\ next' = next + 1
  /\ UNCHANGED <<db, message_list, pc, raised>>
  /\ ListenerUnchanged

(* Mutant: the argument is looked up before its object is created.           *)
ResolveArgBefore(d) ==
  /\ message_list' =
       [message_list EXCEPT ![Now].objs[next] =
          Retrieve(db, Arg.id, ArgType(db, Current, next))]
  /\ next' = next + 1
  /\ UNCHANGED <<pc, raised>>
  /\ ListenerUnchanged

(* The argument becomes the newest object of its id, whether it was just     *)
(* created, already there, or could not be created; or it stays unresolved.  *)
ResolveArgIn(d) ==
  /\ message_list' =
       [message_list EXCEPT ![Now].objs[next] =
          Retrieve(d, Arg.id, ArgType(db, Current, next))]
  /\ next' = next + 1
  /\ UNCHANGED <<pc, raised>>
  /\ ListenerUnchanged

ResolveNew ==
  /\ AtArg
  /\ NameKnown
  /\ Arg.kind = "object" /\ Arg.is_new
  /\ Creatable(db, Arg.id, ArgType(db, Current, next))
  /\ db' = Created(db, Arg.id, ArgType(db, Current, next), Now)
  /\ ResolveArgIn(db')

(* Either the argument is not new, or create_object raised: the error is     *)
(* logged and the argument is looked up all the same.                        *)
ResolveExisting ==
  /\ AtArg
  /\ NameKnown
  /\ Arg.kind = "object"
  /\ Arg.is_new => ~Creatable(db, Arg.id, ArgType(db, Current, next))
  /\ UNCHANGED db
  /\ ResolveArgIn(db)

------------------------------------------------------------------------------
(* The listener and the title *)

(* Empty when the argument is missing or not a string: the assert that fails *)
(* then, and the one that fails for an empty string, are both caught and     *)
(* leave the name of the connection alone.                                   *)
StringArg(m, i) == IF HasKind(m, i, "string") THEN m.args[i].value ELSE Empty

AppIdOf(m) == IF m.name = "set_app_id" THEN StringArg(m, 1) ELSE Empty

(* Mutant: set_title always sets the title.                                  *)
TitleOverwritten(m, old) ==
  CASE m.name = "set_app_id" -> LastPart[StringArg(m, 1)]
    [] m.name = "set_title" -> StringArg(m, 1)
    [] m.name = "get_layer_surface" -> StringArg(m, 5)
    [] OTHER -> Empty

(* What _set_title is called with, given the title so far.                   *)
TitleOf(m, old) ==
  CASE m.name = "set_app_id" -> LastPart[StringArg(m, 1)]
    [] m.name = "set_title" /\ old = Empty -> StringArg(m, 1)
    [] m.name = "get_layer_surface" -> StringArg(m, 5)
    [] OTHER -> Empty

Unless(new, old) == IF new = Empty THEN old ELSE new

(* An app id whose last part is empty sets the app id and then fails to set  *)
(* the title.                                                                *)
Finish ==
  /\ pc = "args" /\ next > Len(Current.msg.args)
  /\ announced' = Append(announced, Now)
  /\ app_id' = Unless(AppIdOf(Current.msg), app_id)
  /\ title' = Unless(TitleOf(Current.msg, title), title)
  /\ shown' = IF TitleOf(Current.msg, title) = Empty THEN shown ELSE <<title', open>>
  /\ pc' = "idle"
  /\ next' = 1
  /\ UNCHANGED <<db, message_list, open, raised>>

(* Mutant: the listener is not told that str(connection) has changed.        *)
CloseSilently ==
  /\ pc = "idle"
  /\ open' = FALSE
  /\ UNCHANGED <<db, message_list, announced, title, app_id, shown, pc, next, raised>>

Close ==
  /\ pc = "idle"
  /\ open' = FALSE
  /\ shown' = <<title, FALSE>>
  /\ UNCHANGED <<db, message_list, announced, title, app_id, pc, next, raised>>

Begin == \E m \in Messages : BeginRaises(m) \/ BeginDeleteId(m) \/ BeginOther(m)

Resolve == ResolveRaises \/ ResolvePlain \/ ResolveNew \/ ResolveExisting

Next == Begin \/ Resolve \/ Finish \/ Close

Spec == Init /\ [][Next]_vars
------------------------------------------------------------------------------
(* Properties *)

Object == [type : Types, alive : BOOLEAN, born : Nat, died : Nat]

Entry == [msg : Messages, obj : Nat, objs : Seq(Nat), destroyed : Nat]

(* Types of the state, and what a running handler may rely on: the message   *)
(* it resolves is the last one stored, and the stored bind it resolves has   *)
(* the arguments it reads.                                                   *)
TypeOK ==
  /\ db \in [Ids -> Seq(Object)]
  /\ message_list \in Seq(Entry)
  /\ announced \in Seq(Nat)
  /\ title \in Strings /\ app_id \in Strings
  /\ open \in BOOLEAN
  /\ shown \in Strings \X BOOLEAN
  /\ pc \in {"idle", "args"}
  /\ next \in Nat \ {0}
  /\ raised \in {"none", "RuntimeError", "AssertionError"}
  /\ pc = "args" => message_list # <<>>

(* Ids are reused, and each use is an object of its own: at most the newest  *)
(* object of an id is alive, objects of one id live one after another, and   *)
(* none dies before it is born (create_object, ObjectBase.destroy).          *)
LifetimesInOrder ==
  \A id \in Ids : \A g \in 1..Len(db[id]) :
    LET obj == db[id][g]
    IN /\ obj.born <= Now
       /\ ~obj.alive => obj.born <= obj.died /\ obj.died <= Now
       /\ g < Len(db[id]) => ~obj.alive /\ obj.died <= db[id][g + 1].born

(* g is the generation of id that was newest when message k arrived.         *)
NewestBefore(id, g, k) ==
  /\ g > 0 => db[id][g].born < k
  /\ g < Len(db[id]) => db[id][g + 1].born >= k

(* Every message is attributed, for ever, to the object its id named when it *)
(* arrived, also after the id was reused; it stays unresolved exactly when   *)
(* there was no such object or its type differed (UnresolvedObject.resolve). *)
(* What delete_id destroyed is the object the deleted id named then.         *)
TargetsInLifetime ==
  \A k \in 1..Now :
    LET e == message_list[k]
        m == e.msg
    IN /\ \E g \in 0..Len(db[m.id]) :
            /\ NewestBefore(m.id, g, k)
            /\ e.obj = IF g > 0 /\ m.type \in {NoType, db[m.id][g].type} THEN g ELSE 0
       /\ e.destroyed > 0 =>
            /\ IsDeleteId(e) /\ HasKind(m, 1, "int") /\ m.args[1].value \in Ids
            /\ e.destroyed <= Len(db[m.args[1].value])
            /\ NewestBefore(m.args[1].value, e.destroyed, k)

(* An object argument never points to an object of another time: it was born *)
(* by then, and its id was not reused before the message.                    *)
ArgsInLifetime ==
  \A k \in 1..Now : \A i \in 1..Len(message_list[k].objs) :
    LET g  == message_list[k].objs[i]
        id == message_list[k].msg.args[i].id
    IN g > 0 =>
         /\ HasKind(message_list[k].msg, i, "object")
         /\ g <= Len(db[id])
         /\ db[id][g].born <= k
         /\ ArgType(db, message_list[k], i) \in {NoType, db[id][g].type}
         /\ g < Len(db[id]) => db[id][g + 1].born >= k

(* What a message refers to, as its target, as what it destroys or in an     *)
(* argument, is an object of the message's own time.                         *)
ReferencesInLifetime == TargetsInLifetime /\ ArgsInLifetime

(* A "new" argument that gives its type is the object its message created,   *)
(* or, when create_object refused, a client's object that was still alive    *)
(* when the message arrived: never a dead one (Arg.Object.resolve falls      *)
(* through to the lookup after the refusal).                                 *)
NewArgIsNewOrInUse ==
  \A k \in 1..Now : \A i \in 1..Len(message_list[k].objs) :
    LET e  == message_list[k]
        a  == e.msg.args[i]
        g  == e.objs[i]
    IN g > 0 /\ a.is_new /\ a.id > 1 /\ ArgType(db, e, i) # NoType =>
         \/ db[a.id][g].born = k
         \/ /\ a.id \notin ServerIds \/ a.id = 2
            /\ db[a.id][g].alive \/ db[a.id][g].died >= k

(* No object dies without a reason the log shows: the last delete_id of its  *)
(* id, or, for a server's id, the message that created its successor.        *)
DeathsExplained ==
  \A id \in Ids : \A g \in 1..Len(db[id]) :
    LET obj == db[id][g]
    IN ~obj.alive =>
         \/ /\ obj.died \in 1..Now
            /\ message_list[obj.died].destroyed = g
            /\ message_list[obj.died].msg.args[1].value = id
         \/ /\ id \in ServerIds /\ g < Len(db[id])
            /\ db[id][g + 1].born = obj.died

(* Every object but the display was created by a "new" argument of the       *)
(* message it is dated with, has the type that argument says, and that       *)
(* argument was resolved to it.                                              *)
BirthsExplained ==
  \A id \in Ids : \A g \in 1..Len(db[id]) :
    id = 1 \/
      /\ db[id][g].born \in 1..Now
      /\ LET e == message_list[db[id][g].born]
         IN \E i \in 1..Len(e.objs) :
              /\ e.objs[i] = g
              /\ e.msg.args[i].is_new /\ e.msg.args[i].id = id
              /\ ArgType(db, e, i) = db[id][g].type

(* The life of every object can be told from the messages, from its birth to *)
(* its death.                                                                *)
LifetimesExplained == BirthsExplained /\ DeathsExplained

(* message_list keeps a message whose handling raised and the listener never *)
(* hears of it; every other message is announced once and in order.  What a  *)
(* handler raises for can be told from the stored message.                   *)
AnnouncedUnlessRaised ==
  LET Fails(e) ==
        \/ IsBind(db, e) /\ ~GoodBind(e.msg)
        \/ IsDeleteId(e) /\ e.destroyed = 0
        \/ \E i \in 1..Len(e.msg.args) :
             GetArgRaises(TargetType(db, e), e.msg.name, i)
      handled == IF pc = "idle" THEN Now ELSE Now - 1
  IN /\ {announced[n] : n \in 1..Len(announced)} =
          {k \in 1..handled : ~Fails(message_list[k])}
     /\ \A i, j \in 1..Len(announced) : i < j => announced[i] < announced[j]

(* The title is that of the last announced set_app_id or get_layer_surface   *)
(* that had one, else that of the first announced set_title that had one;    *)
(* the app id is the last one announced, even one that yields no title.      *)
NamesFromHistory ==
  LET said == {announced[n] : n \in 1..Len(announced)}
      M(k) == message_list[k].msg
      Strong(k) ==
        IF M(k).name = "set_app_id" THEN LastPart[StringArg(M(k), 1)]
        ELSE IF M(k).name = "get_layer_surface" THEN StringArg(M(k), 5)
        ELSE Empty
      strong == {k \in said : Strong(k) # Empty}
      weak == {k \in said : M(k).name = "set_title" /\ StringArg(M(k), 1) # Empty}
      ids == {k \in said : M(k).name = "set_app_id" /\ StringArg(M(k), 1) # Empty}
  IN /\ \/ \E k \in strong : (\A j \in strong : j <= k) /\ title = Strong(k)
        \/ strong = {} /\ \E k \in weak :
             (\A j \in weak : k <= j) /\ title = StringArg(M(k), 1)
        \/ strong = {} /\ weak = {} /\ title = Empty
     /\ \/ \E k \in ids : (\A j \in ids : j <= k) /\ app_id = StringArg(M(k), 1)
        \/ ids = {} /\ app_id = Empty

(* A listener that draws the connection again whenever it is told to always  *)
(* shows the title and the state str(connection) would show now.             *)
ListenerUpToDate == shown = <<title, open>>

(* The past is never rewritten: a stored message changes only while its own  *)
(* handler runs, an object that has a successor never changes, no object     *)
(* comes back to life or changes its type or birth.                          *)
PastIsFrozen ==
  [][/\ \A k \in 1..Now :
          (pc = "idle" \/ k < Now) => message_list'[k] = message_list[k]
     /\ \A id \in Ids :
          /\ Len(db'[id]) >= Len(db[id])
          /\ \A g \in 1..Len(db[id]) :
               /\ g < Len(db[id]) => db'[id][g] = db[id][g]
               /\ db'[id][g].type = db[id][g].type
               /\ db'[id][g].born = db[id][g].born
               /\ ~db[id][g].alive => ~db'[id][g].alive]_vars

(* Without its messages and times the database is that of ObjectLifetimes.   *)
Lifetimes == INSTANCE ObjectLifetimes WITH
  Dead <- NoType,
  generations <- [id \in Ids |-> Len(db[id])],
  live <- [id \in Ids |-> IF InUse(db, id) THEN LastOf(db, id).type ELSE NoType]

ImplementsLifetimes == Lifetimes!Spec
==============================================================================
