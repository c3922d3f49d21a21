-------------------------- MODULE ConnectionProofs ---------------------------
(* Theorems about Connection for every set of ids, types, protocols and      *)
(* messages, and for any number of messages.                                 *)
EXTENDS Connection, TLAPS

Databases == [Ids -> Seq(Object)]

(* What one step may do to the objects of one id: nothing; destroy the       *)
(* newest; or add one, born now, after the newest, which is then dead, of    *)
(* old or since now.                                                         *)
Unaffected(old, new) == new = old

LosesNewest(old, new, now) ==
  /\ Len(old) > 0
  /\ Len(new) = Len(old)
  /\ \A g \in 1..Len(old)-1 : new[g] = old[g]
  /\ new[Len(old)] = Destroyed(old[Len(old)], now)

GainsOne(old, new, now) ==
  /\ Len(new) = Len(old) + 1
  /\ \A g \in 1..Len(old)-1 : new[g] = old[g]
  /\ Len(old) > 0 =>
       \/ ~old[Len(old)].alive /\ new[Len(old)] = old[Len(old)]
       \/ new[Len(old)] = Destroyed(old[Len(old)], now)
  /\ new[Len(new)].alive
  /\ new[Len(new)].born = now

Grows(d, e, now) ==
  \A id \in Ids :
    \/ Unaffected(d[id], e[id])
    \/ LosesNewest(d[id], e[id], now)
    \/ GainsOne(d[id], e[id], now)

LEMMA ObjectFields ==
  ASSUME NEW obj \in Object
  PROVE  /\ obj.type \in Types /\ obj.alive \in BOOLEAN
         /\ obj.born \in Nat /\ obj.died \in Nat
BY DEF Object

LEMMA DestroyedIsObject ==
  ASSUME NEW obj \in Object, NEW now \in Nat
  PROVE  /\ Destroyed(obj, now) \in Object
         /\ ~Destroyed(obj, now).alive
         /\ Destroyed(obj, now).died = now
         /\ Destroyed(obj, now).type = obj.type
         /\ Destroyed(obj, now).born = obj.born
BY DEF Destroyed, Object

LEMMA DestroyGrows ==
  ASSUME NEW d \in Databases, NEW id \in Ids, NEW now \in Nat, Used(d, id)
  PROVE  /\ DestroyLast(d, id, now) \in Databases
         /\ LosesNewest(d[id], DestroyLast(d, id, now)[id], now)
         /\ \A j \in Ids \ {id} : DestroyLast(d, id, now)[j] = d[j]
<1> DEFINE n == Len(d[id])
           s == [d[id] EXCEPT ![n] = Destroyed(d[id][n], now)]
<1>1. d[id] \in Seq(Object) /\ n \in Nat /\ n > 0 /\ d[id][n] \in Object
  BY DEF Databases, Used
<1>2. Destroyed(d[id][n], now) \in Object
  BY <1>1, DestroyedIsObject
<1>3. s \in Seq(Object) /\ Len(s) = n
  BY <1>1, <1>2
<1>4. s[n] = Destroyed(d[id][n], now) /\ \A g \in 1..n-1 : s[g] = d[id][g]
  BY <1>1
<1>5. DestroyLast(d, id, now) = [d EXCEPT ![id] = s]
  BY DEF DestroyLast
<1> HIDE DEF s
<1>6. QED
  BY <1>1, <1>3, <1>4, <1>5 DEF Databases, LosesNewest

LEMMA CreateGrows ==
  ASSUME NEW d \in Databases, NEW id \in Ids, NEW type \in Types, NEW now \in Nat
  PROVE  /\ Created(d, id, type, now) \in Databases
         /\ GainsOne(d[id], Created(d, id, type, now)[id], now)
         /\ Created(d, id, type, now)[id][Len(d[id]) + 1] = NewObject(type, now)
         /\ \A j \in Ids \ {id} : Created(d, id, type, now)[j] = d[j]
<1> DEFINE freed == IF InUse(d, id) THEN DestroyLast(d, id, now) ELSE d
           obj == NewObject(type, now)
           n == Len(d[id])
           new == Append(freed[id], obj)
<1>1. obj \in Object /\ obj.alive /\ obj.born = now
  BY DEF NewObject, Object
<1>2. freed \in Databases /\ \A j \in Ids \ {id} : freed[j] = d[j]
  BY DestroyGrows DEF InUse
<1>3. freed[id] \in Seq(Object) /\ d[id] \in Seq(Object) /\ n \in Nat
  BY <1>2 DEF Databases
<1>4. /\ Len(freed[id]) = n
      /\ \A g \in 1..n-1 : freed[id][g] = d[id][g]
      /\ n > 0 => \/ ~d[id][n].alive /\ freed[id][n] = d[id][n]
                  \/ freed[id][n] = Destroyed(d[id][n], now)
  <2>1. CASE InUse(d, id)
    BY <2>1, <1>3, DestroyGrows DEF InUse, LosesNewest
  <2>2. CASE ~InUse(d, id)
    <3>1. freed = d
      BY <2>2
    <3>2. n > 0 => ~d[id][n].alive
      BY <2>2, <1>3 DEF InUse, Used, LastOf
    <3>3. QED
      BY <3>1, <3>2
  <2>3. QED
    BY <2>1, <2>2
<1> HIDE DEF freed, obj
<1>5. /\ new \in Seq(Object) /\ Len(new) = n + 1
      /\ new[n + 1] = obj
      /\ \A g \in 1..n : new[g] = freed[id][g]
  BY <1>1, <1>3, <1>4
<1>6. Created(d, id, type, now) = [freed EXCEPT ![id] = new]
  BY DEF Created, freed, obj
<1>7. /\ Created(d, id, type, now) \in Databases
      /\ Created(d, id, type, now)[id] = new
      /\ \A j \in Ids \ {id} : Created(d, id, type, now)[j] = d[j]
  BY <1>2, <1>5, <1>6 DEF Databases
<1> HIDE DEF new
<1>8. GainsOne(d[id], new, now)
  BY <1>1, <1>3, <1>4, <1>5, SMTT(20) DEF GainsOne
<1>9. QED
  BY <1>5, <1>7, <1>8 DEF obj
LEMMA GrowsKeeps ==
  ASSUME NEW d \in Databases, NEW e \in Databases, NEW now \in Nat,
         Grows(d, e, now), NEW id \in Ids
  PROVE  /\ Len(e[id]) >= Len(d[id])
         /\ \A g \in 1..Len(d[id]) :
              /\ e[id][g].type = d[id][g].type
              /\ e[id][g].born = d[id][g].born
              /\ ~d[id][g].alive => ~e[id][g].alive
              /\ g < Len(d[id]) => e[id][g] = d[id][g]
              /\ e[id][g] = d[id][g] \/ (~e[id][g].alive /\ e[id][g].died = now)
<1> USE DEF Databases
<1>0. d[id] \in Seq(Object) /\ e[id] \in Seq(Object)
  OBVIOUS
<1>1. CASE Unaffected(d[id], e[id])
  BY <1>0, <1>1 DEF Unaffected
<1>2. CASE LosesNewest(d[id], e[id], now)
  BY <1>0, <1>2, DestroyedIsObject DEF LosesNewest
<1>3. CASE GainsOne(d[id], e[id], now)
  <2>1. SUFFICES ASSUME NEW g \in 1..Len(d[id])
                 PROVE  /\ e[id][g].type = d[id][g].type
                        /\ e[id][g].born = d[id][g].born
                        /\ ~d[id][g].alive => ~e[id][g].alive
                        /\ g < Len(d[id]) => e[id][g] = d[id][g]
                        /\ e[id][g] = d[id][g] \/ (~e[id][g].alive /\ e[id][g].died = now)
    BY <1>0, <1>3 DEF GainsOne
  <2>2. CASE g < Len(d[id])
    BY <1>0, <1>3, <2>2 DEF GainsOne
  <2>3. CASE g = Len(d[id])
    <3>1. d[id][g] \in Object /\ Len(d[id]) > 0
      BY <1>0
    <3>2. \/ ~d[id][g].alive /\ e[id][g] = d[id][g]
          \/ e[id][g] = Destroyed(d[id][g], now)
      BY <1>3, <2>3, <3>1 DEF GainsOne
    <3>3. /\ ~Destroyed(d[id][g], now).alive
          /\ Destroyed(d[id][g], now).died = now
          /\ Destroyed(d[id][g], now).type = d[id][g].type
          /\ Destroyed(d[id][g], now).born = d[id][g].born
      BY <3>1, DestroyedIsObject
    <3>4. g \in Nat /\ ~(g < Len(d[id]))
      BY <1>0, <2>3
    <3>5. CASE e[id][g] = d[id][g]
      BY <3>4, <3>5
    <3>6. CASE e[id][g] = Destroyed(d[id][g], now)
      BY <3>3, <3>4, <3>6
    <3>7. QED
      BY <3>2, <3>5, <3>6
  <2>4. QED
    BY <1>0, <2>2, <2>3
<1>4. QED
  BY <1>1, <1>2, <1>3 DEF Grows

------------------------------------------------------------------------------
(* Type correctness *)

(* What the handler relies on: an entry has one slot for each argument, a    *)
(* resolved target exists, and a bind whose arguments are being resolved has *)
(* passed the asserts.                                                       *)
EntriesOK ==
  \A k \in 1..Now :
    LET e == message_list[k]
    IN /\ Len(e.objs) = Len(e.msg.args)
       /\ e.obj <= Len(db[e.msg.id])
       /\ k = Now /\ pc = "args" /\ IsBind(db, e) => GoodBind(e.msg)

CoreInv == TypeOK /\ EntriesOK

LEMMA MessageTypes ==
  ASSUME NEW m \in Messages
  PROVE  /\ m.id \in Ids
         /\ m.type \in Types \cup {NoType}
         /\ m.args \in Seq(Args)
         /\ \A i \in 1..Len(m.args) : m.args[i] \in Args
         /\ \A i \in 1..Len(m.args) : m.args[i].kind = "string" => m.args[i].value \in Strings
         /\ \A i \in 1..Len(m.args) : m.args[i].kind = "object" =>
              m.args[i].id \in Ids /\ m.args[i].type \in Types \cup {NoType}
BY ConnectionAssumption DEF Args

LEMMA RetrieveInRange ==
  ASSUME NEW d \in Databases, NEW id \in Ids, NEW type
  PROVE  /\ Retrieve(d, id, type) \in 0..Len(d[id])
         /\ Retrieve(d, id, type) \in Nat
BY DEF Databases, Retrieve, Used

LEMMA StoredIsEntry ==
  ASSUME NEW d \in Databases, NEW m \in Messages
  PROVE  /\ Stored(d, m) \in Entry
         /\ Stored(d, m).msg = m
         /\ Stored(d, m).destroyed = 0
         /\ Stored(d, m).obj = Retrieve(d, m.id, m.type)
         /\ Stored(d, m).obj <= Len(d[m.id])
         /\ Len(Stored(d, m).objs) = Len(m.args)
         /\ \A i \in 1..Len(m.args) : Stored(d, m).objs[i] = 0
<1>1. Retrieve(d, m.id, m.type) \in 0..Len(d[m.id])
  BY RetrieveInRange, MessageTypes
<1>2. Len(m.args) \in Nat /\ Len(d[m.id]) \in Nat
  BY MessageTypes DEF Databases
<1>3. QED
  BY <1>1, <1>2 DEF Stored, Entry

LEMMA TargetTypeStable ==
  ASSUME NEW d \in Databases, NEW f \in Databases, NEW now \in Nat, Grows(d, f, now),
         NEW e \in Entry, e.obj <= Len(d[e.msg.id])
  PROVE  TargetType(f, e) = TargetType(d, e)
<1>1. e.msg.id \in Ids /\ e.obj \in Nat
  BY MessageTypes DEF Entry
<1>2. Len(d[e.msg.id]) \in Nat /\ (e.obj = 0 \/ e.obj \in 1..Len(d[e.msg.id]))
  BY <1>1 DEF Databases
<1>3. \A g \in 1..Len(d[e.msg.id]) : f[e.msg.id][g].type = d[e.msg.id][g].type
  BY <1>1, GrowsKeeps
<1>4. QED
  BY <1>2, <1>3 DEF TargetType
LEMMA SameGrows ==
  ASSUME NEW d \in Databases, NEW now
  PROVE  Grows(d, d, now)
BY DEF Grows, Unaffected

LEMMA AppendedEntry ==
  ASSUME message_list \in Seq(Entry), NEW e \in Entry,
         message_list' = Append(message_list, e)
  PROVE  /\ message_list' \in Seq(Entry)
         /\ Now \in Nat /\ Now' = Now + 1
         /\ \A k \in 1..Now : message_list'[k] = message_list[k]
         /\ message_list'[Now + 1] = e
         /\ message_list' # <<>>
BY DEF Now

(* Storing a message keeps the entries well formed.                          *)
LEMMA AppendKeepsEntries ==
  ASSUME CoreInv, db' \in Databases, Grows(db, db', Now + 1),
         NEW e \in Entry,
         Len(e.objs) = Len(e.msg.args), e.obj <= Len(db[e.msg.id]),
         pc' = "args" /\ IsBind(db', e) => GoodBind(e.msg),
         message_list' = Append(message_list, e)
  PROVE  EntriesOK'
<1>1. db \in Databases /\ message_list \in Seq(Entry) /\ Now \in Nat
  BY DEF CoreInv, TypeOK, Databases, Now
<1>2. ASSUME NEW id \in Ids
      PROVE  Len(db'[id]) >= Len(db[id]) /\ Len(db'[id]) \in Nat /\ Len(db[id]) \in Nat
  <2>1. Len(db'[id]) \in Nat /\ Len(db[id]) \in Nat
    BY <1>1 DEF Databases
  <2>2. Now + 1 \in Nat
    BY <1>1
  <2>3. QED
    BY <1>1, <2>1, <2>2, GrowsKeeps
<1>3. /\ Now' = Now + 1 /\ message_list'[Now + 1] = e
      /\ \A k \in 1..Now : message_list'[k] = message_list[k]
  BY <1>1, AppendedEntry
<1>4. SUFFICES ASSUME NEW k \in 1..Now'
               PROVE  LET f == message_list'[k]
                      IN /\ Len(f.objs) = Len(f.msg.args)
                         /\ f.obj <= Len(db'[f.msg.id])
                         /\ k = Now' /\ pc' = "args" /\ IsBind(db', f) => GoodBind(f.msg)
  BY DEF EntriesOK, IsBind, TargetType
<1>5. CASE k \in 1..Now
  <2>1. message_list[k] \in Entry
    BY <1>1, <1>5 DEF Now
  <2>a. message_list[k].msg.id \in Ids /\ message_list[k].obj \in Nat
    BY <2>1, MessageTypes DEF Entry
  <2>2. k # Now'
    BY <1>1, <1>3, <1>5
  <2>3. /\ Len(message_list[k].objs) = Len(message_list[k].msg.args)
        /\ message_list[k].obj <= Len(db[message_list[k].msg.id])
    BY <1>5 DEF CoreInv, EntriesOK
  <2>4. message_list[k].obj <= Len(db'[message_list[k].msg.id])
    BY <1>2, <2>a, <2>3, SMTT(20)
  <2>5. QED
    BY <1>3, <1>5, <2>2, <2>3, <2>4
<1>6. CASE k = Now + 1
  <2>1. e.msg.id \in Ids /\ e.obj \in Nat
    BY MessageTypes DEF Entry
  <2>2. e.obj <= Len(db'[e.msg.id])
    BY <1>2, <2>1
  <2>3. QED
    BY <1>3, <1>6, <2>2
<1>7. k \in 1..Now \/ k = Now + 1
  BY <1>1, <1>3
<1>8. QED
  BY <1>5, <1>6, <1>7
(* What an entry becomes when an argument of it is resolved.                 *)
WithObj(e, i, g) == [e EXCEPT !.objs = [e.objs EXCEPT ![i] = g]]

LEMMA ResolvedIsEntry ==
  ASSUME NEW e \in Entry, NEW i \in 1..Len(e.objs), NEW g \in Nat
  PROVE  /\ WithObj(e, i, g) \in Entry
         /\ WithObj(e, i, g).msg = e.msg
         /\ WithObj(e, i, g).obj = e.obj
         /\ WithObj(e, i, g).destroyed = e.destroyed
         /\ WithObj(e, i, g).objs = [e.objs EXCEPT ![i] = g]
         /\ Len(WithObj(e, i, g).objs) = Len(e.objs)
<1> DEFINE o == [e.objs EXCEPT ![i] = g]
           c == [e EXCEPT !.objs = o]
<1>1. o \in Seq(Nat) /\ Len(o) = Len(e.objs)
  BY DEF Entry
<1> HIDE DEF o
<1>2. c \in Entry /\ c.msg = e.msg /\ c.obj = e.obj /\ c.destroyed = e.destroyed /\ c.objs = o
  BY <1>1 DEF Entry
<1>3. QED
  BY <1>1, <1>2 DEF o, WithObj

LEMMA ResolvedEntry ==
  ASSUME NEW g \in Nat,
         message_list' = [message_list EXCEPT ![Now].objs[next] = g]
  PROVE  message_list' = [message_list EXCEPT ![Now] = WithObj(Current, next, g)]
BY Zenon DEF Current, WithObj

(* Resolving an argument of the last message keeps the entries well formed.  *)
LEMMA ResolveKeepsEntries ==
  ASSUME CoreInv, pc = "args",
         db' \in Databases, Grows(db, db', Now),
         NEW c \in Entry, c.msg = Current.msg, c.obj = Current.obj,
         Len(c.objs) = Len(Current.objs),
         message_list' = [message_list EXCEPT ![Now] = c]
  PROVE  /\ message_list' \in Seq(Entry)
         /\ Now \in Nat \ {0} /\ Now' = Now
         /\ \A k \in 1..Now - 1 : message_list'[k] = message_list[k]
         /\ message_list'[Now] = c
         /\ EntriesOK'
<1>0. db \in Databases /\ message_list \in Seq(Entry) /\ message_list # <<>>
  BY DEF CoreInv, TypeOK, Databases
<1>1. db \in Databases /\ message_list \in Seq(Entry) /\ Now \in Nat \ {0}
  BY <1>0 DEF Now
<1>2. Current \in Entry
  BY <1>1 DEF Current, Now
<1>4. /\ message_list' \in Seq(Entry) /\ Now' = Now
      /\ message_list'[Now] = c
      /\ \A k \in 1..Now - 1 : message_list'[k] = message_list[k]
  BY <1>1 DEF Now
<1>5. EntriesOK'
  <2>1. SUFFICES ASSUME NEW k \in 1..Now
                 PROVE  LET f == message_list'[k]
                        IN /\ Len(f.objs) = Len(f.msg.args)
                           /\ f.obj <= Len(db'[f.msg.id])
                           /\ k = Now /\ pc' = "args" /\ IsBind(db', f) => GoodBind(f.msg)
    BY <1>4 DEF EntriesOK, IsBind, TargetType
  <2> DEFINE e == message_list[k]
  <2>2. e \in Entry /\ e.msg.id \in Ids /\ e.obj \in Nat
    <3>1. e \in Entry
      BY <1>1 DEF Now
    <3>2. QED
      BY <3>1, MessageTypes DEF Entry
  <2>3. /\ Len(e.objs) = Len(e.msg.args)
        /\ e.obj <= Len(db[e.msg.id])
        /\ k = Now /\ IsBind(db, e) => GoodBind(e.msg)
    BY DEF CoreInv, EntriesOK
  <2>4. e.obj <= Len(db'[e.msg.id])
    <3>1. Len(db'[e.msg.id]) \in Nat /\ Len(db[e.msg.id]) \in Nat
      BY <1>1, <2>2, SMTT(20) DEF Databases
    <3>2. Len(db'[e.msg.id]) >= Len(db[e.msg.id])
      BY <1>1, <2>2, GrowsKeeps
    <3>3. QED
      BY <2>2, <2>3, <3>1, <3>2, SMTT(20)
  <2>5. CASE k < Now
    BY <1>1, <1>4, <2>3, <2>4, <2>5
  <2>6. CASE k = Now
    <3>1. e = Current
      BY <2>6 DEF Current
    <3>2. IsBind(db', c) => IsBind(db, e)
      <4>1. TargetType(db', e) = TargetType(db, e)
        BY <1>1, <2>2, <2>3, TargetTypeStable
      <4>2. TargetType(db', c) = TargetType(db', e)
        BY <1>2, <3>1 DEF TargetType
      <4>3. QED
        BY <1>2, <3>1, <4>1, <4>2 DEF IsBind
    <3>3. QED
      BY <1>2, <1>4, <2>3, <2>4, <2>6, <3>1, <3>2
  <2>7. QED
    BY <1>1, <2>5, <2>6
<1>6. QED
  BY <1>1, <1>4, <1>5
------------------------------------------------------------------------------
(* The actions, one by one *)

MessagesKept ==
  /\ Now \in Nat /\ Now' \in Nat /\ Now <= Now'
  /\ \A k \in 1..Now :
       pc = "idle" \/ k < Now => message_list'[k] = message_list[k]

(* The effect of a step on the database and on the list of messages, and the *)
(* invariant after it.                                                       *)
StepOK == CoreInv' /\ Grows(db, db', Now') /\ MessagesKept

LEMMA BeginRaisesOK ==
  ASSUME CoreInv, NEW m \in Messages, BeginRaises(m)
  PROVE  StepOK
<1> DEFINE e == Stored(db, m)
<1>1. db \in Databases /\ message_list \in Seq(Entry) /\ Now \in Nat
  BY DEF CoreInv, TypeOK, Databases, Now
<1>2. /\ e \in Entry /\ e.msg = m
      /\ e.obj <= Len(db[e.msg.id]) /\ Len(e.objs) = Len(e.msg.args)
  BY <1>1, StoredIsEntry
<1>3. /\ message_list' = Append(message_list, e)
      /\ db' = db /\ pc' = "idle" /\ next' = 1
      /\ raised' \in {"RuntimeError", "AssertionError"}
      /\ UNCHANGED <<announced, title, app_id, open, shown>>
  BY DEF BeginRaises, Raise, ListenerUnchanged
<1> HIDE DEF e
<1>4. Grows(db, db', Now + 1)
  BY <1>1, <1>3, SameGrows
<1>5. EntriesOK'
  BY <1>1, <1>2, <1>3, <1>4, AppendKeepsEntries
<1>6. /\ message_list' \in Seq(Entry) /\ Now' = Now + 1
      /\ \A k \in 1..Now : message_list'[k] = message_list[k]
  BY <1>1, <1>2, <1>3, AppendedEntry
<1>7. TypeOK'
  BY <1>3, <1>6 DEF CoreInv, TypeOK
<1>8. QED
  BY <1>1, <1>4, <1>5, <1>6, <1>7 DEF StepOK, CoreInv, MessagesKept
LEMMA BeginOtherOK ==
  ASSUME CoreInv, NEW m \in Messages, BeginOther(m)
  PROVE  StepOK
<1> DEFINE e == Stored(db, m)
<1>1. db \in Databases /\ message_list \in Seq(Entry) /\ Now \in Nat
  BY DEF CoreInv, TypeOK, Databases, Now
<1>2. /\ e \in Entry /\ e.msg = m
      /\ e.obj <= Len(db[e.msg.id]) /\ Len(e.objs) = Len(e.msg.args)
  BY <1>1, StoredIsEntry
<1>3. /\ message_list' = Append(message_list, e)
      /\ IsBind(db, e) => GoodBind(m)
      /\ db' = db /\ pc' = "args" /\ next' = 1 /\ raised' = "none"
      /\ UNCHANGED <<announced, title, app_id, open, shown>>
  BY DEF BeginOther, ListenerUnchanged
<1> HIDE DEF e
<1>4. Grows(db, db', Now + 1)
  BY <1>1, <1>3, SameGrows
<1>5. IsBind(db', e) => GoodBind(e.msg)
  BY <1>2, <1>3
<1>6. EntriesOK'
  BY <1>1, <1>2, <1>3, <1>4, <1>5, AppendKeepsEntries
<1>7. /\ message_list' \in Seq(Entry) /\ Now' = Now + 1 /\ message_list' # <<>>
      /\ \A k \in 1..Now : message_list'[k] = message_list[k]
  BY <1>1, <1>2, <1>3, AppendedEntry
<1>8. TypeOK'
  BY <1>3, <1>7 DEF CoreInv, TypeOK
<1>9. QED
  BY <1>1, <1>4, <1>6, <1>7, <1>8 DEF StepOK, CoreInv, MessagesKept

(* delete_id destroys the newest object of the id it names.                  *)
LEMMA DeleteIdEffect ==
  ASSUME CoreInv, NEW m \in Messages, BeginDeleteId(m)
  PROVE  /\ m.args[1].value \in Ids
         /\ Used(db, m.args[1].value)
         /\ db' = DestroyLast(db, m.args[1].value, Now + 1)
         /\ db' \in Databases
         /\ Grows(db, db', Now + 1)
<1>1. db \in Databases /\ Now + 1 \in Nat
  BY DEF CoreInv, TypeOK, Databases, Now
<1>2. /\ m.args[1].value \in Ids
      /\ Used(db, m.args[1].value)
      /\ db' = DestroyLast(db, m.args[1].value, Now + 1)
  BY DEF BeginDeleteId, GoodDeleteId
<1>3. /\ db' \in Databases
      /\ LosesNewest(db[m.args[1].value], db'[m.args[1].value], Now + 1)
      /\ \A j \in Ids \ {m.args[1].value} : db'[j] = db[j]
  BY <1>1, <1>2, DestroyGrows
<1>4. Grows(db, db', Now + 1)
  BY <1>3 DEF Grows, Unaffected
<1>5. QED
  BY <1>2, <1>3, <1>4

LEMMA BeginDeleteIdOK ==
  ASSUME CoreInv, NEW m \in Messages, BeginDeleteId(m)
  PROVE  StepOK
<1> DEFINE s == Stored(db, m)
           e == [s EXCEPT !.destroyed = Len(db[m.args[1].value])]
<1>1. db \in Databases /\ message_list \in Seq(Entry) /\ Now \in Nat
  BY DEF CoreInv, TypeOK, Databases, Now
<1>2. db' \in Databases /\ Grows(db, db', Now + 1) /\ m.args[1].value \in Ids
  BY DeleteIdEffect
<1>3. Len(db[m.args[1].value]) \in Nat
  BY <1>1, <1>2 DEF Databases
<1>4. /\ s \in Entry /\ s.msg = m
      /\ s.obj <= Len(db[m.id]) /\ Len(s.objs) = Len(m.args)
  BY <1>1, StoredIsEntry
<1>5. /\ message_list' = Append(message_list, e)
      /\ IsDeleteId(s)
      /\ pc' = "args" /\ next' = 1 /\ raised' = "none"
      /\ UNCHANGED <<announced, title, app_id, open, shown>>
  BY DEF BeginDeleteId, ListenerUnchanged
<1> HIDE DEF s
<1>6. /\ e \in Entry /\ e.msg = m
      /\ e.obj <= Len(db[e.msg.id]) /\ Len(e.objs) = Len(e.msg.args)
  BY <1>3, <1>4 DEF Entry
<1> HIDE DEF e
<1>7. ~IsBind(db', e)
  BY <1>4, <1>5, <1>6 DEF IsDeleteId, IsBind
<1>8. EntriesOK'
  BY <1>1, <1>2, <1>5, <1>6, <1>7, AppendKeepsEntries
<1>9. /\ message_list' \in Seq(Entry) /\ Now' = Now + 1 /\ message_list' # <<>>
      /\ \A k \in 1..Now : message_list'[k] = message_list[k]
  BY <1>1, <1>5, <1>6, AppendedEntry
<1>10. TypeOK'
  BY <1>2, <1>5, <1>9 DEF CoreInv, TypeOK, Databases
<1>11. QED
  BY <1>1, <1>2, <1>8, <1>9, <1>10 DEF StepOK, CoreInv, MessagesKept
LEMMA SameEntries ==
  ASSUME CoreInv, UNCHANGED <<db, message_list>>, pc' = "args" => pc = "args"
  PROVE  EntriesOK' /\ Grows(db, db', Now') /\ MessagesKept
<1>1. db \in Databases /\ db' = db /\ message_list' = message_list
  BY DEF CoreInv, TypeOK, Databases
<1>2. EntriesOK'
  BY <1>1 DEF CoreInv, EntriesOK, Now, IsBind, TargetType
<1>3. MessagesKept
  BY <1>1 DEF MessagesKept, Now, CoreInv, TypeOK
<1>4. QED
  BY <1>1, <1>2, <1>3, SameGrows

LEMMA ResolveRaisesOK ==
  ASSUME CoreInv, ResolveRaises
  PROVE  StepOK
<1>1. /\ pc' = "idle" /\ next' = 1 /\ raised' = "RuntimeError"
      /\ UNCHANGED <<db, message_list, announced, title, app_id, open, shown>>
  BY DEF ResolveRaises, Raise, ListenerUnchanged
<1>2. TypeOK'
  BY <1>1 DEF CoreInv, TypeOK
<1>3. QED
  BY <1>1, <1>2, SameEntries DEF StepOK, CoreInv

LEMMA ResolvePlainOK ==
  ASSUME CoreInv, ResolvePlain
  PROVE  StepOK
<1>1. /\ next' = next + 1
      /\ UNCHANGED <<db, message_list, announced, title, app_id, open, shown, pc, raised>>
  BY DEF ResolvePlain, ListenerUnchanged
<1>2. TypeOK'
  BY <1>1 DEF CoreInv, TypeOK
<1>3. QED
  BY <1>1, <1>2, SameEntries DEF StepOK, CoreInv

LEMMA CloseOK ==
  ASSUME CoreInv, Close
  PROVE  StepOK
<1>1. /\ open' = FALSE /\ shown' = <<title, FALSE>>
      /\ UNCHANGED <<db, message_list, announced, title, app_id, pc, next, raised>>
  BY DEF Close
<1>2. TypeOK'
  BY <1>1 DEF CoreInv, TypeOK
<1>3. QED
  BY <1>1, <1>2, SameEntries DEF StepOK, CoreInv

LEMMA NamesAreStrings ==
  ASSUME NEW m \in Messages, NEW old \in Strings
  PROVE  TitleOf(m, old) \in Strings /\ AppIdOf(m) \in Strings
<1>1. \A i \in {1, 5} : StringArg(m, i) \in Strings
  <2> SUFFICES ASSUME NEW i \in {1, 5} PROVE StringArg(m, i) \in Strings
    OBVIOUS
  <2>1. QED
    BY MessageTypes, ConnectionAssumption DEF StringArg, HasKind
<1>2. LastPart[StringArg(m, 1)] \in Strings
  BY <1>1, ConnectionAssumption
<1>3. QED
  BY <1>1, <1>2, ConnectionAssumption DEF TitleOf, AppIdOf

LEMMA FinishOK ==
  ASSUME CoreInv, Finish
  PROVE  StepOK
<1>1. /\ announced' = Append(announced, Now)
      /\ app_id' = Unless(AppIdOf(Current.msg), app_id)
      /\ title' = Unless(TitleOf(Current.msg, title), title)
      /\ shown' \in {shown, <<title', open>>}
      /\ pc = "args" /\ pc' = "idle" /\ next' = 1
      /\ UNCHANGED <<db, message_list, open, raised>>
  BY DEF Finish
<1>2. Now \in Nat /\ Current \in Entry
  BY <1>1 DEF CoreInv, TypeOK, Now, Current
<1>3. title' \in Strings /\ app_id' \in Strings
  BY <1>1, <1>2, NamesAreStrings DEF Unless, CoreInv, TypeOK, Entry
<1>4. shown' \in Strings \X BOOLEAN
  BY <1>1, <1>3 DEF CoreInv, TypeOK
<1>5. announced' \in Seq(Nat)
  BY <1>1, <1>2 DEF CoreInv, TypeOK
<1>6. TypeOK'
  BY <1>1, <1>3, <1>4, <1>5 DEF CoreInv, TypeOK
<1>7. QED
  BY <1>1, <1>6, SameEntries DEF StepOK, CoreInv
(* What is known of the argument about to be resolved.                       *)
LEMMA AtArgFacts ==
  ASSUME CoreInv, AtArg
  PROVE  /\ db \in Databases /\ message_list \in Seq(Entry)
         /\ Now \in Nat \ {0} /\ Current \in Entry
         /\ next \in 1..Len(Current.objs) /\ next \in 1..Len(Current.msg.args)
         /\ Current.obj <= Len(db[Current.msg.id])
         /\ IsBind(db, Current) => GoodBind(Current.msg)
<1>1. db \in Databases /\ message_list \in Seq(Entry) /\ pc = "args" /\ message_list # <<>>
  BY DEF CoreInv, TypeOK, Databases, AtArg
<1>2. Now \in Nat \ {0} /\ Current \in Entry
  BY <1>1 DEF Now, Current
<1>3. /\ Len(Current.objs) = Len(Current.msg.args)
      /\ Current.obj <= Len(db[Current.msg.id])
      /\ IsBind(db, Current) => GoodBind(Current.msg)
  BY <1>1, <1>2 DEF CoreInv, EntriesOK, Current
<1>4. next \in Nat \ {0} /\ next <= Len(Current.msg.args)
  BY DEF CoreInv, TypeOK, AtArg
<1>5. Len(Current.msg.args) \in Nat
  BY <1>2, MessageTypes DEF Entry
<1>6. QED
  BY <1>1, <1>2, <1>3, <1>4, <1>5

LEMMA ArgTypeIsType ==
  ASSUME CoreInv, AtArg, Arg.kind = "object"
  PROVE  ArgType(db, Current, next) \in Types \cup {NoType} /\ Arg.id \in Ids
<1>1. Current.msg \in Messages /\ next \in 1..Len(Current.msg.args)
  BY AtArgFacts DEF Entry
<1>2. CASE IsBind(db, Current) /\ next = 4
  <2>1. GoodBind(Current.msg) /\ Current.msg.name = "bind"
    BY <1>2, AtArgFacts DEF IsBind
  <2>2. 2 \in 1..Len(Current.msg.args) /\ Current.msg.args[2].kind = "string"
    BY <2>1 DEF GoodBind, HasKind
  <2>3. Current.msg.args[2].value \in Types
    BY <1>1, <2>1, <2>2, BindAssumption
  <2>4. QED
    BY <1>1, <1>2, <2>3, MessageTypes DEF ArgType, Arg
<1>3. CASE ~(IsBind(db, Current) /\ next = 4)
  BY <1>1, <1>3, MessageTypes DEF ArgType, Arg
<1>4. QED
  BY <1>2, <1>3

(* The argument becomes an object of the database as it is after the step.   *)
LEMMA ResolveArgOK ==
  ASSUME CoreInv, AtArg, Arg.kind = "object",
         db' \in Databases, Grows(db, db', Now),
         ResolveArgIn(db')
  PROVE  StepOK
<1> DEFINE g == Retrieve(db', Arg.id, ArgType(db, Current, next))
           c == WithObj(Current, next, g)
<1>1. g \in Nat
  BY ArgTypeIsType, RetrieveInRange
<1>2. /\ message_list' = [message_list EXCEPT ![Now].objs[next] = g]
      /\ next' = next + 1
      /\ UNCHANGED <<announced, title, app_id, open, shown, pc, raised>>
  BY Zenon DEF ResolveArgIn, ListenerUnchanged
<1>3. message_list' = [message_list EXCEPT ![Now] = c]
  BY <1>1, <1>2, ResolvedEntry, Zenon
<1>4. c \in Entry /\ c.msg = Current.msg /\ c.obj = Current.obj /\ Len(c.objs) = Len(Current.objs)
  BY <1>1, AtArgFacts, ResolvedIsEntry, ZenonT(30)
<1> HIDE DEF c, g
<1>5. pc = "args"
  BY DEF AtArg
<1>6. /\ message_list' \in Seq(Entry) /\ Now' = Now /\ EntriesOK' /\ Now \in Nat \ {0}
      /\ \A k \in 1..Now - 1 : message_list'[k] = message_list[k]
  BY <1>3, <1>4, <1>5, ResolveKeepsEntries
<1>7. next' \in Nat \ {0} /\ message_list' # <<>>
  <2>1. Now' # 0
    BY <1>6, AtArgFacts
  <2>2. QED
    BY <1>2, <1>6, <2>1 DEF CoreInv, TypeOK, Now
<1>8. UNCHANGED <<announced, title, app_id, open, shown, pc, raised>>
  BY <1>2
<1>9. TypeOK'
  BY <1>6, <1>7, <1>8 DEF CoreInv, TypeOK, Databases
<1>10. MessagesKept
  BY <1>5, <1>6 DEF MessagesKept
<1>11. QED
  BY <1>6, <1>9, <1>10 DEF StepOK, CoreInv

LEMMA ResolveExistingOK ==
  ASSUME CoreInv, ResolveExisting
  PROVE  StepOK
<1>1. AtArg /\ Arg.kind = "object" /\ db' = db /\ ResolveArgIn(db)
  BY DEF ResolveExisting
<1>2. Grows(db, db', Now) /\ db' \in Databases
  BY <1>1, SameGrows, AtArgFacts
<1>3. ResolveArgIn(db')
  BY <1>1 DEF ResolveArgIn
<1>4. QED
  BY <1>1, <1>2, <1>3, ResolveArgOK

(* A "new" argument that can be created adds one object to the database.     *)
LEMMA ResolveNewEffect ==
  ASSUME CoreInv, ResolveNew
  PROVE  /\ Arg.id \in Ids
         /\ ArgType(db, Current, next) \in Types
         /\ db' \in Databases
         /\ GainsOne(db[Arg.id], db'[Arg.id], Now)
         /\ db'[Arg.id][Len(db[Arg.id]) + 1] = NewObject(ArgType(db, Current, next), Now)
         /\ \A j \in Ids \ {Arg.id} : db'[j] = db[j]
         /\ Grows(db, db', Now)
<1>1. /\ AtArg /\ Arg.kind = "object"
      /\ ArgType(db, Current, next) # NoType
      /\ db' = Created(db, Arg.id, ArgType(db, Current, next), Now)
  BY DEF ResolveNew, Creatable
<1>2. Arg.id \in Ids /\ ArgType(db, Current, next) \in Types
  BY <1>1, ArgTypeIsType
<1>3. db \in Databases /\ Now \in Nat
  BY <1>1, AtArgFacts
<1>4. /\ db' \in Databases
      /\ GainsOne(db[Arg.id], db'[Arg.id], Now)
      /\ db'[Arg.id][Len(db[Arg.id]) + 1] = NewObject(ArgType(db, Current, next), Now)
      /\ \A j \in Ids \ {Arg.id} : db'[j] = db[j]
  BY <1>1, <1>2, <1>3, CreateGrows
<1>5. Grows(db, db', Now)
  BY <1>4 DEF Grows, Unaffected
<1>6. QED
  BY <1>2, <1>4, <1>5

LEMMA ResolveNewOK ==
  ASSUME CoreInv, ResolveNew
  PROVE  StepOK
<1>1. AtArg /\ Arg.kind = "object" /\ ResolveArgIn(db')
  BY DEF ResolveNew
<1>2. Grows(db, db', Now) /\ db' \in Databases
  BY ResolveNewEffect
<1>3. QED
  BY <1>1, <1>2, ResolveArgOK
LEMMA StepPreservesCore ==
  ASSUME CoreInv, [Next]_vars
  PROVE  StepOK
<1>1. CASE Begin
  BY <1>1, BeginRaisesOK, BeginDeleteIdOK, BeginOtherOK DEF Begin
<1>2. CASE Resolve
  BY <1>2, ResolveRaisesOK, ResolvePlainOK, ResolveNewOK, ResolveExistingOK DEF Resolve
<1>3. CASE Finish
  BY <1>3, FinishOK
<1>4. CASE Close
  BY <1>4, CloseOK
<1>5. CASE UNCHANGED vars
  <2>1. UNCHANGED <<db, message_list, announced, title, app_id, open, shown, pc, next, raised>>
    BY <1>5 DEF vars
  <2>2. TypeOK'
    BY <2>1 DEF CoreInv, TypeOK
  <2>3. QED
    BY <2>1, <2>2, SameEntries DEF StepOK, CoreInv
<1>6. QED
  BY <1>1, <1>2, <1>3, <1>4, <1>5 DEF Next

(* The state is well typed, and the handler never resolves an argument of a  *)
(* bind that failed its asserts or of a message it does not have.            *)
THEOREM CoreInvariant == Spec => []CoreInv
<1>1. Init => CoreInv
  <2> SUFFICES ASSUME Init PROVE CoreInv
    OBVIOUS
  <2>1. message_list = <<>> /\ Now = 0
    BY DEF Init, Now
  <2>2. db \in [Ids -> Seq(Object)]
    <3>1. NewObject("wl_display", 0) \in Object
      BY ConnectionAssumption DEF NewObject, Object
    <3>2. <<NewObject("wl_display", 0)>> \in Seq(Object) /\ <<>> \in Seq(Object)
      BY <3>1
    <3>3. QED
      BY <3>2 DEF Init
  <2>3. TypeOK
    <3>1. message_list \in Seq(Entry) /\ announced \in Seq(Nat)
      BY DEF Init
    <3>2. pc = "idle" /\ next = 1 /\ raised = "none" /\ open = TRUE
      BY DEF Init
    <3>3. title \in Strings /\ app_id \in Strings /\ shown \in Strings \X BOOLEAN
      BY ConnectionAssumption DEF Init
    <3>4. QED
      BY <2>2, <3>1, <3>2, <3>3 DEF TypeOK
  <2>4. EntriesOK
    BY <2>1 DEF EntriesOK
  <2>5. QED
    BY <2>3, <2>4 DEF CoreInv
<1>2. CoreInv /\ [Next]_vars => CoreInv'
  BY StepPreservesCore DEF StepOK
<1>3. QED
  BY <1>1, <1>2, PTL DEF Spec

(* Connection is well typed for all ids, types, protocols and messages.      *)
THEOREM TypeCorrect == Spec => []TypeOK
<1>1. CoreInv => TypeOK
  BY DEF CoreInv
<1>2. QED
  BY <1>1, CoreInvariant, PTL

------------------------------------------------------------------------------
(* Lifetimes *)

LifetimeOK(obj, now) ==
  /\ obj.born <= now
  /\ ~obj.alive => obj.born <= obj.died /\ obj.died <= now

OrderedTo(obj, later) == ~obj.alive /\ obj.died <= later.born

LEMMA OrderKept ==
  ASSUME NEW old \in Seq(Object), NEW new \in Seq(Object),
         NEW was \in Nat, NEW now \in Nat, was <= now,
         \/ Unaffected(old, new)
         \/ LosesNewest(old, new, now)
         \/ GainsOne(old, new, now),
         \A g \in 1..Len(old) : LifetimeOK(old[g], was),
         \A g \in 1..Len(old)-1 : OrderedTo(old[g], old[g + 1])
  PROVE  /\ \A g \in 1..Len(new) : LifetimeOK(new[g], now)
         /\ \A g \in 1..Len(new)-1 : OrderedTo(new[g], new[g + 1])
<1>1. Len(old) \in Nat /\ Len(new) \in Nat
  OBVIOUS
<1>2. \A g \in 1..Len(old) : old[g] \in Object /\ old[g].born \in Nat /\ old[g].died \in Nat
  BY ObjectFields
<1>3. \A g \in 1..Len(old) : LifetimeOK(old[g], now)
  BY <1>1, <1>2 DEF LifetimeOK
<1>4. CASE Unaffected(old, new)
  BY <1>3, <1>4 DEF Unaffected
<1>5. ASSUME NEW g \in 1..Len(old)
      PROVE  LifetimeOK(Destroyed(old[g], now), now)
  <2>1. /\ old[g].born <= now /\ old[g].born \in Nat
        /\ Destroyed(old[g], now).born = old[g].born
        /\ Destroyed(old[g], now).died = now
    BY <1>2, <1>3, DestroyedIsObject DEF LifetimeOK
  <2>2. QED
    BY <2>1 DEF LifetimeOK
<1>6. CASE LosesNewest(old, new, now)
  <2> DEFINE n == Len(old)
  <2>1. /\ n \in Nat \ {0} /\ Len(new) = n
        /\ \A g \in 1..n-1 : new[g] = old[g]
        /\ new[n] = Destroyed(old[n], now)
    BY <1>1, <1>6 DEF LosesNewest
  <2>2. new[n].born = old[n].born
    <3>1. old[n] \in Object
      BY <1>2, <2>1
    <3>2. Destroyed(old[n], now).born = old[n].born
      BY <3>1, DestroyedIsObject
    <3>3. QED
      BY <2>1, <3>2
  <2>3. \A g \in 1..n : LifetimeOK(new[g], now)
    BY <1>3, <1>5, <2>1
  <2>4. ASSUME NEW g \in 1..n-1
        PROVE  OrderedTo(new[g], new[g + 1])
    <3>1. g \in 1..n /\ g + 1 \in 1..n /\ new[g] = old[g]
      BY <2>1
    <3>2. new[g + 1].born = old[g + 1].born
      BY <2>1, <2>2, <3>1
    <3>3. QED
      BY <3>1, <3>2 DEF OrderedTo
  <2>5. QED
    BY <2>1, <2>3, <2>4
<1>7. CASE GainsOne(old, new, now)
  <2> DEFINE n == Len(old)
  <2>1. /\ n \in Nat /\ Len(new) = n + 1
        /\ \A g \in 1..n-1 : new[g] = old[g]
        /\ n > 0 => \/ ~old[n].alive /\ new[n] = old[n]
                    \/ new[n] = Destroyed(old[n], now)
        /\ new[n + 1].alive /\ new[n + 1].born = now
    BY <1>1, <1>7 DEF GainsOne
  <2>2. n > 0 => /\ LifetimeOK(new[n], now)
                 /\ new[n].born = old[n].born
                 /\ ~new[n].alive /\ new[n].died <= now
    <3>1. SUFFICES ASSUME n > 0
                   PROVE  /\ LifetimeOK(new[n], now)
                          /\ new[n].born = old[n].born
                          /\ ~new[n].alive /\ new[n].died <= now
      OBVIOUS
    <3>2. n \in 1..Len(old)
      BY <2>1, <3>1
    <3>3. CASE ~old[n].alive /\ new[n] = old[n]
      BY <1>3, <3>2, <3>3 DEF LifetimeOK
    <3>4. CASE new[n] = Destroyed(old[n], now)
      <4>1. old[n] \in Object /\ LifetimeOK(new[n], now)
        BY <1>2, <1>5, <3>2, <3>4
      <4>2. /\ ~Destroyed(old[n], now).alive
            /\ Destroyed(old[n], now).died = now
            /\ Destroyed(old[n], now).born = old[n].born
        BY <4>1, DestroyedIsObject
      <4>3. QED
        BY <3>4, <4>1, <4>2
    <3>5. QED
      BY <2>1, <3>1, <3>3, <3>4
  <2>3. LifetimeOK(new[n + 1], now)
    BY <2>1 DEF LifetimeOK
  <2>4. \A g \in 1..n + 1 : LifetimeOK(new[g], now)
    BY <1>3, <2>1, <2>2, <2>3
  <2>5. ASSUME NEW g \in 1..n
        PROVE  OrderedTo(new[g], new[g + 1])
    <3>1. CASE g < n
      <4>1. g \in 1..n-1 /\ g + 1 \in 1..n /\ new[g] = old[g]
        BY <2>1, <3>1
      <4>2. new[g + 1].born = old[g + 1].born
        BY <2>1, <2>2, <4>1
      <4>3. QED
        BY <4>1, <4>2 DEF OrderedTo
    <3>2. CASE g = n
      BY <2>1, <2>2, <3>2 DEF OrderedTo
    <3>3. QED
      BY <2>1, <3>1, <3>2
  <2>6. QED
    BY <2>1, <2>4, <2>5
<1>8. QED
  BY <1>4, <1>6, <1>7
(* At most the newest object of an id is alive, and the objects of one id    *)
(* live one after another, whatever messages arrive.                         *)
THEOREM LifetimesHold == Spec => []LifetimesInOrder
<1>1. Init => LifetimesInOrder
  BY DEF Init, LifetimesInOrder, NewObject, Now
<1>2. CoreInv /\ LifetimesInOrder /\ [Next]_vars => LifetimesInOrder'
  <2> SUFFICES ASSUME CoreInv, LifetimesInOrder, [Next]_vars, NEW id \in Ids
               PROVE  \A g \in 1..Len(db'[id]) :
                        /\ LifetimeOK(db'[id][g], Now')
                        /\ g < Len(db'[id]) => OrderedTo(db'[id][g], db'[id][g + 1])
    BY DEF LifetimesInOrder, LifetimeOK, OrderedTo
  <2>1. /\ CoreInv' /\ Grows(db, db', Now')
        /\ Now \in Nat /\ Now' \in Nat /\ Now <= Now'
    BY StepPreservesCore DEF StepOK, MessagesKept
  <2>2. /\ db[id] \in Seq(Object) /\ db'[id] \in Seq(Object)
        /\ Len(db[id]) \in Nat /\ Len(db'[id]) \in Nat
    BY <2>1 DEF CoreInv, TypeOK
  <2>3. /\ \A g \in 1..Len(db[id]) : LifetimeOK(db[id][g], Now)
        /\ \A g \in 1..Len(db[id])-1 : OrderedTo(db[id][g], db[id][g + 1])
    BY <2>2 DEF LifetimesInOrder, LifetimeOK, OrderedTo
  <2>4. \/ Unaffected(db[id], db'[id])
        \/ LosesNewest(db[id], db'[id], Now')
        \/ GainsOne(db[id], db'[id], Now')
    BY <2>1 DEF Grows
  <2>5. /\ \A g \in 1..Len(db'[id]) : LifetimeOK(db'[id][g], Now')
        /\ \A g \in 1..Len(db'[id])-1 : OrderedTo(db'[id][g], db'[id][g + 1])
    BY <2>1, <2>2, <2>3, <2>4, OrderKept
  <2>6. QED
    BY <2>2, <2>5
<1>3. QED
  BY <1>1, <1>2, CoreInvariant, PTL DEF Spec

(* No step rewrites a stored message after its handler or an object that has *)
(* a successor, and none brings an object back to life.                      *)
THEOREM PastStaysFrozen == Spec => PastIsFrozen
<1> DEFINE Frozen ==
      /\ \A k \in 1..Now :
           (pc = "idle" \/ k < Now) => message_list'[k] = message_list[k]
      /\ \A id \in Ids :
           /\ Len(db'[id]) >= Len(db[id])
           /\ \A g \in 1..Len(db[id]) :
                /\ g < Len(db[id]) => db'[id][g] = db[id][g]
                /\ db'[id][g].type = db[id][g].type
                /\ db'[id][g].born = db[id][g].born
                /\ ~db[id][g].alive => ~db'[id][g].alive
<1>1. CoreInv /\ [Next]_vars => Frozen
  <2> SUFFICES ASSUME CoreInv, [Next]_vars PROVE Frozen
    OBVIOUS
  <2>1. CoreInv' /\ Grows(db, db', Now') /\ MessagesKept
    BY StepPreservesCore DEF StepOK
  <2>2. db \in Databases /\ db' \in Databases /\ Now' \in Nat
    BY <2>1 DEF CoreInv, TypeOK, Databases, MessagesKept
  <2>3. QED
    BY <2>1, <2>2, GrowsKeeps DEF MessagesKept
<1>2. QED
  BY <1>1, CoreInvariant, PTL DEF Spec, PastIsFrozen
------------------------------------------------------------------------------
(* Refinement *)

Generations(d) == [id \in Ids |-> Len(d[id])]

Live(d) == [id \in Ids |-> IF InUse(d, id) THEN LastOf(d, id).type ELSE NoType]

LEMMA DeleteImplements ==
  ASSUME CoreInv, NEW m \in Messages, BeginDeleteId(m)
  PROVE  \E id \in Ids :
           /\ Generations(db)[id] > 0
           /\ Live(db') = [Live(db) EXCEPT ![id] = NoType]
           /\ Generations(db') = Generations(db)
<1> DEFINE id == m.args[1].value
           n == Len(db[id])
<1>1. db \in Databases /\ Now + 1 \in Nat
  BY DEF CoreInv, TypeOK, Databases, Now
<1>2. id \in Ids /\ Used(db, id) /\ db' = DestroyLast(db, id, Now + 1) /\ db' \in Databases
  BY DeleteIdEffect
<1>3. LosesNewest(db[id], db'[id], Now + 1) /\ \A j \in Ids \ {id} : db'[j] = db[j]
  BY <1>1, <1>2, DestroyGrows
<1> HIDE DEF id
<1>4. n \in Nat /\ n > 0 /\ Len(db'[id]) = n /\ db[id][n] \in Object
      /\ db'[id][n] = Destroyed(db[id][n], Now + 1)
  BY <1>1, <1>2, <1>3 DEF LosesNewest, Databases
<1>5. ~db'[id][n].alive
  <2>1. ~Destroyed(db[id][n], Now + 1).alive
    BY <1>1, <1>4, DestroyedIsObject
  <2>2. QED
    BY <1>4, <2>1
<1>6. ~InUse(db', id)
  BY <1>4, <1>5 DEF InUse, LastOf
<1>7. \A j \in Ids \ {id} : InUse(db', j) = InUse(db, j) /\ LastOf(db', j) = LastOf(db, j)
  BY <1>3 DEF InUse, LastOf, Used
<1>8. Live(db') = [Live(db) EXCEPT ![id] = NoType]
  BY <1>2, <1>6, <1>7 DEF Live
<1>9. Generations(db') = Generations(db) /\ Generations(db)[id] > 0
  BY <1>2, <1>3, <1>4 DEF Generations
<1>10. QED
  BY <1>2, <1>8, <1>9

LEMMA CreateImplements ==
  ASSUME CoreInv, ResolveNew
  PROVE  \E id \in Ids, type \in Types :
           /\ id > 1
           /\ Live(db)[id] = NoType \/ id \in ServerIds
           /\ Generations(db') = [Generations(db) EXCEPT ![id] = @ + 1]
           /\ Live(db') = [Live(db) EXCEPT ![id] = type]
<1> DEFINE id == Arg.id
           type == ArgType(db, Current, next)
           n == Len(db[id])
<1>1. /\ id \in Ids /\ type \in Types /\ db' \in Databases
      /\ GainsOne(db[id], db'[id], Now)
      /\ db'[id][n + 1] = NewObject(type, Now)
      /\ \A j \in Ids \ {id} : db'[j] = db[j]
  BY ResolveNewEffect
<1>2. Creatable(db, id, type)
  BY DEF ResolveNew
<1> HIDE DEF id, type
<1>3. db \in Databases /\ n \in Nat /\ Len(db'[id]) = n + 1
  BY <1>1 DEF CoreInv, TypeOK, Databases, GainsOne
<1>4. LastOf(db', id) = NewObject(type, Now)
  BY <1>1, <1>3 DEF LastOf
<1>5. InUse(db', id) /\ LastOf(db', id).type = type
  <2>1. db'[id] # <<>>
    BY <1>1, <1>3 DEF Databases
  <2>2. QED
    BY <1>4, <2>1 DEF InUse, Used, NewObject
<1>6. \A j \in Ids \ {id} : InUse(db', j) = InUse(db, j) /\ LastOf(db', j) = LastOf(db, j)
  BY <1>1 DEF InUse, LastOf, Used
<1>7. Live(db') = [Live(db) EXCEPT ![id] = type]
  BY <1>1, <1>5, <1>6 DEF Live
<1>8. Generations(db') = [Generations(db) EXCEPT ![id] = @ + 1]
  BY <1>1, <1>3 DEF Generations
<1>9. id > 1 /\ (Live(db)[id] = NoType \/ id \in ServerIds)
  BY <1>1, <1>2 DEF Creatable, Live
<1>10. QED
  BY <1>1, <1>7, <1>8, <1>9

LEMMA InitImplements ==
  ASSUME Init
  PROVE  /\ Generations(db) = [id \in Ids |-> IF id = 1 THEN 1 ELSE 0]
         /\ Live(db) = [id \in Ids |-> IF id = 1 THEN "wl_display" ELSE NoType]
<1>1. db = [id \in Ids |-> IF id = 1 THEN <<NewObject("wl_display", 0)>> ELSE <<>>]
  BY DEF Init
<1>2. \A id \in Ids : Len(db[id]) = IF id = 1 THEN 1 ELSE 0
  BY <1>1
<1>3. \A id \in Ids : InUse(db, id) <=> id = 1
  BY <1>1 DEF InUse, Used, LastOf, NewObject
<1>4. 1 \in Ids => LastOf(db, 1).type = "wl_display"
  BY <1>1 DEF LastOf, NewObject
<1>5. QED
  BY <1>2, <1>3, <1>4 DEF Generations, Live

(* The object database of a connection, seen without messages and times, is  *)
(* a run of ObjectLifetimes: ids are only reused when that is legal, and     *)
(* only delete_id and a server's reuse of its id end an object.              *)
THEOREM DatabaseImplements == Spec => ImplementsLifetimes
<1>1. Init => Lifetimes!Init
  BY InitImplements DEF Lifetimes!Init, Generations, Live
<1>2. CoreInv /\ [Next]_vars => [Lifetimes!Next]_(Lifetimes!vars)
  <2> SUFFICES ASSUME CoreInv, [Next]_vars PROVE [Lifetimes!Next]_(Lifetimes!vars)
    OBVIOUS
  <2>1. CASE db' = db
    BY <2>1 DEF Lifetimes!vars, InUse, Used, LastOf
  <2>2. ASSUME NEW m \in Messages, BeginDeleteId(m) PROVE Lifetimes!Next
    BY <2>2, DeleteImplements DEF Lifetimes!Next, Lifetimes!Delete, Generations, Live
  <2>3. CASE ResolveNew
    BY <2>3, CreateImplements DEF Lifetimes!Next, Lifetimes!Create, Generations, Live
  <2>4. \/ db' = db \/ ResolveNew \/ \E m \in Messages : BeginDeleteId(m)
    BY DEF Next, Begin, Resolve, BeginRaises, BeginOther, ResolveRaises, ResolvePlain,
           ResolveExisting, Finish, Close, vars
  <2>5. QED
    BY <2>1, <2>2, <2>3, <2>4
<1>3. QED
  BY <1>1, <1>2, CoreInvariant, PTL DEF Spec, ImplementsLifetimes, Lifetimes!Spec
------------------------------------------------------------------------------
(* What messages refer to *)

(* The two parts of ReferencesInLifetime for one entry, of any database.     *)
Newest(d, id, g, k) ==
  /\ g > 0 => d[id][g].born < k
  /\ g < Len(d[id]) => d[id][g + 1].born >= k

TargetOK(d, e, k) ==
  \E g \in 0..Len(d[e.msg.id]) :
    /\ Newest(d, e.msg.id, g, k)
    /\ e.obj = IF g > 0 /\ e.msg.type \in {NoType, d[e.msg.id][g].type} THEN g ELSE 0

DestroyedOK(d, e, k) ==
  e.destroyed > 0 =>
    /\ IsDeleteId(e) /\ HasKind(e.msg, 1, "int") /\ e.msg.args[1].value \in Ids
    /\ e.destroyed <= Len(d[e.msg.args[1].value])
    /\ Newest(d, e.msg.args[1].value, e.destroyed, k)

ArgOK(d, e, i, k) ==
  e.objs[i] > 0 =>
    /\ HasKind(e.msg, i, "object")
    /\ e.objs[i] <= Len(d[e.msg.args[i].id])
    /\ d[e.msg.args[i].id][e.objs[i]].born <= k
    /\ ArgType(d, e, i) \in {NoType, d[e.msg.args[i].id][e.objs[i]].type}
    /\ e.objs[i] < Len(d[e.msg.args[i].id]) =>
         d[e.msg.args[i].id][e.objs[i] + 1].born >= k

EntryRefersOK(d, e, k) ==
  /\ TargetOK(d, e, k)
  /\ DestroyedOK(d, e, k)
  /\ \A i \in 1..Len(e.objs) : ArgOK(d, e, i, k)

LEMMA RefersDef ==
  ReferencesInLifetime <=> \A k \in 1..Now : EntryRefersOK(db, message_list[k], k)
BY DEF ReferencesInLifetime, TargetsInLifetime, ArgsInLifetime, NewestBefore, EntryRefersOK,
       TargetOK, DestroyedOK, ArgOK, Newest

LEMMA LengthIsNat ==
  ASSUME NEW d \in Databases, NEW id \in Ids
  PROVE  Len(d[id]) \in Nat
BY DEF Databases

(* Whatever becomes of the database, the next object of an id is not born    *)
(* before what has happened.                                                 *)
LEMMA SuccessorIsLater ==
  ASSUME NEW d \in Databases, NEW f \in Databases, NEW now \in Nat, Grows(d, f, now),
         NEW id \in Ids, NEW g \in 0..Len(d[id]), NEW k \in Nat, k <= now,
         g < Len(d[id]) => d[id][g + 1].born >= k
  PROVE  /\ g \in 0..Len(f[id])
         /\ g < Len(f[id]) => f[id][g + 1].born >= k
<1>1. d[id] \in Seq(Object) /\ f[id] \in Seq(Object)
  BY DEF Databases
<1>2. Len(d[id]) \in Nat /\ Len(f[id]) \in Nat
  BY <1>1
<1>3. /\ Len(f[id]) >= Len(d[id])
      /\ \A h \in 1..Len(d[id]) : f[id][h].born = d[id][h].born
  BY GrowsKeeps
<1>4. g \in 0..Len(f[id])
  BY <1>2, <1>3
<1>5. CASE g < Len(d[id])
  <2>1. g + 1 \in 1..Len(d[id])
    BY <1>2, <1>5
  <2>2. QED
    BY <1>3, <1>4, <1>5, <2>1
<1>6. CASE g = Len(d[id]) /\ g < Len(f[id])
  <2>1. GainsOne(d[id], f[id], now)
    BY <1>2, <1>6 DEF Grows, Unaffected, LosesNewest
  <2>2. f[id][g + 1].born = now
    BY <1>2, <1>6, <2>1 DEF GainsOne
  <2>3. QED
    BY <1>4, <2>2
<1>7. QED
  BY <1>2, <1>4, <1>5, <1>6

LEMMA NewestStays ==
  ASSUME NEW d \in Databases, NEW f \in Databases, NEW now \in Nat, Grows(d, f, now),
         NEW id \in Ids, NEW g \in 0..Len(d[id]), NEW k \in Nat, k <= now,
         Newest(d, id, g, k)
  PROVE  Newest(f, id, g, k) /\ g \in 0..Len(f[id])
<1>1. /\ g \in 0..Len(f[id])
      /\ g < Len(f[id]) => f[id][g + 1].born >= k
  BY SuccessorIsLater DEF Newest
<1>2. Len(d[id]) \in Nat
  BY DEF Databases
<1>3. g > 0 => f[id][g].born = d[id][g].born
  <2>1. g > 0 => g \in 1..Len(d[id])
    BY <1>2
  <2>2. QED
    BY <2>1, GrowsKeeps
<1>4. QED
  BY <1>1, <1>3 DEF Newest

(* So references stay right when the database grows later.                   *)
LEMMA RefersStays ==
  ASSUME NEW d \in Databases, NEW f \in Databases, NEW now \in Nat, Grows(d, f, now),
         NEW e \in Entry, e.obj <= Len(d[e.msg.id]),
         NEW k \in Nat, k <= now
  PROVE  /\ TargetOK(d, e, k) => TargetOK(f, e, k)
         /\ DestroyedOK(d, e, k) => DestroyedOK(f, e, k)
         /\ \A i \in 1..Len(e.objs) :
              /\ ArgType(f, e, i) = ArgType(d, e, i)
              /\ ArgOK(d, e, i, k) => ArgOK(f, e, i, k)
<1>1. e.msg \in Messages /\ e.msg.id \in Ids
  BY MessageTypes DEF Entry
<1>2. ASSUME TargetOK(d, e, k) PROVE TargetOK(f, e, k)
  <2>1. PICK g \in 0..Len(d[e.msg.id]) :
          /\ Newest(d, e.msg.id, g, k)
          /\ e.obj = IF g > 0 /\ e.msg.type \in {NoType, d[e.msg.id][g].type} THEN g ELSE 0
    BY <1>2 DEF TargetOK
  <2>2. Newest(f, e.msg.id, g, k) /\ g \in 0..Len(f[e.msg.id])
    BY <1>1, <2>1, NewestStays
  <2>3. g > 0 => f[e.msg.id][g].type = d[e.msg.id][g].type
    <3>1. Len(d[e.msg.id]) \in Nat
      BY <1>1 DEF Databases
    <3>2. g > 0 => g \in 1..Len(d[e.msg.id])
      BY <3>1
    <3>3. QED
      BY <1>1, <3>2, GrowsKeeps
  <2>4. QED
    BY <2>1, <2>2, <2>3 DEF TargetOK
<1>3. ASSUME DestroyedOK(d, e, k), e.destroyed > 0 PROVE DestroyedOK(f, e, k)
  <2> DEFINE id == e.msg.args[1].value
  <2>1. /\ IsDeleteId(e) /\ HasKind(e.msg, 1, "int") /\ id \in Ids
        /\ e.destroyed <= Len(d[id])
        /\ Newest(d, id, e.destroyed, k)
    BY <1>3 DEF DestroyedOK
  <2>2. e.destroyed \in Nat
    BY DEF Entry
  <2>3. Len(d[id]) \in Nat /\ Len(f[id]) \in Nat
    BY <2>1, LengthIsNat
  <2>4. e.destroyed \in 0..Len(d[id])
    BY <2>1, <2>2, <2>3
  <2>5. Newest(f, id, e.destroyed, k) /\ e.destroyed \in 0..Len(f[id])
    BY <2>1, <2>4, NewestStays
  <2>6. QED
    BY <2>1, <2>3, <2>5 DEF DestroyedOK
<1>4. ASSUME NEW i \in 1..Len(e.objs)
      PROVE  ArgType(f, e, i) = ArgType(d, e, i)
  BY TargetTypeStable DEF ArgType, IsBind
<1>5. ASSUME NEW i \in 1..Len(e.objs), ArgOK(d, e, i, k), e.objs[i] > 0
      PROVE  ArgOK(f, e, i, k)
  <2> DEFINE id == e.msg.args[i].id
             g == e.objs[i]
  <2>1. /\ HasKind(e.msg, i, "object")
        /\ g <= Len(d[id])
        /\ d[id][g].born <= k
        /\ ArgType(d, e, i) \in {NoType, d[id][g].type}
        /\ g < Len(d[id]) => d[id][g + 1].born >= k
    BY <1>5 DEF ArgOK
  <2>2. id \in Ids
    BY <1>1, <2>1, MessageTypes DEF HasKind
  <2>3. g \in Nat /\ Len(d[id]) \in Nat /\ Len(f[id]) \in Nat
    BY <2>2, LengthIsNat, SMTT(20) DEF Entry
  <2>4. g \in 1..Len(d[id]) /\ g \in 0..Len(d[id])
    <3>1. g > 0
      BY <1>5
    <3> HIDE DEF id, g
    <3>2. QED
      BY <2>1, <2>3, <3>1
  <2>5. f[id][g].born = d[id][g].born /\ f[id][g].type = d[id][g].type
    BY <2>2, <2>4, GrowsKeeps, ZenonT(30)
  <2>6. g \in 0..Len(f[id]) /\ (g < Len(f[id]) => f[id][g + 1].born >= k)
    BY <2>1, <2>2, <2>4, SuccessorIsLater
  <2>7. ArgType(f, e, i) \in {NoType, f[id][g].type}
    BY <1>4, <2>1, <2>5
  <2>8. g <= Len(f[id])
    BY <2>3, <2>6
  <2>9. QED
    BY <2>1, <2>5, <2>6, <2>7, <2>8 DEF ArgOK
<1>6. QED
  BY <1>2, <1>3, <1>4, <1>5 DEF DestroyedOK, ArgOK

(* When a message arrives the newest object of an id is the newest before.   *)
LEMMA LastIsNewest ==
  ASSUME CoreInv, LifetimesInOrder, NEW id \in Ids
  PROVE  Newest(db, id, Len(db[id]), Now + 1)
<1>1. db[id] \in Seq(Object) /\ Len(db[id]) \in Nat /\ Now \in Nat
  BY DEF CoreInv, TypeOK, Now
<1>2. \A g \in 1..Len(db[id]) : db[id][g].born \in Nat /\ db[id][g].born <= Now
  BY <1>1, ObjectFields DEF LifetimesInOrder
<1>3. QED
  BY <1>1, <1>2 DEF Newest

LEMMA StoredTargetOK ==
  ASSUME CoreInv, LifetimesInOrder, NEW m \in Messages,
         NEW e \in Entry, e.msg = m, e.obj = Retrieve(db, m.id, m.type)
  PROVE  TargetOK(db, e, Now + 1)
<1> DEFINE n == Len(db[m.id])
<1>1. m.id \in Ids
  BY MessageTypes
<1>2. n \in Nat /\ (n > 0 <=> Used(db, m.id))
  BY <1>1 DEF CoreInv, TypeOK, Used
<1>3. Newest(db, m.id, n, Now + 1)
  BY <1>1, LastIsNewest
<1>4. e.obj = IF n > 0 /\ m.type \in {NoType, db[m.id][n].type} THEN n ELSE 0
  BY <1>2 DEF Retrieve, LastOf
<1>5. n \in 0..n
  BY <1>2
<1>6. QED
  BY <1>3, <1>4, <1>5 DEF TargetOK

(* A step that stores a message.                                             *)
LEMMA BeginRefers ==
  ASSUME CoreInv, LifetimesInOrder, ReferencesInLifetime,
         NEW m \in Messages, BeginRaises(m) \/ BeginDeleteId(m) \/ BeginOther(m)
  PROVE  ReferencesInLifetime'
<1> DEFINE s == Stored(db, m)
           id == m.args[1].value
           n == Len(db[id])
<1>1. db \in Databases /\ message_list \in Seq(Entry) /\ Now \in Nat
  BY DEF CoreInv, TypeOK, Databases, Now
<1>2. /\ s \in Entry /\ s.msg = m /\ s.destroyed = 0
      /\ s.obj = Retrieve(db, m.id, m.type)
      /\ s.obj <= Len(db[m.id])
      /\ Len(s.objs) = Len(m.args)
      /\ \A i \in 1..Len(m.args) : s.objs[i] = 0
  BY <1>1, StoredIsEntry
<1>3. db' \in Databases /\ Grows(db, db', Now + 1)
  <2>1. CASE BeginDeleteId(m)
    BY <2>1, DeleteIdEffect
  <2>2. CASE BeginRaises(m) \/ BeginOther(m)
    BY <1>1, <2>2, SameGrows DEF BeginRaises, BeginOther
  <2>3. QED
    BY <2>1, <2>2
<1>4. PICK e \in Entry :
        /\ message_list' = Append(message_list, e)
        /\ e.msg = m /\ e.obj = s.obj /\ e.objs = s.objs
        /\ DestroyedOK(db, e, Now + 1)
  <2>1. CASE BeginDeleteId(m)
    <3> DEFINE e == [s EXCEPT !.destroyed = n]
    <3>1. /\ message_list' = Append(message_list, e)
          /\ IsDeleteId(s) /\ GoodDeleteId(db, m)
      BY <2>1 DEF BeginDeleteId
    <3>2. HasKind(m, 1, "int") /\ id \in Ids
      BY <3>1 DEF GoodDeleteId
    <3>3. n \in Nat
      BY <1>1, <3>2 DEF Databases
    <3> HIDE DEF s
    <3>4. /\ e \in Entry /\ e.msg = m /\ e.obj = s.obj /\ e.objs = s.objs
          /\ e.destroyed = n
      BY <1>2, <3>3 DEF Entry
    <3> HIDE DEF e
    <3>5. IsDeleteId(e)
      BY <1>2, <3>1, <3>4 DEF IsDeleteId
    <3>6. Newest(db, id, n, Now + 1)
      BY <3>2, LastIsNewest
    <3>7. DestroyedOK(db, e, Now + 1)
      BY <3>2, <3>3, <3>4, <3>5, <3>6 DEF DestroyedOK
    <3>8. QED
      BY <3>1, <3>4, <3>7
  <2>2. CASE BeginRaises(m) \/ BeginOther(m)
    <3>1. message_list' = Append(message_list, s)
      BY <2>2 DEF BeginRaises, BeginOther
    <3> HIDE DEF s
    <3>2. DestroyedOK(db, s, Now + 1)
      BY <1>2 DEF DestroyedOK
    <3>3. QED
      BY <1>2, <3>1, <3>2
  <2>3. QED
    BY <2>1, <2>2
<1> HIDE DEF s
<1>5. /\ Now' = Now + 1
      /\ \A k \in 1..Now : message_list'[k] = message_list[k]
      /\ message_list'[Now + 1] = e
  BY <1>1, <1>4, AppendedEntry
<1>6. EntryRefersOK(db', e, Now + 1)
  <2>1. TargetOK(db, e, Now + 1)
    BY <1>2, <1>4, StoredTargetOK
  <2>2. \A i \in 1..Len(e.objs) : ArgOK(db, e, i, Now + 1)
    BY <1>2, <1>4 DEF ArgOK
  <2>3. Now + 1 \in Nat /\ Now + 1 <= Now + 1 /\ e.obj <= Len(db[e.msg.id])
    BY <1>1, <1>2, <1>4
  <2>4. QED
    BY <1>1, <1>3, <1>4, <2>1, <2>2, <2>3, RefersStays DEF EntryRefersOK
<1>7. ASSUME NEW k \in 1..Now
      PROVE  EntryRefersOK(db', message_list[k], k)
  <2>1. EntryRefersOK(db, message_list[k], k)
    BY RefersDef
  <2>2. message_list[k] \in Entry /\ k \in Nat /\ k <= Now + 1 /\ Now + 1 \in Nat
    BY <1>1 DEF Now
  <2>3. message_list[k].obj <= Len(db[message_list[k].msg.id])
    BY DEF CoreInv, EntriesOK
  <2>4. QED
    BY <1>1, <1>3, <2>1, <2>2, <2>3, RefersStays DEF EntryRefersOK
<1>8. \A k \in 1..Now' : EntryRefersOK(db', message_list'[k], k)
  BY <1>1, <1>5, <1>6, <1>7
<1>9. QED
  BY <1>8 DEF ReferencesInLifetime, TargetsInLifetime, ArgsInLifetime, NewestBefore,
              EntryRefersOK, TargetOK, DestroyedOK, ArgOK, Newest

(* A step that resolves an object argument of the last message.              *)
LEMMA ResolveRefers ==
  ASSUME CoreInv, LifetimesInOrder', ReferencesInLifetime,
         AtArg, Arg.kind = "object",
         db' \in Databases, Grows(db, db', Now), ResolveArgIn(db')
  PROVE  ReferencesInLifetime'
<1> DEFINE t == ArgType(db, Current, next)
           id == Arg.id
           g == Retrieve(db', id, t)
           c == WithObj(Current, next, g)
<1>1. /\ db \in Databases /\ message_list \in Seq(Entry)
      /\ Now \in Nat \ {0} /\ Current \in Entry
      /\ next \in 1..Len(Current.objs) /\ next \in 1..Len(Current.msg.args)
      /\ Current.obj <= Len(db[Current.msg.id])
  BY AtArgFacts
<1>2. id \in Ids /\ g \in Nat /\ g \in 0..Len(db'[id])
  BY ArgTypeIsType, RetrieveInRange
<1>3. message_list' = [message_list EXCEPT ![Now] = c]
  <2>1. message_list' = [message_list EXCEPT ![Now].objs[next] = g]
    BY Zenon DEF ResolveArgIn
  <2>2. QED
    BY <1>2, <2>1, ResolvedEntry, Zenon
<1>4. /\ c \in Entry /\ c.msg = Current.msg /\ c.obj = Current.obj
      /\ c.destroyed = Current.destroyed
      /\ c.objs = [Current.objs EXCEPT ![next] = g] /\ Len(c.objs) = Len(Current.objs)
  BY <1>1, <1>2, ResolvedIsEntry
<1>5. g > 0 => /\ g = Len(db'[id]) /\ t \in {NoType, db'[id][g].type}
               /\ db'[id][g].born <= Now'
  <2>1. g > 0 => /\ g = Len(db'[id])
                 /\ t = NoType \/ LastOf(db', id).type = t
    BY DEF Retrieve
  <2>2. g > 0 => g \in 1..Len(db'[id])
    BY <1>2, <2>1
  <2>3. QED
    BY <1>2, <2>1, <2>2 DEF LifetimesInOrder, LastOf
<1> HIDE DEF g, c, t
<1>6. /\ Now' = Now
      /\ \A k \in 1..Now - 1 : message_list'[k] = message_list[k]
      /\ message_list'[Now] = c
  BY <1>3, <1>4, ResolveKeepsEntries DEF AtArg
<1>7. ASSUME NEW k \in 1..Now
      PROVE  /\ EntryRefersOK(db, message_list[k], k)
             /\ EntryRefersOK(db', message_list[k], k)
  <2>1. EntryRefersOK(db, message_list[k], k)
    BY RefersDef
  <2>2. message_list[k] \in Entry /\ k \in Nat /\ k <= Now /\ Now \in Nat
    BY <1>1 DEF Now
  <2>3. message_list[k].obj <= Len(db[message_list[k].msg.id])
    BY DEF CoreInv, EntriesOK
  <2>4. QED
    BY <1>1, <2>1, <2>2, <2>3, RefersStays DEF EntryRefersOK
<1>8. EntryRefersOK(db', c, Now)
  <2>1. EntryRefersOK(db', Current, Now)
    BY <1>1, <1>7 DEF Current
  <2>2. TargetOK(db', c, Now) /\ DestroyedOK(db', c, Now)
    BY <1>4, <2>1 DEF EntryRefersOK, TargetOK, DestroyedOK, IsDeleteId
  <2>3. \A i \in 1..Len(c.objs) : ArgType(db', c, i) = ArgType(db', Current, i)
    BY <1>4 DEF ArgType, IsBind, TargetType
  <2>4. ASSUME NEW i \in 1..Len(c.objs) PROVE ArgOK(db', c, i, Now)
    <3>1. CASE i = next
      <4>1. c.objs[i] = g /\ c.msg.args[i].id = id
        BY <1>1, <1>4, <3>1 DEF Entry, Arg
      <4>2. HasKind(c.msg, i, "object")
        BY <1>1, <1>4, <3>1 DEF HasKind, Arg
      <4>3. ArgType(db', c, i) = t
        <5>1. ArgType(db', Current, i) = ArgType(db, Current, i)
          BY <1>1, <1>4, RefersStays
        <5>2. QED
          BY <2>3, <3>1, <5>1 DEF t
      <4>4. Len(db'[id]) \in Nat
        BY <1>2 DEF Databases
      <4>5. QED
        BY <1>2, <1>5, <1>6, <4>1, <4>2, <4>3, <4>4 DEF ArgOK
    <3>2. CASE i # next
      <4>1. c.objs[i] = Current.objs[i]
        BY <1>1, <1>4, <3>2 DEF Entry
      <4>2. ArgOK(db', Current, i, Now)
        BY <1>4, <2>1 DEF EntryRefersOK
      <4>3. QED
        BY <1>4, <2>3, <4>1, <4>2 DEF ArgOK
    <3>3. QED
      BY <3>1, <3>2
  <2>5. QED
    BY <2>2, <2>4 DEF EntryRefersOK
<1>9. \A k \in 1..Now' : EntryRefersOK(db', message_list'[k], k)
  <2>1. SUFFICES ASSUME NEW k \in 1..Now PROVE EntryRefersOK(db', message_list'[k], k)
    BY <1>6
  <2>2. k = Now \/ k \in 1..Now - 1
    BY <1>1
  <2>3. QED
    BY <1>6, <1>7, <1>8, <2>2
<1>10. QED
  BY <1>9 DEF ReferencesInLifetime, TargetsInLifetime, ArgsInLifetime, NewestBefore,
              EntryRefersOK, TargetOK, DestroyedOK, ArgOK, Newest

(* Every message is attributed for ever to the objects its ids named when it *)
(* arrived, though ids are reused and objects are created while it is        *)
(* resolved.                                                                 *)
THEOREM ReferencesHold == Spec => []ReferencesInLifetime
<1>1. Init => ReferencesInLifetime
  BY DEF Init, ReferencesInLifetime, TargetsInLifetime, ArgsInLifetime, Now
<1>2. CoreInv /\ LifetimesInOrder /\ LifetimesInOrder' /\ ReferencesInLifetime /\ [Next]_vars
        => ReferencesInLifetime'
  <2>1. SUFFICES ASSUME CoreInv, LifetimesInOrder, LifetimesInOrder', ReferencesInLifetime,
                        [Next]_vars
                 PROVE  ReferencesInLifetime'
    OBVIOUS
  <2>2. CASE Begin
    BY <2>1, <2>2, BeginRefers DEF Begin
  <2>3. CASE ResolveExisting
    <3>1. AtArg /\ Arg.kind = "object" /\ db' = db /\ ResolveArgIn(db)
      BY <2>3 DEF ResolveExisting
    <3>2. Grows(db, db', Now) /\ db' \in Databases
      BY <2>1, <3>1, SameGrows, AtArgFacts
    <3>3. ResolveArgIn(db')
      BY <3>1 DEF ResolveArgIn
    <3>4. QED
      BY <2>1, <3>1, <3>2, <3>3, ResolveRefers
  <2>4. CASE ResolveNew
    <3>1. AtArg /\ Arg.kind = "object" /\ ResolveArgIn(db')
      BY <2>4 DEF ResolveNew
    <3>2. QED
      BY <2>1, <2>4, <3>1, ResolveNewEffect, ResolveRefers
  <2>5. CASE ResolveRaises \/ ResolvePlain \/ Finish \/ Close \/ UNCHANGED vars
    <3>1. UNCHANGED <<db, message_list>>
      BY <2>5 DEF ResolveRaises, ResolvePlain, Finish, Close, vars
    <3>2. \A k \in 1..Now' : EntryRefersOK(db', message_list'[k], k)
      BY <2>1, <3>1, RefersDef DEF Now
    <3>3. QED
      BY <3>2 DEF ReferencesInLifetime, TargetsInLifetime, ArgsInLifetime, NewestBefore,
                  EntryRefersOK, TargetOK, DestroyedOK, ArgOK, Newest
  <2>6. QED
    BY <2>1, <2>2, <2>3, <2>4, <2>5 DEF Next, Resolve
<1>3. QED
  BY <1>1, <1>2, CoreInvariant, LifetimesHold, PTL DEF Spec

(* Whatever messages come and however handlers fail, the listener was last   *)
(* told to draw the connection with the title and the state it has now.      *)
THEOREM ListenerStaysUpToDate == Spec => []ListenerUpToDate
<1>1. Init => ListenerUpToDate
  BY DEF Init, ListenerUpToDate
<1>2. ListenerUpToDate /\ [Next]_vars => ListenerUpToDate'
  <2>1. SUFFICES ASSUME ListenerUpToDate, [Next]_vars PROVE ListenerUpToDate'
    OBVIOUS
  <2>2. CASE Begin
    BY <2>1, <2>2 DEF Begin, BeginRaises, BeginDeleteId, BeginOther, ListenerUnchanged,
                      ListenerUpToDate
  <2>3. CASE Resolve
    BY <2>1, <2>3 DEF Resolve, ResolveRaises, ResolvePlain, ResolveNew, ResolveExisting,
                      ResolveArgIn, ListenerUnchanged, ListenerUpToDate
  <2>4. CASE Finish
    BY <2>1, <2>4 DEF Finish, Unless, ListenerUpToDate
  <2>5. CASE Close
    BY <2>5 DEF Close, ListenerUpToDate
  <2>6. CASE UNCHANGED vars
    BY <2>1, <2>6 DEF vars, ListenerUpToDate
  <2>7. QED
    BY <2>1, <2>2, <2>3, <2>4, <2>5, <2>6 DEF Next
<1>3. QED
  BY <1>1, <1>2, PTL DEF Spec
------------------------------------------------------------------------------
(* What messages create and destroy *)

(* How the entry of the last message changes when an argument is resolved.   *)
ResolvesTo(c) ==
  /\ c.msg = Current.msg /\ c.obj = Current.obj /\ c.destroyed = Current.destroyed
  /\ Len(c.objs) = Len(Current.objs)
  /\ c.objs[next] = Retrieve(db', Arg.id, ArgType(db, Current, next))
  /\ \A i \in 1..Len(c.objs) : i # next => c.objs[i] = Current.objs[i]
  /\ Now' = Now
  /\ message_list'[Now] = c
  /\ \A k \in 1..Now - 1 : message_list'[k] = message_list[k]
  /\ next' = next + 1 /\ pc' = pc

LEMMA ResolveEffect ==
  ASSUME CoreInv, AtArg, Arg.kind = "object",
         db' \in Databases, Grows(db, db', Now), ResolveArgIn(db')
  PROVE  \E c \in Entry : ResolvesTo(c)
<1> DEFINE g == Retrieve(db', Arg.id, ArgType(db, Current, next))
           c == WithObj(Current, next, g)
<1>1. Current \in Entry /\ next \in 1..Len(Current.objs)
  BY AtArgFacts
<1>2. g \in Nat
  BY ArgTypeIsType, RetrieveInRange
<1>3. message_list' = [message_list EXCEPT ![Now] = c]
  <2>1. message_list' = [message_list EXCEPT ![Now].objs[next] = g]
    BY Zenon DEF ResolveArgIn
  <2>2. QED
    BY <1>2, <2>1, ResolvedEntry, Zenon
<1>4. next' = next + 1 /\ pc' = pc
  BY Zenon DEF ResolveArgIn
<1>5. /\ c \in Entry /\ c.msg = Current.msg /\ c.obj = Current.obj
      /\ c.destroyed = Current.destroyed
      /\ c.objs = [Current.objs EXCEPT ![next] = g] /\ Len(c.objs) = Len(Current.objs)
  BY <1>1, <1>2, ResolvedIsEntry
<1> HIDE DEF c, g
<1>6. /\ Now' = Now
      /\ \A k \in 1..Now - 1 : message_list'[k] = message_list[k]
      /\ message_list'[Now] = c
  BY <1>3, <1>5, ResolveKeepsEntries DEF AtArg
<1>7. /\ c.objs[next] = g
      /\ \A i \in 1..Len(c.objs) : i # next => c.objs[i] = Current.objs[i]
  BY <1>1, <1>5 DEF Entry
<1>8. QED
  BY <1>4, <1>5, <1>6, <1>7 DEF ResolvesTo, g

(* Arguments not reached yet are not resolved.                               *)
LaterUnresolved ==
  pc = "args" => \A i \in 1..Len(Current.objs) : i >= next => Current.objs[i] = 0

(* What a step does to the messages, without the reasons for it.             *)
NothingStored == UNCHANGED <<db, message_list>>

MessageStored(m) ==
  \E e \in Entry :
    /\ message_list' = Append(message_list, e)
    /\ e.msg = m /\ \A i \in 1..Len(e.objs) : e.objs[i] = 0
    /\ next' = 1
    /\ \/ db' = db
       \/ /\ m.args[1].value \in Ids
          /\ LosesNewest(db[m.args[1].value], db'[m.args[1].value], Now + 1)
          /\ \A j \in Ids \ {m.args[1].value} : db'[j] = db[j]
          /\ e.destroyed = Len(db[m.args[1].value])

LEMMA BeginEffect ==
  ASSUME CoreInv, NEW m \in Messages, BeginRaises(m) \/ BeginDeleteId(m) \/ BeginOther(m)
  PROVE  MessageStored(m)
<1> DEFINE s == Stored(db, m)
           id == m.args[1].value
           n == Len(db[id])
<1>1. db \in Databases /\ Now \in Nat
  BY DEF CoreInv, TypeOK, Databases, Now
<1>2. /\ s \in Entry /\ s.msg = m /\ Len(s.objs) = Len(m.args)
      /\ \A i \in 1..Len(s.objs) : s.objs[i] = 0
  BY <1>1, StoredIsEntry
<1>3. next' = 1
  BY DEF BeginRaises, BeginDeleteId, BeginOther, Raise
<1>4. CASE BeginDeleteId(m)
  <2> DEFINE e == [s EXCEPT !.destroyed = n]
  <2>1. id \in Ids /\ Used(db, id) /\ db' = DestroyLast(db, id, Now + 1)
    BY <1>4, DeleteIdEffect
  <2>2. /\ LosesNewest(db[id], db'[id], Now + 1)
        /\ \A j \in Ids \ {id} : db'[j] = db[j]
    BY <1>1, <2>1, DestroyGrows
  <2>3. message_list' = Append(message_list, e)
    BY <1>4 DEF BeginDeleteId
  <2>4. n \in Nat
    BY <1>1, <2>1, LengthIsNat
  <2> HIDE DEF s
  <2>5. e \in Entry /\ e.msg = m /\ e.objs = s.objs /\ e.destroyed = n
    BY <1>2, <2>4 DEF Entry
  <2> HIDE DEF e
  <2>6. QED
    BY <1>2, <1>3, <2>1, <2>2, <2>3, <2>5 DEF MessageStored
<1>5. CASE BeginRaises(m) \/ BeginOther(m)
  <2>1. message_list' = Append(message_list, s) /\ db' = db
    BY <1>5 DEF BeginRaises, BeginOther
  <2> HIDE DEF s
  <2>2. QED
    BY <1>2, <1>3, <2>1 DEF MessageStored
<1>6. QED
  BY <1>4, <1>5

LEMMA StoredEffect ==
  ASSUME CoreInv, NEW e \in Entry, message_list' = Append(message_list, e)
  PROVE  /\ Now \in Nat /\ Now' = Now + 1
         /\ \A k \in 1..Now : message_list'[k] = message_list[k]
         /\ message_list'[Now'] = e
BY AppendedEntry DEF CoreInv, TypeOK

(* Every step is one of these.                                               *)
LEMMA StepEffect ==
  ASSUME CoreInv, [Next]_vars
  PROVE  \/ NothingStored /\ (pc' = "args" => pc = "args" /\ next' >= next)
         \/ \E m \in Messages : MessageStored(m)
         \/ (ResolveNew \/ ResolveExisting) /\ \E c \in Entry : ResolvesTo(c)
<1>1. CASE Begin
  BY <1>1, BeginEffect DEF Begin
<1>2. CASE ResolveExisting
  <2>1. AtArg /\ Arg.kind = "object" /\ db' = db /\ ResolveArgIn(db)
    BY <1>2 DEF ResolveExisting
  <2>2. Grows(db, db', Now) /\ db' \in Databases
    BY <2>1, SameGrows, AtArgFacts
  <2>3. ResolveArgIn(db')
    BY <2>1 DEF ResolveArgIn
  <2>4. QED
    BY <1>2, <2>1, <2>2, <2>3, ResolveEffect
<1>3. CASE ResolveNew
  <2>1. AtArg /\ Arg.kind = "object" /\ ResolveArgIn(db')
    BY <1>3 DEF ResolveNew
  <2>2. QED
    BY <1>3, <2>1, ResolveNewEffect, ResolveEffect
<1>4. CASE ResolveRaises \/ ResolvePlain \/ Finish \/ Close \/ UNCHANGED vars
  <2>1. next \in Nat
    BY DEF CoreInv, TypeOK
  <2>2. NothingStored
    BY <1>4 DEF ResolveRaises, ResolvePlain, Finish, Close, vars, NothingStored
  <2>3. pc' = "args" => pc = "args" /\ next' >= next
    <3>1. CASE ResolveRaises \/ Finish \/ Close
      BY <3>1 DEF ResolveRaises, Raise, Finish, Close
    <3>2. CASE ResolvePlain
      BY <2>1, <3>2 DEF ResolvePlain, AtArg
    <3>3. CASE UNCHANGED vars
      BY <2>1, <3>3 DEF vars
    <3>4. QED
      BY <1>4, <3>1, <3>2, <3>3
  <2>4. QED
    BY <2>2, <2>3
<1>5. QED
  BY <1>1, <1>2, <1>3, <1>4 DEF Next, Resolve

LEMMA LaterStayUnresolved ==
  ASSUME CoreInv, LaterUnresolved, [Next]_vars
  PROVE  LaterUnresolved'
<1>1. next \in Nat \ {0} /\ Now \in Nat
  BY DEF CoreInv, TypeOK, Now
<1>2. CASE NothingStored /\ (pc' = "args" => pc = "args" /\ next' >= next)
  <2>1. next' \in Nat
    BY StepPreservesCore DEF StepOK, CoreInv, TypeOK
  <2>2. Current' = Current
    BY <1>2 DEF NothingStored, Current, Now
  <2>3. QED
    BY <1>1, <1>2, <2>1, <2>2 DEF LaterUnresolved
<1>3. CASE \E m \in Messages : MessageStored(m)
  <2>1. PICK e \in Entry : /\ message_list' = Append(message_list, e)
                           /\ \A i \in 1..Len(e.objs) : e.objs[i] = 0
    BY <1>3 DEF MessageStored
  <2>2. Current' = e
    BY <2>1, StoredEffect DEF Current
  <2>3. QED
    BY <2>1, <2>2 DEF LaterUnresolved
<1>4. CASE (ResolveNew \/ ResolveExisting) /\ \E c \in Entry : ResolvesTo(c)
  <2>1. PICK c \in Entry : ResolvesTo(c)
    BY <1>4
  <2>2. Current' = c /\ next' = next + 1 /\ pc = "args"
    BY <1>4, <2>1 DEF ResolvesTo, Current, ResolveNew, ResolveExisting, AtArg
  <2>3. \A i \in 1..Len(c.objs) : i >= next + 1 => c.objs[i] = 0
    BY <1>1, <2>1, <2>2 DEF ResolvesTo, LaterUnresolved
  <2>4. QED
    BY <2>2, <2>3 DEF LaterUnresolved
<1>5. QED
  BY <1>2, <1>3, <1>4, StepEffect

(* The message and the argument that explain the birth of an object.         *)
Bears(d, e, i, id, g) ==
  /\ e.objs[i] = g
  /\ e.msg.args[i].is_new /\ e.msg.args[i].id = id
  /\ ArgType(d, e, i) = d[id][g].type

BirthOK(d, messages, id, g, now) ==
  /\ d[id][g].born \in 1..now
  /\ \E i \in 1..Len(messages[d[id][g].born].objs) :
       Bears(d, messages[d[id][g].born], i, id, g)

LEMMA BirthsDef ==
  BirthsExplained <=>
    \A id \in Ids : \A g \in 1..Len(db[id]) : id = 1 \/ BirthOK(db, message_list, id, g, Now)
BY Zenon DEF BirthsExplained, BirthOK, Bears

(* What bore an object still does when the database has grown.               *)
LEMMA BearsStays ==
  ASSUME NEW d \in Databases, NEW f \in Databases, NEW now \in Nat, Grows(d, f, now),
         NEW e \in Entry, e.obj <= Len(d[e.msg.id]),
         NEW id \in Ids, NEW g \in 1..Len(d[id]), NEW i, Bears(d, e, i, id, g)
  PROVE  Bears(f, e, i, id, g)
<1>1. f[id][g].type = d[id][g].type
  BY GrowsKeeps
<1>2. ArgType(f, e, i) = ArgType(d, e, i)
  BY TargetTypeStable DEF ArgType, IsBind
<1>3. QED
  BY <1>1, <1>2 DEF Bears

(* An object there was is still explained after any step: its message stays, *)
(* and resolving an argument changes no other argument of the message.       *)
LEMMA OldBirthStays ==
  ASSUME CoreInv, LaterUnresolved, [Next]_vars,
         NEW id \in Ids, NEW g \in 1..Len(db[id]),
         BirthOK(db, message_list, id, g, Now)
  PROVE  BirthOK(db', message_list', id, g, Now')
<1> DEFINE k == db[id][g].born
           e == message_list[k]
<1>1. StepOK
  BY StepPreservesCore
<1>2. /\ db \in Databases /\ db' \in Databases /\ message_list \in Seq(Entry)
      /\ Now \in Nat /\ Now' \in Nat /\ Now <= Now' /\ Grows(db, db', Now')
  BY <1>1 DEF StepOK, MessagesKept, CoreInv, TypeOK, Databases
<1>3. db'[id][g].born = k
  BY <1>2, GrowsKeeps
<1>4. k \in 1..Now /\ k \in 1..Now'
  BY <1>2 DEF BirthOK
<1>5. PICK i \in 1..Len(e.objs) : Bears(db, e, i, id, g)
  BY DEF BirthOK
<1>6. e \in Entry /\ e.obj <= Len(db[e.msg.id])
  BY <1>2, <1>4, SMTT(20) DEF Now, CoreInv, EntriesOK
<1>7. Bears(db', e, i, id, g)
  BY <1>2, <1>5, <1>6, BearsStays
<1>8. Bears(db', message_list'[k], i, id, g)
  <2>1. CASE NothingStored
    BY <1>7, <2>1 DEF NothingStored
  <2>2. CASE \E m \in Messages : MessageStored(m)
    <3>1. message_list'[k] = e
      BY <1>4, <2>2, StoredEffect DEF MessageStored
    <3>2. QED
      BY <1>7, <3>1
  <2>3. CASE (ResolveNew \/ ResolveExisting) /\ \E c \in Entry : ResolvesTo(c)
    <3>1. PICK c \in Entry : ResolvesTo(c)
      BY <2>3
    <3>2. CASE k # Now
      <4>1. k \in 1..Now - 1
        BY <1>2, <1>4, <3>2
      <4>2. message_list'[k] = e
        BY <3>1, <4>1 DEF ResolvesTo
      <4>3. QED
        BY <1>7, <4>2
    <3>3. CASE k = Now
      <4>1. e = Current /\ message_list'[k] = c
        BY <3>1, <3>3 DEF ResolvesTo, Current
      <4>2. AtArg /\ next \in Nat
        BY <2>3 DEF ResolveNew, ResolveExisting, CoreInv, TypeOK
      <4>3. i # next
        <5>1. e.objs[i] # 0
          <6>1. e.objs[i] = g /\ Len(db[id]) \in Nat
            BY <1>2, <1>5, LengthIsNat DEF Bears
          <6>2. QED
            BY <6>1
        <5>2. QED
          BY <1>5, <4>1, <4>2, <5>1 DEF LaterUnresolved, AtArg
      <4>4. /\ c.objs[i] = e.objs[i] /\ c.msg = e.msg /\ c.obj = e.obj
            /\ Len(c.objs) = Len(e.objs)
        BY <1>5, <3>1, <4>1, <4>3 DEF ResolvesTo
      <4>5. ArgType(db', c, i) = ArgType(db', e, i)
        BY <4>4 DEF ArgType, IsBind, TargetType
      <4>6. QED
        BY <1>7, <4>1, <4>4, <4>5 DEF Bears
    <3>4. QED
      BY <3>2, <3>3
  <2>4. QED
    BY <2>1, <2>2, <2>3, StepEffect
<1>9. i \in 1..Len(message_list'[k].objs)
  <2>1. CASE NothingStored
    BY <2>1 DEF NothingStored
  <2>2. CASE \E m \in Messages : MessageStored(m)
    BY <1>4, <2>2, StoredEffect DEF MessageStored
  <2>3. CASE \E c \in Entry : ResolvesTo(c)
    <3>1. k = Now \/ k \in 1..Now - 1
      BY <1>2, <1>4
    <3>2. QED
      BY <1>5, <2>3, <3>1 DEF ResolvesTo, Current
  <2>4. QED
    BY <2>1, <2>2, <2>3, StepEffect
<1>10. QED
  BY <1>3, <1>4, <1>8, <1>9 DEF BirthOK

(* The object an argument creates is the one the argument is resolved to.    *)
LEMMA NewBirth ==
  ASSUME CoreInv, ResolveNew
  PROVE  /\ Arg.id > 1
         /\ BirthOK(db', message_list', Arg.id, Len(db[Arg.id]) + 1, Now')
<1> DEFINE id == Arg.id
           t == ArgType(db, Current, next)
           n == Len(db[id])
<1>1. /\ id \in Ids /\ t \in Types /\ db' \in Databases
      /\ GainsOne(db[id], db'[id], Now)
      /\ db'[id][n + 1] = NewObject(t, Now)
      /\ Grows(db, db', Now)
  BY ResolveNewEffect
<1>2. AtArg /\ Arg.kind = "object" /\ Arg.is_new /\ id > 1 /\ ResolveArgIn(db')
  BY DEF ResolveNew, Creatable
<1>3. /\ db \in Databases /\ Now \in Nat \ {0} /\ Current \in Entry
      /\ next \in 1..Len(Current.objs)
      /\ Current.obj <= Len(db[Current.msg.id])
  BY <1>2, AtArgFacts
<1>4. PICK c \in Entry : ResolvesTo(c)
  BY <1>1, <1>2, ResolveEffect
<1>5. n \in Nat /\ Len(db'[id]) = n + 1
  BY <1>1, <1>3, LengthIsNat DEF GainsOne
<1>6. c.objs[next] = n + 1
  <2>1. LastOf(db', id).type = t
    BY <1>1, <1>5 DEF LastOf, NewObject
  <2>2. Used(db', id)
    BY <1>1, <1>5 DEF Used, Databases
  <2>3. Retrieve(db', id, t) = n + 1
    BY <1>5, <2>1, <2>2 DEF Retrieve
  <2>4. QED
    BY <1>4, <2>3 DEF ResolvesTo
<1>7. ArgType(db', c, next) = t
  <2>1. TargetType(db', Current) = TargetType(db, Current)
    BY <1>1, <1>3, TargetTypeStable
  <2>2. TargetType(db', c) = TargetType(db', Current)
    BY <1>4 DEF ResolvesTo, TargetType
  <2>3. QED
    BY <1>4, <2>1, <2>2 DEF ResolvesTo, ArgType, IsBind
<1>8. Bears(db', c, next, id, n + 1)
  <2>1. c.msg = Current.msg
    BY <1>4 DEF ResolvesTo
  <2>2. c.msg.args[next].is_new /\ c.msg.args[next].id = id
    BY <1>2, <2>1 DEF Arg
  <2>3. db'[id][n + 1].type = t
    BY <1>1 DEF NewObject
  <2>4. QED
    BY <1>6, <1>7, <2>2, <2>3 DEF Bears
<1>9. db'[id][n + 1].born = Now
  BY <1>1 DEF NewObject
<1>10. Now \in 1..Now /\ Now' = Now /\ message_list'[Now] = c /\ next \in 1..Len(c.objs)
  BY <1>3, <1>4 DEF ResolvesTo
<1>11. QED
  BY <1>2, <1>8, <1>9, <1>10 DEF BirthOK

LEMMA BirthsStayExplained ==
  ASSUME CoreInv, LaterUnresolved, BirthsExplained, [Next]_vars
  PROVE  BirthsExplained'
<1>1. /\ db \in Databases /\ db' \in Databases
  BY StepPreservesCore DEF StepOK, CoreInv, TypeOK, Databases
<1>2. ASSUME NEW id \in Ids, NEW g \in 1..Len(db'[id]), id # 1
      PROVE  BirthOK(db', message_list', id, g, Now')
  <2>1. Len(db[id]) \in Nat /\ Len(db'[id]) \in Nat
    BY <1>1, LengthIsNat
  <2>2. CASE g \in 1..Len(db[id])
    BY <1>2, <2>2, BirthsDef, OldBirthStays
  <2>3. CASE g \notin 1..Len(db[id])
    <3>1. Len(db'[id]) > Len(db[id])
      BY <1>2, <2>1, <2>3
    <3>2. ResolveNew
      <4>1. CASE NothingStored
        BY <3>1, <4>1 DEF NothingStored
      <4>2. CASE \E m \in Messages : MessageStored(m)
        <5>1. Len(db'[id]) = Len(db[id])
          BY <4>2 DEF MessageStored, LosesNewest
        <5>2. QED
          BY <2>1, <3>1, <5>1
      <4>3. CASE ResolveExisting
        BY <2>1, <3>1, <4>3 DEF ResolveExisting
      <4>4. QED
        BY <4>1, <4>2, <4>3, StepEffect
    <3>3. id = Arg.id /\ Len(db'[id]) = Len(db[id]) + 1
      BY <2>1, <3>1, <3>2, ResolveNewEffect DEF GainsOne
    <3>4. g = Len(db[id]) + 1
      BY <1>2, <2>1, <2>3, <3>3
    <3>5. QED
      BY <3>2, <3>3, <3>4, NewBirth
  <2>4. QED
    BY <2>2, <2>3
<1>3. \A id \in Ids : \A g \in 1..Len(db'[id]) :
        id = 1 \/ BirthOK(db', message_list', id, g, Now')
  BY <1>2
<1>4. QED
  BY <1>3, Zenon DEF BirthsExplained, BirthOK, Bears

(* The message or the successor that explains the death of an object.        *)
DeathOK(d, messages, id, g, now) ==
  ~d[id][g].alive =>
    \/ /\ d[id][g].died \in 1..now
       /\ messages[d[id][g].died].destroyed = g
       /\ messages[d[id][g].died].msg.args[1].value = id
    \/ /\ id \in ServerIds /\ g < Len(d[id])
       /\ d[id][g + 1].born = d[id][g].died

LEMMA DeathsDef ==
  DeathsExplained <=>
    \A id \in Ids : \A g \in 1..Len(db[id]) : DeathOK(db, message_list, id, g, Now)
BY Zenon DEF DeathsExplained, DeathOK

LEMMA ReasonsStay ==
  ASSUME CoreInv, [Next]_vars
  PROVE  /\ Now \in Nat /\ Now' \in Nat /\ Now <= Now'
         /\ \A k \in 1..Now : /\ message_list'[k].destroyed = message_list[k].destroyed
                              /\ message_list'[k].msg = message_list[k].msg
<1>1. Now \in Nat /\ Now' \in Nat /\ Now <= Now'
  BY StepPreservesCore DEF StepOK, MessagesKept
<1>2. ASSUME NEW k \in 1..Now
      PROVE  /\ message_list'[k].destroyed = message_list[k].destroyed
             /\ message_list'[k].msg = message_list[k].msg
  <2>1. CASE NothingStored
    BY <2>1 DEF NothingStored
  <2>2. CASE \E m \in Messages : MessageStored(m)
    BY <2>2, StoredEffect DEF MessageStored
  <2>3. CASE \E c \in Entry : ResolvesTo(c)
    <3>1. k = Now \/ k \in 1..Now - 1
      BY <1>1
    <3>2. QED
      BY <2>3, <3>1 DEF ResolvesTo, Current
  <2>4. QED
    BY <2>1, <2>2, <2>3, StepEffect
<1>3. QED
  BY <1>1, <1>2

(* Nothing but its own destruction takes an explanation from an object.      *)
LEMMA OldDeathStays ==
  ASSUME CoreInv, [Next]_vars,
         NEW id \in Ids, NEW g \in 1..Len(db[id]),
         DeathOK(db, message_list, id, g, Now), db'[id][g] = db[id][g]
  PROVE  DeathOK(db', message_list', id, g, Now')
<1>1. /\ db \in Databases /\ db' \in Databases /\ Grows(db, db', Now') /\ Now' \in Nat
  BY StepPreservesCore DEF StepOK, MessagesKept, CoreInv, TypeOK, Databases
<1>2. Len(db[id]) \in Nat /\ Len(db'[id]) \in Nat /\ Len(db'[id]) >= Len(db[id])
  BY <1>1, LengthIsNat, GrowsKeeps
<1>3. SUFFICES ASSUME ~db[id][g].alive
               PROVE  DeathOK(db', message_list', id, g, Now')
  BY DEF DeathOK
<1>4. CASE /\ db[id][g].died \in 1..Now
           /\ message_list[db[id][g].died].destroyed = g
           /\ message_list[db[id][g].died].msg.args[1].value = id
  <2>1. PICK k \in 1..Now : /\ k = db'[id][g].died
                           /\ message_list[k].destroyed = g
                           /\ message_list[k].msg.args[1].value = id
    BY <1>4
  <2>2. k \in 1..Now'
    BY ReasonsStay
  <2>3. /\ message_list'[k].destroyed = message_list[k].destroyed
        /\ message_list'[k].msg = message_list[k].msg
    BY ReasonsStay
  <2>4. message_list'[k].destroyed = g /\ message_list'[k].msg.args[1].value = id
    BY <2>1, <2>3
  <2>5. QED
    BY <2>1, <2>2, <2>4 DEF DeathOK
<1>5. CASE id \in ServerIds /\ g < Len(db[id]) /\ db[id][g + 1].born = db[id][g].died
  <2>1. g + 1 \in 1..Len(db[id]) /\ g < Len(db'[id])
    BY <1>2, <1>5
  <2>2. db'[id][g + 1].born = db[id][g + 1].born
    BY <1>1, <2>1, GrowsKeeps
  <2>3. QED
    BY <1>5, <2>1, <2>2 DEF DeathOK
<1>6. QED
  BY <1>3, <1>4, <1>5 DEF DeathOK

(* Creating an object where nothing lives leaves the objects before alone.   *)
LEMMA CreatedAfterDead ==
  ASSUME NEW d \in Databases, NEW id \in Ids, NEW type, NEW now, ~InUse(d, id),
         NEW g \in 1..Len(d[id])
  PROVE  Created(d, id, type, now)[id][g] = d[id][g]
BY DEF Created, Databases

(* The object that loses its id to a new one belongs to the server.          *)
LEMMA ReplacedIsServers ==
  ASSUME CoreInv, ResolveNew, DeathsExplained,
         NEW id \in Ids, NEW g \in 1..Len(db'[id])
  PROVE  DeathOK(db', message_list', id, g, Now')
<1>1. /\ Arg.id \in Ids /\ GainsOne(db[Arg.id], db'[Arg.id], Now)
      /\ db'[Arg.id][Len(db[Arg.id]) + 1] = NewObject(ArgType(db, Current, next), Now)
      /\ \A j \in Ids \ {Arg.id} : db'[j] = db[j]
      /\ db' \in Databases
  BY ResolveNewEffect
<1>2. [Next]_vars /\ AtArg
  BY DEF ResolveNew, Next, Resolve
<1>3. db \in Databases /\ Now \in Nat \ {0}
  BY <1>2, AtArgFacts
<1>4. Len(db[id]) \in Nat /\ Len(db'[id]) \in Nat
  BY <1>1, <1>3, LengthIsNat
<1>5. CASE g \in 1..Len(db[id]) /\ db'[id][g] = db[id][g]
  BY <1>2, <1>5, DeathsDef, OldDeathStays
<1>6. CASE g \in 1..Len(db[id]) /\ db'[id][g] # db[id][g]
  <2>1. id = Arg.id /\ g = Len(db[id])
    <3>1. id = Arg.id
      BY <1>1, <1>6
    <3>2. g \notin 1..Len(db[id])-1
      BY <1>1, <1>6, <3>1 DEF GainsOne
    <3>3. QED
      BY <1>4, <1>6, <3>1, <3>2
  <2>2. id \in ServerIds
    <3>1. InUse(db, id)
      <4>1. db' = Created(db, id, ArgType(db, Current, next), Now)
        BY <2>1 DEF ResolveNew
      <4>2. QED
        BY <1>3, <1>6, <4>1, CreatedAfterDead
    <3>2. QED
      BY <2>1, <3>1 DEF ResolveNew, Creatable
  <2>3. db'[id][g] = Destroyed(db[id][g], Now) /\ Len(db'[id]) = g + 1
    BY <1>1, <1>4, <1>6, <2>1 DEF GainsOne
  <2>4. db'[id][g].died = Now
    <3>1. db[id][g] \in Object
      BY <1>3, <1>6 DEF Databases
    <3>2. Destroyed(db[id][g], Now).died = Now
      BY <1>3, <3>1, DestroyedIsObject
    <3>3. QED
      BY <2>3, <3>2
  <2>5. db'[id][g + 1].born = Now
    BY <1>1, <2>1 DEF NewObject
  <2>6. g < Len(db'[id])
    BY <1>4, <2>3
  <2>7. QED
    BY <2>2, <2>4, <2>5, <2>6 DEF DeathOK
<1>7. CASE g \notin 1..Len(db[id])
  <2>1. id = Arg.id
    BY <1>1, <1>7
  <2>2. Len(db'[id]) = Len(db[id]) + 1
    BY <1>1, <2>1 DEF GainsOne
  <2>3. g = Len(db[id]) + 1
    BY <1>4, <1>7, <2>2
  <2>4. db'[id][g].alive
    BY <1>1, <2>1, <2>3 DEF NewObject
  <2>5. QED
    BY <2>4 DEF DeathOK
<1>8. QED
  BY <1>5, <1>6, <1>7

(* A delete_id explains the death it causes.                                 *)
LEMMA DeletedIsExplained ==
  ASSUME CoreInv, [Next]_vars, DeathsExplained, NEW m \in Messages, MessageStored(m),
         NEW id \in Ids, NEW g \in 1..Len(db'[id])
  PROVE  DeathOK(db', message_list', id, g, Now')
<1>1. db \in Databases /\ Now \in Nat
  BY DEF CoreInv, TypeOK, Databases, Now
<1>2. Len(db[id]) \in Nat
  BY <1>1, LengthIsNat
<1>3. PICK e \in Entry :
        /\ message_list' = Append(message_list, e)
        /\ e.msg = m
        /\ \/ db' = db
           \/ /\ m.args[1].value \in Ids
              /\ LosesNewest(db[m.args[1].value], db'[m.args[1].value], Now + 1)
              /\ \A j \in Ids \ {m.args[1].value} : db'[j] = db[j]
              /\ e.destroyed = Len(db[m.args[1].value])
  BY DEF MessageStored
<1>4. message_list'[Now'] = e /\ Now' = Now + 1
  BY <1>3, StoredEffect
<1>5. g \in 1..Len(db[id])
  BY <1>3 DEF LosesNewest
<1>6. CASE db'[id][g] = db[id][g]
  BY <1>5, <1>6, DeathsDef, OldDeathStays
<1>7. CASE db'[id][g] # db[id][g]
  <2>1. /\ id = m.args[1].value /\ LosesNewest(db[id], db'[id], Now + 1)
        /\ e.destroyed = Len(db[id])
    BY <1>3, <1>7
  <2>2. g = Len(db[id])
    <3>1. \A h \in 1..Len(db[id])-1 : db'[id][h] = db[id][h]
      BY <2>1 DEF LosesNewest
    <3>2. g # Len(db[id]) => g \in 1..Len(db[id])-1
      BY <1>2, <1>5
    <3>3. QED
      BY <1>7, <3>1, <3>2
  <2>3. db'[id][g].died = Now + 1
    <3>1. db[id][g] \in Object
      BY <1>1, <1>5 DEF Databases
    <3>2. Destroyed(db[id][g], Now + 1).died = Now + 1
      BY <1>1, <3>1, DestroyedIsObject
    <3>3. db'[id][g] = Destroyed(db[id][g], Now + 1)
      BY <2>1, <2>2 DEF LosesNewest
    <3>4. QED
      BY <3>2, <3>3
  <2>4. Now + 1 \in 1..Now'
    BY <1>1, <1>4
  <2>5. QED
    BY <1>3, <1>4, <2>1, <2>2, <2>3, <2>4 DEF DeathOK
<1>8. QED
  BY <1>6, <1>7

LEMMA DeathsStayExplained ==
  ASSUME CoreInv, DeathsExplained, [Next]_vars
  PROVE  DeathsExplained'
<1>1. ASSUME NEW id \in Ids, NEW g \in 1..Len(db'[id])
      PROVE  DeathOK(db', message_list', id, g, Now')
  <2>1. CASE NothingStored \/ ResolveExisting
    <3>1. db' = db
      BY <2>1 DEF NothingStored, ResolveExisting
    <3>2. QED
      BY <1>1, <3>1, DeathsDef, OldDeathStays
  <2>2. CASE \E m \in Messages : MessageStored(m)
    BY <1>1, <2>2, DeletedIsExplained
  <2>3. CASE ResolveNew
    BY <1>1, <2>3, ReplacedIsServers
  <2>4. QED
    BY <2>1, <2>2, <2>3, StepEffect
<1>2. \A id \in Ids : \A g \in 1..Len(db'[id]) : DeathOK(db', message_list', id, g, Now')
  BY <1>1
<1>3. QED
  BY <1>2, Zenon DEF DeathsExplained, DeathOK

(* The life of every object can be told from the messages: a new argument    *)
(* that was resolved to it, and a delete_id or, if it is the server's, a     *)
(* successor.                                                                *)
THEOREM LifetimesStayExplained == Spec => []LifetimesExplained
<1>1. Init => LaterUnresolved /\ LifetimesExplained
  <2>1. SUFFICES ASSUME Init PROVE LaterUnresolved /\ LifetimesExplained
    OBVIOUS
  <2>2. /\ pc = "idle"
        /\ \A id \in Ids : id # 1 => db[id] = <<>>
        /\ \A id \in Ids : \A g \in 1..Len(db[id]) : db[id][g].alive
    BY <2>1 DEF Init, NewObject
  <2>3. \A id \in Ids : \A g \in 1..Len(db[id]) : id = 1
    BY <2>2
  <2>4. QED
    BY <2>2, <2>3 DEF LaterUnresolved, LifetimesExplained, BirthsExplained, DeathsExplained
<1>2. CoreInv /\ (LaterUnresolved /\ LifetimesExplained) /\ [Next]_vars
        => (LaterUnresolved /\ LifetimesExplained)'
  BY LaterStayUnresolved, BirthsStayExplained, DeathsStayExplained DEF LifetimesExplained
<1>3. QED
  BY <1>1, <1>2, CoreInvariant, PTL DEF Spec

(* What a new argument a of message k may be resolved to.                    *)
NewTargetOK(d, a, g, type, k) ==
  g > 0 /\ a.is_new /\ a.id > 1 /\ type # NoType =>
    \/ d[a.id][g].born = k
    \/ /\ a.id \notin ServerIds \/ a.id = 2
       /\ d[a.id][g].alive \/ d[a.id][g].died >= k

NewArgOK(d, e, i, k) == NewTargetOK(d, e.msg.args[i], e.objs[i], ArgType(d, e, i), k)

LEMMA NewArgDef ==
  NewArgIsNewOrInUse <=>
    \A k \in 1..Now : \A i \in 1..Len(message_list[k].objs) : NewArgOK(db, message_list[k], i, k)
BY Zenon DEF NewArgIsNewOrInUse, NewArgOK, NewTargetOK

LEMMA SameArgOK ==
  ASSUME NEW d, NEW e, NEW c, NEW i, NEW k,
         c.msg = e.msg, c.objs[i] = e.objs[i], ArgType(d, c, i) = ArgType(d, e, i),
         NewArgOK(d, e, i, k)
  PROVE  NewArgOK(d, c, i, k)
<1>1. c.msg.args[i] = e.msg.args[i]
  OBVIOUS
<1>2. QED
  BY <1>1, Zenon DEF NewArgOK

LEMMA NewArgStays ==
  ASSUME NEW d \in Databases, NEW f \in Databases, NEW now \in Nat, Grows(d, f, now),
         NEW e \in Entry, e.obj <= Len(d[e.msg.id]),
         NEW k \in Nat, k <= now, NEW i \in 1..Len(e.objs),
         ArgOK(d, e, i, k), NewArgOK(d, e, i, k)
  PROVE  NewArgOK(f, e, i, k)
<1> DEFINE id == e.msg.args[i].id
           g == e.objs[i]
<1>1. ArgType(f, e, i) = ArgType(d, e, i)
  BY RefersStays
<1>2. SUFFICES ASSUME g > 0
               PROVE  NewArgOK(f, e, i, k)
  BY DEF NewArgOK, NewTargetOK
<1>3. id \in Ids /\ g \in 1..Len(d[id])
  <2>1. HasKind(e.msg, i, "object") /\ g <= Len(d[id])
    BY <1>2 DEF ArgOK
  <2>2. id \in Ids
    BY <2>1, MessageTypes DEF HasKind, Entry
  <2>3. g \in Nat /\ Len(d[id]) \in Nat
    BY <2>2, LengthIsNat, SMTT(20) DEF Entry
  <2>4. QED
    BY <1>2, <2>1, <2>2, <2>3
<1>4. /\ f[id][g].born = d[id][g].born
      /\ f[id][g] = d[id][g] \/ (~f[id][g].alive /\ f[id][g].died = now)
  BY <1>3, GrowsKeeps, ZenonT(30)
<1>5. (d[id][g].alive \/ d[id][g].died >= k) => (f[id][g].alive \/ f[id][g].died >= k)
  BY <1>4
<1>6. QED
  BY <1>1, <1>4, <1>5 DEF NewArgOK, NewTargetOK

(* The argument that is being resolved.                                      *)
LEMMA ResolvedIsNewOrInUse ==
  ASSUME CoreInv, ResolveNew \/ ResolveExisting, NEW c \in Entry, ResolvesTo(c)
  PROVE  NewArgOK(db', c, next, Now)
<1> DEFINE id == Arg.id
           t == ArgType(db, Current, next)
           n == Len(db[id])
<1>1. AtArg /\ Arg.kind = "object"
  BY DEF ResolveNew, ResolveExisting
<1>2. /\ db \in Databases /\ Now \in Nat \ {0} /\ Current \in Entry
      /\ Current.obj <= Len(db[Current.msg.id])
  BY <1>1, AtArgFacts
<1>3. id \in Ids /\ n \in Nat /\ c.msg.args[next] = Arg
  BY <1>1, <1>2, ArgTypeIsType, LengthIsNat DEF ResolvesTo, Arg
<1>4. db' \in Databases /\ Grows(db, db', Now)
  <2>1. CASE ResolveNew
    BY <2>1, ResolveNewEffect
  <2>2. CASE ResolveExisting
    BY <1>2, <2>2, SameGrows DEF ResolveExisting
  <2>3. QED
    BY <2>1, <2>2
<1>5. c.objs[next] = Retrieve(db', id, t)
  BY DEF ResolvesTo
<1>6. CASE ResolveNew
  <2>1. /\ GainsOne(db[id], db'[id], Now)
        /\ db'[id][n + 1] = NewObject(t, Now)
    BY <1>6, ResolveNewEffect
  <2>2. Len(db'[id]) = n + 1
    BY <2>1 DEF GainsOne
  <2>3. c.objs[next] > 0 => c.objs[next] = n + 1
    BY <1>5, <2>2 DEF Retrieve
  <2>4. QED
    BY <1>3, <2>1, <2>3 DEF NewArgOK, NewTargetOK, NewObject
<1>7. CASE ResolveExisting
  <2>1. db' = db /\ (Arg.is_new => ~Creatable(db, id, t))
    BY <1>7 DEF ResolveExisting
  <2>2. ArgType(db', c, next) = t
    BY <2>1 DEF ResolvesTo, ArgType, IsBind, TargetType
  <2>3. SUFFICES ASSUME c.objs[next] > 0, Arg.is_new, id > 1, t # NoType
                 PROVE  /\ id \notin ServerIds \/ id = 2
                        /\ db[id][c.objs[next]].alive
    BY <1>3, <2>1, <2>2 DEF NewArgOK, NewTargetOK
  <2>4. c.objs[next] = n
    BY <1>5, <2>1, <2>3 DEF Retrieve
  <2>5. InUse(db, id) /\ ~(id \in ServerIds /\ ~(t = "wl_registry" /\ id = 2))
    BY <2>1, <2>3 DEF Creatable
  <2>6. QED
    BY <2>4, <2>5 DEF InUse, LastOf
<1>8. QED
  BY <1>6, <1>7

LEMMA NewArgsStay ==
  ASSUME CoreInv, ReferencesInLifetime, NewArgIsNewOrInUse, [Next]_vars
  PROVE  NewArgIsNewOrInUse'
<1>1. /\ db \in Databases /\ db' \in Databases /\ message_list \in Seq(Entry)
      /\ Now \in Nat /\ Now' \in Nat /\ Now <= Now' /\ Grows(db, db', Now')
  BY StepPreservesCore DEF StepOK, MessagesKept, CoreInv, TypeOK, Databases
<1>2. ASSUME NEW k \in 1..Now, NEW i \in 1..Len(message_list[k].objs)
      PROVE  NewArgOK(db', message_list[k], i, k)
  <2>1. /\ message_list[k] \in Entry /\ k \in Nat /\ k <= Now'
        /\ message_list[k].obj <= Len(db[message_list[k].msg.id])
    BY <1>1 DEF Now, CoreInv, EntriesOK
  <2>2. ArgOK(db, message_list[k], i, k) /\ NewArgOK(db, message_list[k], i, k)
    BY RefersDef, NewArgDef DEF EntryRefersOK
  <2>3. QED
    BY <1>1, <2>1, <2>2, NewArgStays
<1>3. ASSUME NEW k \in 1..Now', NEW i \in 1..Len(message_list'[k].objs)
      PROVE  NewArgOK(db', message_list'[k], i, k)
  <2>1. CASE NothingStored
    BY <1>2, <1>3, <2>1 DEF NothingStored, Now
  <2>2. CASE \E m \in Messages : MessageStored(m)
    <3>1. PICK e \in Entry : /\ message_list' = Append(message_list, e)
                             /\ \A j \in 1..Len(e.objs) : e.objs[j] = 0
      BY <2>2 DEF MessageStored
    <3>2. /\ Now' = Now + 1 /\ message_list'[Now'] = e
          /\ \A j \in 1..Now : message_list'[j] = message_list[j]
      BY <3>1, StoredEffect
    <3>3. CASE k = Now'
      <4>1. i \in 1..Len(e.objs) /\ message_list'[k] = e
        BY <1>3, <3>2, <3>3
      <4>2. e.objs[i] = 0 /\ ~(e.objs[i] > 0)
        BY <3>1, <4>1
      <4>3. NewArgOK(db', e, i, k)
        BY <4>2 DEF NewArgOK, NewTargetOK
      <4>4. QED
        BY <4>1, <4>3
    <3>4. CASE k # Now'
      <4>1. k \in 1..Now
        BY <1>1, <1>3, <3>2, <3>4
      <4>2. QED
        BY <1>2, <1>3, <3>2, <4>1
    <3>5. QED
      BY <3>3, <3>4
  <2>3. CASE (ResolveNew \/ ResolveExisting) /\ \E c \in Entry : ResolvesTo(c)
    <3>1. PICK c \in Entry : ResolvesTo(c)
      BY <2>3
    <3>2. /\ Now' = Now /\ message_list'[Now] = c
          /\ \A j \in 1..Now - 1 : message_list'[j] = message_list[j]
      BY <3>1 DEF ResolvesTo
    <3>3. CASE k # Now
      <4>1. k \in 1..Now - 1 /\ k \in 1..Now
        BY <1>1, <1>3, <3>2, <3>3
      <4>2. QED
        BY <1>2, <1>3, <3>2, <4>1
    <3>4. CASE k = Now /\ i = next
      BY <2>3, <3>1, <3>2, <3>4, ResolvedIsNewOrInUse
    <3>5. CASE k = Now /\ i # next
      <4>1. /\ i \in 1..Len(Current.objs) /\ c.objs[i] = Current.objs[i]
            /\ c.msg = Current.msg /\ c.obj = Current.obj
        BY <1>3, <3>1, <3>2, <3>5 DEF ResolvesTo
      <4>2. NewArgOK(db', Current, i, Now)
        BY <1>1, <1>2, <1>3, <3>2, <3>5, <4>1 DEF Current
      <4>3. ArgType(db', c, i) = ArgType(db', Current, i)
        BY <4>1 DEF ArgType, IsBind, TargetType
      <4>4. NewArgOK(db', c, i, Now)
        BY <4>1, <4>2, <4>3, SameArgOK
      <4>5. QED
        BY <3>2, <3>5, <4>4
    <3>6. QED
      BY <3>3, <3>4, <3>5
  <2>4. QED
    BY <2>1, <2>2, <2>3, StepEffect
<1>4. \A k \in 1..Now' : \A i \in 1..Len(message_list'[k].objs) : NewArgOK(db', message_list'[k], i, k)
  BY <1>3
<1>5. QED
  BY <1>4, Zenon DEF NewArgIsNewOrInUse, NewArgOK, NewTargetOK

(* A new argument is the object its message created, or a client's that was  *)
(* still alive when the message arrived; never a dead one.                   *)
THEOREM NewArgsAreNewOrInUse == Spec => []NewArgIsNewOrInUse
<1>1. Init => NewArgIsNewOrInUse
  <2>1. Init => Now = 0
    BY DEF Init, Now
  <2>2. Now = 0 => 1..Now = {}
    OBVIOUS
  <2>3. 1..Now = {} => NewArgIsNewOrInUse
    BY Zenon DEF NewArgIsNewOrInUse
  <2>4. QED
    BY <2>1, <2>2, <2>3
<1>2. CoreInv /\ ReferencesInLifetime /\ NewArgIsNewOrInUse /\ [Next]_vars => NewArgIsNewOrInUse'
  BY NewArgsStay
<1>3. QED
  BY <1>1, <1>2, CoreInvariant, ReferencesHold, PTL DEF Spec
------------------------------------------------------------------------------
(* What the listener is told of *)

(* The conditions under which the handler of a stored message raised.        *)
FailsIn(d, e) ==
  \/ IsBind(d, e) /\ ~GoodBind(e.msg)
  \/ IsDeleteId(e) /\ e.destroyed = 0
  \/ \E i \in 1..Len(e.msg.args) : GetArgRaises(TargetType(d, e), e.msg.name, i)

Handled == IF pc = "idle" THEN Now ELSE Now - 1

Passing(d, messages, h) == {k \in 1..h : ~FailsIn(d, messages[k])}

(* The sequence a lists the numbers of a set, in their order.                *)
Lists(a, set) ==
  /\ {a[n] : n \in 1..Len(a)} = set
  /\ \A i, j \in 1..Len(a) : i < j => a[i] < a[j]

LEMMA AnnouncedDef ==
  AnnouncedUnlessRaised <=> Lists(announced, Passing(db, message_list, Handled))
BY Zenon DEF AnnouncedUnlessRaised, Lists, Passing, Handled, FailsIn

(* A message being resolved has not failed so far.                           *)
PassedSoFar ==
  pc = "args" =>
    /\ IsDeleteId(Current) => Current.destroyed # 0
    /\ \A i \in 1..Len(Current.msg.args) : i < next =>
         ~GetArgRaises(TargetType(db, Current), Current.msg.name, i)

LEMMA ListsAppend ==
  ASSUME NEW a \in Seq(Nat), NEW h \in Nat, NEW set, set \subseteq 1..h, Lists(a, set)
  PROVE  Lists(Append(a, h + 1), set \cup {h + 1})
<1> DEFINE n == Len(a)
           b == Append(a, h + 1)
<1>1. n \in Nat /\ Len(b) = n + 1 /\ b[n + 1] = h + 1 /\ \A i \in 1..n : b[i] = a[i]
  OBVIOUS
<1>2. \A i \in 1..n : a[i] \in 1..h
  BY DEF Lists
<1> HIDE DEF b
<1>3. {b[i] : i \in 1..n+1} = {a[i] : i \in 1..n} \cup {h + 1}
  <2>1. 1..n+1 = (1..n) \cup {n + 1}
    BY <1>1
  <2>2. QED
    BY <1>1, <2>1
<1>4. ASSUME NEW i \in 1..n+1, NEW j \in 1..n+1, i < j
      PROVE  b[i] < b[j]
  <2>1. i \in 1..n /\ b[i] = a[i] /\ a[i] \in 1..h
    BY <1>1, <1>2, <1>4
  <2>2. CASE j = n + 1
    BY <1>1, <2>1, <2>2
  <2>3. CASE j \in 1..n
    BY <1>1, <1>4, <2>1, <2>3 DEF Lists
  <2>4. QED
    BY <1>1, <2>2, <2>3
<1>5. QED
  BY <1>1, <1>3, <1>4 DEF Lists, b

(* A stored message is for ever the message that was received, with the same *)
(* target, so that whether it failed does not change.                        *)
LEMMA MessageKept ==
  ASSUME CoreInv, [Next]_vars, NEW k \in 1..Now
  PROVE  /\ message_list'[k].msg = message_list[k].msg
         /\ message_list'[k].obj = message_list[k].obj
         /\ message_list'[k].destroyed = message_list[k].destroyed
<1>1. Now \in Nat
  BY DEF CoreInv, TypeOK, Now
<1>2. CASE NothingStored
  BY <1>2 DEF NothingStored
<1>3. CASE \E m \in Messages : MessageStored(m)
  BY <1>3, StoredEffect DEF MessageStored
<1>4. CASE \E c \in Entry : ResolvesTo(c)
  <2>1. k = Now \/ k \in 1..Now - 1
    BY <1>1
  <2>2. QED
    BY <1>4, <2>1 DEF ResolvesTo, Current
<1>5. QED
  BY <1>2, <1>3, <1>4, StepEffect

LEMMA TargetTypeKept ==
  ASSUME CoreInv, [Next]_vars, NEW k \in 1..Now
  PROVE  /\ TargetType(db', message_list'[k]) = TargetType(db, message_list[k])
         /\ IsDeleteId(message_list'[k]) <=> IsDeleteId(message_list[k])
<1> DEFINE e == message_list[k]
           f == message_list'[k]
<1>1. f.msg = e.msg /\ f.obj = e.obj
  BY MessageKept
<1>2. e \in Entry /\ e.obj <= Len(db[e.msg.id])
  BY DEF CoreInv, TypeOK, EntriesOK, Now
<1>3. db \in Databases /\ db' \in Databases /\ Now' \in Nat /\ Grows(db, db', Now')
  BY StepPreservesCore DEF CoreInv, TypeOK, Databases, StepOK, MessagesKept
<1> HIDE DEF e, f
<1>4. TargetType(db', e) = TargetType(db, e)
  BY <1>2, <1>3, TargetTypeStable
<1>5. TargetType(db', f) = TargetType(db', e) /\ (IsDeleteId(f) <=> IsDeleteId(e))
  BY <1>1 DEF TargetType, IsDeleteId
<1>6. QED
  BY <1>4, <1>5 DEF e, f

LEMMA FailsKept ==
  ASSUME CoreInv, [Next]_vars, NEW k \in 1..Now
  PROVE  FailsIn(db', message_list'[k]) <=> FailsIn(db, message_list[k])
<1>1. /\ message_list'[k].msg = message_list[k].msg
      /\ message_list'[k].destroyed = message_list[k].destroyed
  BY MessageKept
<1>2. /\ TargetType(db', message_list'[k]) = TargetType(db, message_list[k])
      /\ IsDeleteId(message_list'[k]) <=> IsDeleteId(message_list[k])
  BY TargetTypeKept
<1>3. QED
  BY <1>1, <1>2, Zenon DEF FailsIn, IsBind

LEMMA PassingKept ==
  ASSUME CoreInv, [Next]_vars, NEW h \in Nat, h <= Now
  PROVE  Passing(db', message_list', h) = Passing(db, message_list, h)
<1>1. Now \in Nat
  BY DEF CoreInv, TypeOK, Now
<1>2. \A k \in 1..h : FailsIn(db', message_list'[k]) <=> FailsIn(db, message_list[k])
  BY <1>1, FailsKept
<1>3. QED
  BY <1>2 DEF Passing

LEMMA PassingNext ==
  ASSUME NEW d, NEW messages, NEW h \in Nat
  PROVE  /\ Passing(d, messages, h) \subseteq 1..h
         /\ FailsIn(d, messages[h + 1]) =>
              Passing(d, messages, h + 1) = Passing(d, messages, h)
         /\ ~FailsIn(d, messages[h + 1]) =>
              Passing(d, messages, h + 1) = Passing(d, messages, h) \cup {h + 1}
<1>1. 1..h+1 = (1..h) \cup {h + 1}
  OBVIOUS
<1>2. QED
  BY <1>1 DEF Passing

(* The message a handler has reached the end of did not fail.                *)
LEMMA FinishedPassed ==
  ASSUME CoreInv, PassedSoFar, pc = "args", next > Len(Current.msg.args)
  PROVE  ~FailsIn(db, Current)
<1>1. message_list \in Seq(Entry) /\ Now \in Nat \ {0}
  BY DEF CoreInv, TypeOK, Now
<1>2. Current \in Entry
  BY <1>1 DEF Current, Now
<1>3. IsBind(db, Current) => GoodBind(Current.msg)
  BY <1>1 DEF CoreInv, EntriesOK, Current
<1>4. Len(Current.msg.args) \in Nat /\ next \in Nat
  BY <1>2, MessageTypes DEF Entry, CoreInv, TypeOK
<1>5. \A i \in 1..Len(Current.msg.args) : i < next
  BY <1>4
<1>6. QED
  BY <1>3, <1>5 DEF FailsIn, PassedSoFar

(* A handler that raises before it looks at the arguments raised for what    *)
(* the stored message shows.                                                 *)
LEMMA BeginRaisesFails ==
  ASSUME CoreInv, NEW m \in Messages, BeginRaises(m)
  PROVE  /\ message_list' = Append(message_list, Stored(db, m))
         /\ db' = db /\ pc = "idle" /\ pc' = "idle" /\ announced' = announced
         /\ FailsIn(db, Stored(db, m))
<1>1. Stored(db, m).msg = m /\ Stored(db, m).destroyed = 0
  BY DEF Stored
<1>2. \/ IsBind(db, Stored(db, m)) /\ ~GoodBind(m)
      \/ IsDeleteId(Stored(db, m))
  BY DEF BeginRaises
<1>3. FailsIn(db, Stored(db, m))
  BY <1>1, <1>2 DEF FailsIn
<1>4. QED
  BY <1>3 DEF BeginRaises, CanBegin, Raise, ListenerUnchanged

(* One that goes on to the arguments has passed those checks.                *)
LEMMA BeginPasses ==
  ASSUME CoreInv, NEW m \in Messages, BeginDeleteId(m) \/ BeginOther(m)
  PROVE  \E e \in Entry :
           /\ message_list' = Append(message_list, e)
           /\ pc = "idle" /\ pc' = "args" /\ next' = 1 /\ announced' = announced
           /\ IsDeleteId(e) => e.destroyed # 0
<1> DEFINE s == Stored(db, m)
           id == m.args[1].value
           e == [s EXCEPT !.destroyed = Len(db[id])]
<1>1. db \in Databases /\ s \in Entry
  BY StoredIsEntry DEF CoreInv, TypeOK, Databases
<1>2. /\ pc = "idle" /\ pc' = "args" /\ next' = 1 /\ announced' = announced
  BY DEF BeginDeleteId, BeginOther, CanBegin, ListenerUnchanged
<1>3. CASE BeginDeleteId(m)
  <2>1. id \in Ids /\ Used(db, id)
    BY <1>3, DeleteIdEffect
  <2>2. Len(db[id]) \in Nat /\ Len(db[id]) # 0
    BY <1>1, <2>1 DEF Databases, Used
  <2>3. message_list' = Append(message_list, e)
    BY <1>3 DEF BeginDeleteId
  <2> HIDE DEF s
  <2>4. e \in Entry /\ e.destroyed = Len(db[id])
    BY <1>1, <2>2 DEF Entry
  <2>5. QED
    BY <1>2, <2>2, <2>3, <2>4
<1>4. CASE BeginOther(m)
  <2>1. message_list' = Append(message_list, s) /\ ~IsDeleteId(s)
    BY <1>4 DEF BeginOther
  <2>2. QED
    BY <1>1, <1>2, <2>1
<1>5. QED
  BY <1>3, <1>4

AnnouncedInv == PassedSoFar /\ Lists(announced, Passing(db, message_list, Handled))

LEMMA BeginAnnounced ==
  ASSUME CoreInv, AnnouncedInv, Begin
  PROVE  AnnouncedInv'
<1>1. Now \in Nat /\ [Next]_vars
  BY DEF CoreInv, TypeOK, Now, Next
<1>2. Passing(db', message_list', Now) = Passing(db, message_list, Now)
  BY <1>1, PassingKept
<1>3. ASSUME NEW m \in Messages, BeginRaises(m)
      PROVE  AnnouncedInv'
  <2>1. /\ message_list' = Append(message_list, Stored(db, m))
        /\ db' = db /\ pc = "idle" /\ pc' = "idle" /\ announced' = announced
        /\ FailsIn(db, Stored(db, m))
    BY <1>3, BeginRaisesFails
  <2>2. Stored(db, m) \in Entry
    BY StoredIsEntry DEF CoreInv, TypeOK, Databases
  <2>3. Now' = Now + 1 /\ message_list'[Now + 1] = Stored(db, m)
    BY <2>1, <2>2, StoredEffect
  <2>a. FailsIn(db', message_list'[Now + 1])
    BY <2>1, <2>3
  <2>4. Passing(db', message_list', Now + 1) = Passing(db, message_list, Now)
    BY <1>1, <1>2, <2>a, PassingNext
  <2>5. Handled = Now /\ Handled' = Now + 1
    BY <2>1, <2>3 DEF Handled
  <2>6. QED
    BY <2>1, <2>4, <2>5 DEF AnnouncedInv, PassedSoFar
<1>4. ASSUME NEW m \in Messages, BeginDeleteId(m) \/ BeginOther(m)
      PROVE  AnnouncedInv'
  <2>1. PICK e \in Entry :
           /\ message_list' = Append(message_list, e)
           /\ pc = "idle" /\ pc' = "args" /\ next' = 1 /\ announced' = announced
           /\ IsDeleteId(e) => e.destroyed # 0
    BY <1>4, BeginPasses
  <2>2. Now' = Now + 1 /\ message_list'[Now'] = e
    BY <2>1, StoredEffect
  <2>3. Handled = Now /\ Handled' = Now
    BY <1>1, <2>1, <2>2 DEF Handled
  <2>4. Lists(announced', Passing(db', message_list', Handled'))
    BY <1>2, <2>1, <2>3 DEF AnnouncedInv
  <2>5. Current' = e
    BY <2>2 DEF Current
  <2>6. PassedSoFar'
    BY <2>1, <2>5 DEF PassedSoFar
  <2>7. QED
    BY <2>4, <2>6 DEF AnnouncedInv
<1>5. QED
  BY <1>3, <1>4 DEF Begin

LEMMA ResolveAnnounced ==
  ASSUME CoreInv, AnnouncedInv, Resolve
  PROVE  AnnouncedInv'
<1>1. AtArg /\ [Next]_vars
  BY DEF Next, Resolve, ResolveRaises, ResolvePlain, ResolveNew, ResolveExisting
<1>2. Now \in Nat \ {0} /\ next \in 1..Len(Current.msg.args) /\ pc = "args"
  BY <1>1, AtArgFacts DEF AtArg
<1>3. /\ Handled = Now - 1 /\ Now - 1 \in Nat /\ (Now - 1) + 1 = Now /\ Now \in 1..Now
      /\ Now - 1 <= Now
  BY <1>2 DEF Handled
<1>4. /\ Passing(db', message_list', Now - 1) = Passing(db, message_list, Now - 1)
      /\ TargetType(db', message_list'[Now]) = TargetType(db, Current)
      /\ IsDeleteId(message_list'[Now]) <=> IsDeleteId(Current)
      /\ message_list'[Now].msg = Current.msg
      /\ message_list'[Now].destroyed = Current.destroyed
      /\ FailsIn(db', message_list'[Now]) <=> FailsIn(db, Current)
  BY <1>1, <1>3, PassingKept, TargetTypeKept, MessageKept, FailsKept DEF Current
<1>5. announced' = announced
  BY DEF Resolve, ResolveRaises, ResolvePlain, ResolveNew, ResolveExisting, ResolveArgIn,
         ListenerUnchanged
<1>6. CASE ResolveRaises
  <2>1. pc' = "idle" /\ Now' = Now /\ ~NameKnown
    BY <1>6 DEF ResolveRaises, Raise, Now
  <2>2. FailsIn(db, Current)
    BY <1>2, <2>1 DEF NameKnown, FailsIn
  <2>3. Passing(db', message_list', Now) = Passing(db', message_list', Now - 1)
    BY <1>3, <1>4, <2>2, PassingNext
  <2>4. Handled' = Now
    BY <2>1 DEF Handled
  <2>5. QED
    BY <1>3, <1>4, <1>5, <2>1, <2>3, <2>4 DEF AnnouncedInv, PassedSoFar
<1>7. CASE ResolvePlain \/ ResolveNew \/ ResolveExisting
  <2>1. pc' = "args" /\ next' = next + 1 /\ NameKnown
    BY <1>2, <1>7 DEF ResolvePlain, ResolveNew, ResolveExisting, ResolveArgIn
  <2>2. Now' = Now
    <3>1. CASE ResolvePlain
      BY <3>1 DEF ResolvePlain, Now
    <3>2. CASE ResolveNew \/ ResolveExisting
      <4>1. CASE NothingStored
        BY <4>1 DEF NothingStored, Now
      <4>2. CASE \E m \in Messages : MessageStored(m)
        <5>1. next' = 1 /\ next \in Nat \ {0}
          BY <4>2 DEF MessageStored, CoreInv, TypeOK
        <5>2. QED
          BY <2>1, <5>1
      <4>3. CASE \E c \in Entry : ResolvesTo(c)
        BY <4>3 DEF ResolvesTo
      <4>4. QED
        BY <1>1, <4>1, <4>2, <4>3, StepEffect
    <3>3. QED
      BY <1>7, <3>1, <3>2
  <2>3. Handled' = Now - 1 /\ Current' = message_list'[Now]
    BY <2>1, <2>2 DEF Handled, Current
  <2>4. PassedSoFar'
    <3>1. IsDeleteId(Current') => Current'.destroyed # 0
      BY <1>2, <1>4, <2>3 DEF AnnouncedInv, PassedSoFar
    <3>2. ASSUME NEW i \in 1..Len(Current.msg.args), i < next + 1
          PROVE  ~GetArgRaises(TargetType(db, Current), Current.msg.name, i)
      <4>1. CASE i = next
        BY <2>1, <4>1 DEF NameKnown
      <4>2. CASE i # next
        <5>1. i < next
          BY <1>2, <3>2, <4>2
        <5>2. QED
          BY <1>2, <5>1 DEF AnnouncedInv, PassedSoFar
      <4>3. QED
        BY <4>1, <4>2
    <3>3. QED
      BY <1>4, <2>1, <2>3, <3>1, <3>2 DEF PassedSoFar
  <2>5. QED
    BY <1>3, <1>4, <1>5, <2>3, <2>4 DEF AnnouncedInv
<1>8. QED
  BY <1>6, <1>7 DEF Resolve

LEMMA FinishAnnounced ==
  ASSUME CoreInv, AnnouncedInv, Finish
  PROVE  AnnouncedInv'
<1>1. /\ pc = "args" /\ next > Len(Current.msg.args) /\ pc' = "idle"
      /\ announced' = Append(announced, Now)
      /\ UNCHANGED <<db, message_list>>
  BY DEF Finish
<1>2. Now \in Nat \ {0} /\ announced \in Seq(Nat)
  BY <1>1 DEF CoreInv, TypeOK, Now
<1>3. /\ Handled = Now - 1 /\ Now - 1 \in Nat /\ (Now - 1) + 1 = Now
      /\ Handled' = Now
  BY <1>1, <1>2 DEF Handled, Now
<1>4. ~FailsIn(db, Current)
  BY <1>1, FinishedPassed DEF AnnouncedInv
<1>5. /\ Passing(db, message_list, Now) = Passing(db, message_list, Now - 1) \cup {Now}
      /\ Passing(db, message_list, Now - 1) \subseteq 1..Now - 1
  BY <1>3, <1>4, PassingNext, SMTT(20) DEF Current
<1>6. Lists(Append(announced, Now), Passing(db, message_list, Now - 1) \cup {Now})
  BY <1>2, <1>3, <1>5, ListsAppend DEF AnnouncedInv
<1>7. QED
  BY <1>1, <1>3, <1>5, <1>6 DEF AnnouncedInv, PassedSoFar

(* The inductive invariant behind it: what was announced so far, and what    *)
(* the message being resolved has passed.                                    *)
THEOREM AnnouncedInvariant == Spec => []AnnouncedInv
<1>1. Init => AnnouncedInv
  <2> SUFFICES ASSUME Init PROVE AnnouncedInv
    OBVIOUS
  <2>1. announced = <<>> /\ Len(announced) = 0 /\ pc = "idle" /\ Now = 0 /\ Handled = 0
    BY DEF Init, Now, Handled
  <2>2. QED
    BY <2>1 DEF AnnouncedInv, PassedSoFar, Lists, Passing
<1>2. CoreInv /\ AnnouncedInv /\ [Next]_vars => AnnouncedInv'
  <2> SUFFICES ASSUME CoreInv, AnnouncedInv, [Next]_vars PROVE AnnouncedInv'
    OBVIOUS
  <2>1. CASE Close \/ UNCHANGED vars
    <3>1. UNCHANGED <<db, message_list, announced, pc, next>>
      BY <2>1 DEF Close, vars
    <3>2. QED
      BY <3>1 DEF AnnouncedInv, PassedSoFar, Handled, Now, Current
  <2>2. QED
    BY <2>1, BeginAnnounced, ResolveAnnounced, FinishAnnounced DEF Next
<1>3. QED
  BY <1>1, <1>2, CoreInvariant, PTL DEF Spec

(* A message whose handling raised is kept and never announced; every other  *)
(* message is announced once, in order.                                      *)
THEOREM AnnouncedAreThoseNotRaised == Spec => []AnnouncedUnlessRaised
<1>1. AnnouncedInv => AnnouncedUnlessRaised
  BY AnnouncedDef DEF AnnouncedInv
<1>2. QED
  BY <1>1, AnnouncedInvariant, PTL
------------------------------------------------------------------------------
(* What names a connection *)

StrongTitle(m) ==
  IF m.name = "set_app_id" THEN LastPart[StringArg(m, 1)]
  ELSE IF m.name = "get_layer_surface" THEN StringArg(m, 5)
  ELSE Empty

WeakTitle(m) == IF m.name = "set_title" THEN StringArg(m, 1) ELSE Empty

Said == {announced[n] : n \in 1..Len(announced)}

(* The title that the messages at the places "said" give, and the app id.    *)
TitleFrom(said, messages, t) ==
  \/ \E k \in said :
       /\ StrongTitle(messages[k].msg) # Empty
       /\ \A j \in said : StrongTitle(messages[j].msg) # Empty => j <= k
       /\ t = StrongTitle(messages[k].msg)
  \/ /\ \A k \in said : StrongTitle(messages[k].msg) = Empty
     /\ \E k \in said :
          /\ WeakTitle(messages[k].msg) # Empty
          /\ \A j \in said : WeakTitle(messages[j].msg) # Empty => k <= j
          /\ t = WeakTitle(messages[k].msg)
  \/ /\ \A k \in said :
          StrongTitle(messages[k].msg) = Empty /\ WeakTitle(messages[k].msg) = Empty
     /\ t = Empty

AppIdFrom(said, messages, t) ==
  \/ \E k \in said :
       /\ AppIdOf(messages[k].msg) # Empty
       /\ \A j \in said : AppIdOf(messages[j].msg) # Empty => j <= k
       /\ t = AppIdOf(messages[k].msg)
  \/ (\A k \in said : AppIdOf(messages[k].msg) = Empty) /\ t = Empty

LEMMA NamesDef ==
  ASSUME TitleFrom(Said, message_list, title), AppIdFrom(Said, message_list, app_id)
  PROVE  NamesFromHistory
<1> DEFINE M(k) == message_list[k].msg
           Strong(k) ==
             IF M(k).name = "set_app_id" THEN LastPart[StringArg(M(k), 1)]
             ELSE IF M(k).name = "get_layer_surface" THEN StringArg(M(k), 5)
             ELSE Empty
           strong == {k \in Said : Strong(k) # Empty}
           weak == {k \in Said : M(k).name = "set_title" /\ StringArg(M(k), 1) # Empty}
           ids == {k \in Said : M(k).name = "set_app_id" /\ StringArg(M(k), 1) # Empty}
<1>1. \A k : Strong(k) = StrongTitle(message_list[k].msg)
  BY DEF StrongTitle
<1>2. \A k : k \in weak <=> k \in Said /\ WeakTitle(message_list[k].msg) # Empty
  BY DEF WeakTitle
<1>3. \A k \in weak : StringArg(M(k), 1) = WeakTitle(message_list[k].msg)
  BY DEF WeakTitle
<1>4. \A k : k \in ids <=> k \in Said /\ AppIdOf(message_list[k].msg) # Empty
  BY DEF AppIdOf
<1>5. \A k \in ids : StringArg(M(k), 1) = AppIdOf(message_list[k].msg)
  BY DEF AppIdOf
<1>6. \A k : k \in strong <=> k \in Said /\ StrongTitle(message_list[k].msg) # Empty
  BY <1>1
<1> HIDE DEF strong, weak, ids, Strong
<1>7. \/ \E k \in strong : (\A j \in strong : j <= k) /\ title = Strong(k)
      \/ strong = {} /\ \E k \in weak :
           (\A j \in weak : k <= j) /\ title = StringArg(M(k), 1)
      \/ strong = {} /\ weak = {} /\ title = Empty
  BY <1>1, <1>2, <1>3, <1>6 DEF TitleFrom
<1>8. \/ \E k \in ids : (\A j \in ids : j <= k) /\ app_id = StringArg(M(k), 1)
      \/ ids = {} /\ app_id = Empty
  BY <1>4, <1>5 DEF AppIdFrom
<1>9. QED
  BY <1>7, <1>8 DEF NamesFromHistory, Said, strong, weak, ids, Strong

(* Messages that stay as they were give the same names.                      *)
LEMMA SameNames ==
  ASSUME NEW said, NEW ml, NEW ml2, NEW t, \A k \in said : ml2[k].msg = ml[k].msg
  PROVE  /\ TitleFrom(said, ml, t) => TitleFrom(said, ml2, t)
         /\ AppIdFrom(said, ml, t) => AppIdFrom(said, ml2, t)
BY DEF TitleFrom, AppIdFrom

(* What one more message makes of the title and of the app id.               *)
LEMMA TitleAfter ==
  ASSUME NEW n \in Nat, NEW said, said \subseteq 1..n-1, NEW ml, NEW t, NEW t2,
         TitleFrom(said, ml, t),
         t2 = IF StrongTitle(ml[n].msg) # Empty THEN StrongTitle(ml[n].msg)
              ELSE IF t = Empty /\ WeakTitle(ml[n].msg) # Empty THEN WeakTitle(ml[n].msg)
              ELSE t
  PROVE  TitleFrom(said \cup {n}, ml, t2)
<1> DEFINE S(k) == StrongTitle(ml[k].msg)
           W(k) == WeakTitle(ml[k].msg)
<1>0. \A k \in said : k <= n /\ k <= k
  OBVIOUS
<1>1. CASE S(n) # Empty
  <2>1. t2 = S(n) /\ \A j \in said \cup {n} : j <= n
    BY <1>0, <1>1
  <2>2. QED
    BY <1>1, <2>1 DEF TitleFrom
<1>2. CASE S(n) = Empty /\ \E k \in said : S(k) # Empty
  <2>1. PICK k \in said : S(k) # Empty /\ (\A j \in said : S(j) # Empty => j <= k) /\ t = S(k)
    BY <1>2 DEF TitleFrom
  <2>2. t2 = S(k) /\ \A j \in said \cup {n} : S(j) # Empty => j <= k
    BY <1>2, <2>1
  <2>3. QED
    BY <2>1, <2>2 DEF TitleFrom
<1>3. CASE S(n) = Empty /\ (\A k \in said : S(k) = Empty) /\ \E k \in said : W(k) # Empty
  <2>1. PICK k \in said : W(k) # Empty /\ (\A j \in said : W(j) # Empty => k <= j) /\ t = W(k)
    BY <1>3 DEF TitleFrom
  <2>2. t2 = W(k) /\ \A j \in said \cup {n} : W(j) # Empty => k <= j
    BY <1>0, <1>3, <2>1
  <2>3. \A j \in said \cup {n} : S(j) = Empty
    BY <1>3
  <2>4. QED
    BY <2>1, <2>2, <2>3 DEF TitleFrom
<1>4. CASE S(n) = Empty /\ (\A k \in said : S(k) = Empty /\ W(k) = Empty)
  <2>1. t = Empty /\ t2 = W(n) /\ n <= n
    BY <1>4 DEF TitleFrom
  <2>2. \A j \in said \cup {n} : S(j) = Empty /\ (W(j) # Empty => j = n)
    BY <1>4
  <2>3. QED
    BY <2>1, <2>2 DEF TitleFrom
<1>5. QED
  BY <1>1, <1>2, <1>3, <1>4

LEMMA AppIdAfter ==
  ASSUME NEW n \in Nat, NEW said, said \subseteq 1..n-1, NEW ml, NEW t,
         AppIdFrom(said, ml, t)
  PROVE  AppIdFrom(said \cup {n}, ml, Unless(AppIdOf(ml[n].msg), t))
<1> DEFINE A(k) == AppIdOf(ml[k].msg)
<1>0. \A k \in said \cup {n} : k <= n
  OBVIOUS
<1>1. CASE A(n) # Empty
  <2>1. Unless(A(n), t) = A(n)
    BY <1>1 DEF Unless
  <2>2. QED
    BY <1>0, <1>1, <2>1 DEF AppIdFrom
<1>2. CASE A(n) = Empty
  <2>1. Unless(A(n), t) = t
    BY <1>2 DEF Unless
  <2>2. QED
    BY <1>2, <2>1 DEF AppIdFrom
<1>3. QED
  BY <1>1, <1>2

(* The title that Finish sets, by what the message gives.                    *)
LEMMA FinishTitle ==
  ASSUME NEW m, NEW t
  PROVE  Unless(TitleOf(m, t), t) =
           IF StrongTitle(m) # Empty THEN StrongTitle(m)
           ELSE IF t = Empty /\ WeakTitle(m) # Empty THEN WeakTitle(m)
           ELSE t
<1>1. CASE m.name = "set_app_id"
  BY <1>1 DEF TitleOf, StrongTitle, WeakTitle, Unless
<1>2. CASE m.name = "set_title"
  BY <1>2 DEF TitleOf, StrongTitle, WeakTitle, Unless
<1>3. CASE m.name = "get_layer_surface"
  BY <1>3 DEF TitleOf, StrongTitle, WeakTitle, Unless
<1>4. CASE m.name \notin {"set_app_id", "set_title", "get_layer_surface"}
  BY <1>4 DEF TitleOf, StrongTitle, WeakTitle, Unless
<1>5. QED
  BY <1>1, <1>2, <1>3, <1>4

NamesInv == TitleFrom(Said, message_list, title) /\ AppIdFrom(Said, message_list, app_id)

LEMMA SaidInRange ==
  ASSUME CoreInv, AnnouncedInv
  PROVE  Said \subseteq 1..Handled /\ Handled \in Int /\ Now \in Nat /\ Handled <= Now
<1>1. Now \in Nat
  BY DEF CoreInv, TypeOK, Now
<1>2. QED
  BY <1>1 DEF AnnouncedInv, Lists, Passing, Said, Handled

LEMMA NamesStay ==
  ASSUME CoreInv, AnnouncedInv, NamesInv, [Next]_vars
  PROVE  NamesInv'
<1>1. \A k \in Said : message_list'[k].msg = message_list[k].msg
  BY SaidInRange, MessageKept
<1>2. TitleFrom(Said, message_list', title) /\ AppIdFrom(Said, message_list', app_id)
  BY <1>1, SameNames DEF NamesInv
<1>3. CASE Finish
  <2> DEFINE m == message_list[Now].msg
  <2>1. /\ pc = "args" /\ message_list' = message_list
        /\ announced' = Append(announced, Now)
        /\ title' = Unless(TitleOf(m, title), title)
        /\ app_id' = Unless(AppIdOf(m), app_id)
    BY <1>3 DEF Finish, Current
  <2>2. announced \in Seq(Nat) /\ Now \in Nat /\ Said \subseteq 1..Now-1
    BY <2>1, SaidInRange DEF CoreInv, TypeOK, Handled
  <2>3. Said' = Said \cup {Now}
    <3> DEFINE a == Append(announced, Now)
    <3>1. /\ Len(announced) \in Nat /\ Len(a) = Len(announced) + 1
          /\ a[Len(announced) + 1] = Now
          /\ \A n \in 1..Len(announced) : a[n] = announced[n]
      BY <2>2
    <3> HIDE DEF a
    <3>2. {a[n] : n \in 1..Len(a)} = {announced[n] : n \in 1..Len(announced)} \cup {Now}
      <4>1. 1..Len(a) = (1..Len(announced)) \cup {Len(announced) + 1}
        BY <3>1
      <4>2. QED
        BY <3>1, <4>1
    <3>3. QED
      BY <2>1, <3>2 DEF Said, a
  <2>4. TitleFrom(Said \cup {Now}, message_list, title')
    <3> DEFINE t2 == IF StrongTitle(m) # Empty THEN StrongTitle(m)
                     ELSE IF title = Empty /\ WeakTitle(m) # Empty THEN WeakTitle(m)
                     ELSE title
    <3>1. title' = t2
      BY <2>1, FinishTitle
    <3>2. TitleFrom(Said, message_list, title)
      BY DEF NamesInv
    <3>3. QED
      BY <2>2, <3>1, <3>2, TitleAfter
  <2>5. AppIdFrom(Said \cup {Now}, message_list, app_id')
    BY <2>1, <2>2, AppIdAfter DEF NamesInv
  <2>6. QED
    BY <2>1, <2>3, <2>4, <2>5 DEF NamesInv
<1>4. CASE Begin \/ Resolve \/ Close \/ UNCHANGED vars
  <2>1. UNCHANGED <<announced, title, app_id>>
    BY <1>4 DEF Begin, BeginRaises, BeginDeleteId, BeginOther, Resolve, ResolveRaises,
                ResolvePlain, ResolveNew, ResolveExisting, ResolveArgIn, ListenerUnchanged,
                Close, vars
  <2>2. QED
    BY <1>2, <2>1 DEF NamesInv, Said
<1>5. QED
  BY <1>3, <1>4 DEF Next

(* The title and the app id are always those that the announced messages     *)
(* give, in whatever order they came.                                        *)
THEOREM NamesAreFromHistory == Spec => []NamesFromHistory
<1>1. Init => NamesInv
  BY DEF Init, NamesInv, Said, TitleFrom, AppIdFrom
<1>2. CoreInv /\ AnnouncedInv /\ NamesInv /\ [Next]_vars => NamesInv'
  BY NamesStay
<1>3. NamesInv => NamesFromHistory
  BY NamesDef DEF NamesInv
<1>4. QED
  BY <1>1, <1>2, <1>3, CoreInvariant, AnnouncedInvariant, PTL DEF Spec
==============================================================================
