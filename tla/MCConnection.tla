---------------------------- MODULE MCConnection -----------------------------
(* Small instances of Connection.  Ids: 1 the display, 2 the registry, 3 and *)
(* 4 of the client, 9 of the server; 7 is a number no object ever has.       *)
EXTENDS Connection

Int_(v) == [kind |-> "int", value |-> v]
Str(v) == [kind |-> "string", value |-> v]
New(id, type) == [kind |-> "object", id |-> id, type |-> type, is_new |-> TRUE]
Ref(id, type) == [kind |-> "object", id |-> id, type |-> type, is_new |-> FALSE]
Other == [kind |-> "other"]
Msg(id, type, name, args) == [id |-> id, type |-> type, name |-> name, args |-> args]

MCIds == {1, 2, 3, 9}
MCServerIds == {9}
MCTypes == {"wl_display", "wl_registry", "seat", "offer"}

MCStrings == {"", "seat", "a", "b", "a.b", "a."}
MCLastPart ==
  [s \in MCStrings |-> CASE s = "a.b" -> "b" [] s = "a." -> "" [] OTHER -> s]

(* seat is a loaded interface, offer is not.                                 *)
MCProtocol ==
  [wl_display |-> [get_registry |-> 1, sync |-> 1, delete_id |-> 1],
   wl_registry |-> [bind |-> 2, global |-> 3],
   seat |-> [offer |-> 2, use |-> 1, release |-> 0]]

(* Creation and destruction of objects of the client and of the server, with *)
(* reused ids, conflicts, and messages that make the handler raise.          *)
MCObjectMessages == {
  Msg(1, "wl_display", "get_registry", <<New(2, "wl_registry")>>),
  Msg(1, "wl_display", "delete_id", <<Int_(3)>>),
  Msg(1, NoType, "delete_id", <<Int_(7)>>),
  Msg(2, NoType, "bind", <<Int_(5), Str("seat"), Int_(1), New(3, NoType)>>),
  Msg(2, "wl_registry", "bind", <<Int_(5), Str("seat")>>),
  Msg(3, "seat", "offer", <<New(9, "offer"), Ref(3, "seat")>>),
  Msg(3, "seat", "use", <<Ref(9, "offer"), Other>>),
  Msg(3, NoType, "offer", <<New(9, "seat"), New(9, "offer"), Other>>),
  Msg(9, "offer", "sync", <<New(3, "offer")>>)}

(* What names a connection, among messages that are not announced.           *)
MCTitleMessages == {
  Msg(3, "offer", "set_app_id", <<Str("a.b")>>),
  Msg(3, "offer", "set_app_id", <<Str("a.")>>),
  Msg(3, "offer", "set_app_id", <<Str("")>>),
  Msg(3, "offer", "set_title", <<Str("a")>>),
  Msg(3, "offer", "set_title", <<Str("seat")>>),
  Msg(3, "offer", "set_title", <<>>),
  Msg(3, "offer", "get_layer_surface", <<Other, Other, Other, Other, Str("a")>>),
  Msg(3, "seat", "set_title", <<Str("a")>>),
  Msg(3, "offer", "set_title", <<Int_(1)>>)}

MCMessages == MCObjectMessages \cup MCTitleMessages

(* A connection gets messages of one of the two sets, and up to four that    *)
(* name it.                                                                  *)
OneTheme ==
  LET received == {message_list[k].msg : k \in 1..Now}
  IN \/ received \subseteq MCObjectMessages
     \/ received \subseteq MCTitleMessages /\ Now <= 4

==============================================================================
