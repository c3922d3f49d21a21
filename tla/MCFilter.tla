------------------------------- MODULE MCFilter -------------------------------
(* Texts of every shape the grammar has, and messages to tell them apart.    *)
(* The generations in them are numbers: how their letters are read, past ZZ   *)
(* and back, is assumed of LetterId and evaluated.                           *)
(*                                                                           *)
(* There is no text with a star in an argument list, as .( * ), which should *)
(* ask for an argument of any kind: simplify makes it match messages that    *)
(* have none, so ShowsWhatWasAsked does not hold for it.                     *)
EXTENDS Filter

Names(names) == [of |-> "names", names |-> names]
Xdg == Names({"xdg_popup", "xdg_surface"})
Id(id, generations) == [of |-> "id", id |-> id, generations |-> generations]
Items(pos) == [of |-> "list", pos |-> pos, neg |-> <<>>]
Banged(pos, neg) == [of |-> "list", pos |-> pos, neg |-> neg]
Naked(obj) == [of |-> "naked", conn |-> Star, obj |-> obj]
Full(obj, name, args) == [of |-> "full", conn |-> Star, obj |-> obj, name |-> name, args |-> args]
FullOn(conn, obj, name, args) ==
  [of |-> "full", conn |-> conn, obj |-> obj, name |-> name, args |-> args]
Value(name, value) == [of |-> "arg", name |-> name, value |-> value]
Whole(n) == [of |-> "int", int |-> n]
ArgsList(pos, neg) == [of |-> "args", pos |-> pos, neg |-> neg]

StarText == Items(<<Naked(Star)>>)

MCTexts ==
  { StarText,
    Banged(<<Empty>>, <<Empty>>),                              \* !
    Items(<<Naked(Names({"wl_pointer"}))>>),                   \* wl_pointer
    Banged(<<Empty>>, <<Full(Empty, Names({"motion"}), Empty)>>),  \* ! .motion
    Banged(<<Naked(Star)>>, <<Naked(Xdg)>>),                   \* * ! xdg_*
    Items(<<Full(Names({"wl_surface"}), Names({"new"}), Empty), Naked(Id(5, {0}))>>),
                                                               \* wl_surface.new, 5a
    Banged(<<Full(Banged(<<Names({"wl_pointer"})>>, <<Id(6, {}), Id(7, {1})>>),
                  Empty, ArgsList(<<Value(Names({"x"}), Whole(0)), Value(Empty, Whole(5))>>, <<>>)),
             FullOn(Names({"B"}), Empty, Items(<<Names({"commit"}), Names({"destroyed"})>>), Empty)>>,
           <<Naked(Id(8, {}))>>),     \* [wl_pointer ! 6, 7b].(x=0, 5), B:.[commit, destroyed] ! 8
    Items(<<Full(Empty, Star,
                 ArgsList(<<Items(<<Value(Empty, Names({"pressed", "wl_surface"})),
                                Value(Empty, [of |-> "string", string |-> "text"])>>)>>,
                      <<Value(Names({"x"}), [of |-> "float", float |-> <<1, 5>>])>>))>>),
                                      \* .*([pressed, "text"] ! x=1.5)
    Items(<<Full(Empty, Empty, ArgsList(<<Value(Empty, Id(0, {}))>>, <<>>))>>),  \* .(null)
    Items(<<Full(Star, Star, Empty)>>),                        \* *.*
    Items(<<Full(Empty, Names({"motion"}), Bang),
            Full(Banged(<<Empty>>, <<Names({"wl_pointer"})>>), Star, Empty)>>)
                                      \* .motion(!), [! wl_pointer].*
  }

Obj(type, id, generation) == [type |-> type, id |-> id, generation |-> generation]
Msg(conn, obj, name, args, destroyed) ==
  [conn |-> conn, obj |-> obj, name |-> name, args |-> args, destroyed |-> destroyed]
Num(kind, name, value, labels) ==
  [kind |-> kind, name |-> name, value |-> value, labels |-> labels]
ObjArg(name, obj, new) == [kind |-> "object", name |-> name, obj |-> obj, new |-> new]

pointer(n, g) == Obj("wl_pointer", n, g)
surface(n, g) == Obj("wl_surface", n, g)

MCMessages ==
  { Msg("A", pointer(6, 0), "motion", <<Num("float", "x", <<0, 0>>, {}), Num("int", "y", <<5, 0>>, {})>>, <<>>),
    Msg("B", pointer(7, 0), "motion", <<Num("float", "x", <<0, 0>>, {}), ObjArg("", surface(5, 0), FALSE)>>, <<>>),
    Msg("A", pointer(7, 1), "button", <<Num("int", "state", <<1, 0>>, {"pressed"})>>, <<>>),
    Msg("A", Obj("wl_compositor", 4, 0), "create_surface", <<ObjArg("id", surface(5, 1), TRUE)>>, <<>>),
    Msg("A", Obj("wl_display", 1, 0), "delete_id", <<Num("int", "id", <<5, 0>>, {})>>, <<surface(5, 0)>>),
    Msg("B", Obj("wl_display", 1, 0), "delete_id", <<Num("int", "id", <<8, 0>>, {})>>, <<Obj("xdg_popup", 8, 0)>>),
    Msg("B", Obj("xdg_popup", 8, 0), "commit", <<>>, <<>>),
    Msg("B", surface(5, 1), "commit", <<>>, <<>>),
    Msg("A", surface(5, 1), "attach",
        <<[kind |-> "null", name |-> "buffer", type |-> "wl_buffer"], Num("float", "x", <<1, 5>>, {})>>, <<>>),
    Msg("unknown", Obj(NoType, 9, 0), "set_title", <<[kind |-> "string", name |-> "", text |-> "text"]>>, <<>>),
    Msg("unknown", Obj(NoType, 9, 0), "motion",
        <<[kind |-> "string", name |-> "x", text |-> "text"], Num("float", "x", <<1, 5>>, {})>>, <<>>),
    Msg("B", Obj("wl_shm", 3, 0), "format", <<Num("fd", "fd", <<2, 0>>, {})>>, <<>>) }

(* The alphabet of the code.                                                 *)
English == INSTANCE LetterId WITH Letters <- 26
ASSUME ReadBack == \A index \in 0..800 : English!ReadsBack(index)
ASSUME InOrder ==
  \A index \in 1..800 :
    English!number_to_letter_id(index) = English!Successor(English!number_to_letter_id(index - 1))
==============================================================================
