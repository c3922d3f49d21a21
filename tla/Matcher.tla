------------------------------- MODULE Matcher -------------------------------
(* core/matcher.py: what a matcher is, what it matches, how it is parsed,    *)
(* simplified and joined to another.  Pure operators; module Filter uses     *)
(* them as the commands do.                                                  *)
(*                                                                           *)
(* A matcher is a record whose field "is" names its class.  EqMatcher and    *)
(* WildcardMatcher are OneOf the values they accept.  What the classes do is *)
(* written per kind of value, from the strings up to the messages; a list    *)
(* in brackets holds items that are not such lists again.                    *)
(*                                                                           *)
(* A number is <<whole, fraction>>.  An object is [type, id, generation], an *)
(* argument [kind, name, ...] with what its kind has, and a message          *)
(* [conn, obj, name, args, destroyed]; destroyed holds at most one object.   *)
EXTENDS Integers, Sequences, Selection

NoType == "None"

------------------------------------------------------------------------------
(* Classes *)

Always(result) == [is |-> "always", result |-> result]
OneOf(values) == [is |-> "oneof", values |-> values]
Wrap(class, wrapped) == [is |-> class, wrapped |-> wrapped]
PairMatcher(a, b) == [is |-> "pair", a |-> a, b |-> b]
MatcherList(positive, negative) == [is |-> "list", positive |-> positive, negative |-> negative]
ArgsMatcherList(positive, negative) == [is |-> "args", positive |-> positive, negative |-> negative]

IsAlways(m) == m.is = "always"
AlwaysTrue(m) == IsAlways(m) /\ m.result
AlwaysFalse(m) == IsAlways(m) /\ ~m.result

------------------------------------------------------------------------------
(* Matching *)

MatchesLeaf(m, x) == IF IsAlways(m) THEN m.result ELSE x \in m.values

(* MatcherList.matches, or what else Sub matches.                            *)
MatchesList(m, x, Sub(_, _)) ==
  IF m.is = "list"
  THEN /\ \E i \in DOMAIN m.positive : Sub(m.positive[i], x)
       /\ \A i \in DOMAIN m.negative : ~Sub(m.negative[i], x)
  ELSE Sub(m, x)

MatchesText(m, text) == MatchesList(m, text, MatchesLeaf)

MatchesConn(m, name) == IF IsAlways(m) THEN m.result ELSE MatchesText(m.wrapped, name)

MatchesOneObject(m, obj) ==
  CASE m.is = "always" -> m.result
    [] m.is = "id" -> MatchesLeaf(m.wrapped.a, obj.id) /\ MatchesLeaf(m.wrapped.b, obj.generation)
    [] m.is = "type" -> obj.type # NoType /\ MatchesLeaf(m.wrapped, obj.type)

MatchesObject(m, obj) == MatchesList(m, obj, MatchesOneObject)

MockObject(type) == [type |-> type, id |-> 0, generation |-> 0]

MatchesOneValue(m, arg) ==
  CASE m.is = "always" -> m.result
    [] m.is = "int" ->
         \/ /\ arg.kind \in {"int", "float", "fd"}
            /\ arg.value[2] = 0
            /\ MatchesLeaf(m.wrapped, arg.value[1])
         \/ arg.kind = "object" /\ MatchesLeaf(m.wrapped, arg.obj.id)
    [] m.is = "label" ->
         \/ arg.kind = "int" /\ \E label \in arg.labels : MatchesLeaf(m.wrapped, label)
         \/ arg.kind = "object" /\ arg.obj.type # NoType /\ MatchesLeaf(m.wrapped, arg.obj.type)
         \/ arg.kind = "null" /\ arg.type # NoType /\ MatchesLeaf(m.wrapped, arg.type)
    [] m.is = "float" -> arg.kind = "float" /\ MatchesLeaf(m.wrapped, arg.value)
    [] m.is = "string" -> arg.kind = "string" /\ MatchesLeaf(m.wrapped, arg.text)
    [] m.is = "object" ->
         \/ arg.kind = "object" /\ MatchesObject(m.wrapped, arg.obj)
         \/ arg.kind = "null" /\ MatchesObject(m.wrapped, MockObject(arg.type))

MatchesValue(m, arg) == MatchesList(m, arg, MatchesOneValue)

MatchesOneArg(m, arg) ==
  IF IsAlways(m) THEN m.result
  ELSE MatchesText(m.wrapped.a, arg.name) /\ MatchesValue(m.wrapped.b, arg)

MatchesArg(m, arg) == MatchesList(m, arg, MatchesOneArg)

MatchesArgs(m, args) ==
  IF IsAlways(m) THEN m.result
  ELSE /\ \A i \in DOMAIN m.positive : \E j \in DOMAIN args : MatchesArg(m.positive[i], args[j])
       /\ \A i \in DOMAIN m.negative : \A j \in DOMAIN args : ~MatchesArg(m.negative[i], args[j])

MatchesPattern(m, message) ==
  IF IsAlways(m) THEN m.result
  ELSE /\ MatchesConn(m.conn, message.conn)
       /\ \/ /\ m.match_new
             /\ \E j \in DOMAIN message.args :
                  /\ message.args[j].kind = "object" /\ message.args[j].new
                  /\ MatchesObject(m.obj, message.args[j].obj)
          \/ /\ m.match_destroyed
             /\ \E j \in DOMAIN message.destroyed : MatchesObject(m.obj, message.destroyed[j])
          \/ /\ MatchesObject(m.obj, message.obj)
             /\ MatchesText(m.name, message.name)
             /\ MatchesArgs(m.args, message.args)

(* An object alone is a list within the list of patterns.                    *)
MatchesItem(m, message) == MatchesList(m, message, MatchesPattern)

Matches(m, message) == MatchesList(m, message, MatchesItem)

(* MessagePattern.__init__.                                                  *)
MessagePattern(conn, obj, name, args) ==
  [is |-> "pattern", conn |-> conn, obj |-> obj, name |-> name, args |-> args,
   match_new |-> MatchesText(name, "new") /\ MatchesArgs(args, <<>>),
   match_destroyed |-> MatchesText(name, "destroyed") /\ MatchesArgs(args, <<>>)]

------------------------------------------------------------------------------
(* Simplifying: what simplify makes of a matcher whose parts are simplified, *)
(* and then of each kind.                                                    *)

NotNever(ms) == Selected(ms, {i \in DOMAIN ms : ~AlwaysFalse(ms[i])})

(* Mutant: a list of one loses its exclusions.                               *)
SimplerListHasty(positive, negative) ==
  LET pos == NotNever(IF \E i \in DOMAIN positive : AlwaysTrue(positive[i])
                      THEN <<Always(TRUE)>> ELSE positive)
      neg == NotNever(negative)
  IN IF pos = <<>> \/ \E i \in DOMAIN negative : AlwaysTrue(negative[i]) THEN Always(FALSE)
     ELSE IF Len(pos) = 1 THEN pos[1] ELSE MatcherList(pos, neg)

SimplerList(positive, negative) ==
  LET pos == NotNever(IF \E i \in DOMAIN positive : AlwaysTrue(positive[i])
                      THEN <<Always(TRUE)>> ELSE positive)
      neg == NotNever(negative)
  IN IF pos = <<>> \/ \E i \in DOMAIN negative : AlwaysTrue(negative[i]) THEN Always(FALSE)
     ELSE IF Len(pos) = 1 /\ neg = <<>> THEN pos[1] ELSE MatcherList(pos, neg)

SimplerArgs(pos, negative) ==
  LET neg == NotNever(negative)
  IN IF \/ \E i \in DOMAIN negative : AlwaysTrue(negative[i])
        \/ \E i \in DOMAIN pos : AlwaysFalse(pos[i])
     THEN Always(FALSE)
     ELSE IF neg = <<>> /\ \A i \in DOMAIN pos : AlwaysTrue(pos[i]) THEN Always(TRUE)
          ELSE ArgsMatcherList(pos, neg)

SimplerPair(a, b) ==
  IF IsAlways(a) /\ IsAlways(b) /\ a.result = b.result THEN a ELSE PairMatcher(a, b)

SimplerWrap(class, wrapped) == IF IsAlways(wrapped) THEN wrapped ELSE Wrap(class, wrapped)

SimplifyLeaf(m) == m

(* MatcherList.simplify, or what else Sub simplifies.                        *)
SimplifyList(m, Sub(_)) ==
  IF m.is = "list"
  THEN SimplerList([i \in DOMAIN m.positive |-> Sub(m.positive[i])],
                   [i \in DOMAIN m.negative |-> Sub(m.negative[i])])
  ELSE Sub(m)

SimplifyText(m) == SimplifyList(m, SimplifyLeaf)

SimplifyConn(m) == IF IsAlways(m) THEN m ELSE SimplerWrap("conn", SimplifyText(m.wrapped))

SimplifyOneObject(m) ==
  CASE m.is = "always" -> m
    [] m.is = "id" ->
         SimplerWrap("id", SimplerPair(SimplifyLeaf(m.wrapped.a), SimplifyLeaf(m.wrapped.b)))
    [] m.is = "type" -> SimplerWrap("type", SimplifyLeaf(m.wrapped))

SimplifyObject(m) == SimplifyList(m, SimplifyOneObject)

SimplifyOneValue(m) ==
  CASE m.is = "always" -> m
    [] m.is = "object" -> SimplerWrap("object", SimplifyObject(m.wrapped))
    [] m.is \in {"int", "label", "float", "string"} -> SimplerWrap(m.is, SimplifyLeaf(m.wrapped))

SimplifyValue(m) == SimplifyList(m, SimplifyOneValue)

SimplifyOneArg(m) ==
  IF IsAlways(m) THEN m
  ELSE SimplerWrap("arg", SimplerPair(SimplifyText(m.wrapped.a), SimplifyValue(m.wrapped.b)))

SimplifyArg(m) == SimplifyList(m, SimplifyOneArg)

SimplifyArgs(m) ==
  IF IsAlways(m) THEN m
  ELSE SimplerArgs([i \in DOMAIN m.positive |-> SimplifyArg(m.positive[i])],
                   [i \in DOMAIN m.negative |-> SimplifyArg(m.negative[i])])

SimplifyPattern(m) ==
  IF IsAlways(m) THEN m
  ELSE LET conn == SimplifyConn(m.conn)
           obj == SimplifyObject(m.obj)
           name == SimplifyText(m.name)
           args == SimplifyArgs(m.args)
           parts == {conn, obj, name, args}
       IN IF \E part \in parts : AlwaysFalse(part) THEN Always(FALSE)
          ELSE IF \A part \in parts : AlwaysTrue(part) THEN Always(TRUE)
               ELSE [m EXCEPT !.conn = conn, !.obj = obj, !.name = name, !.args = args]

SimplifyItem(m) == SimplifyList(m, SimplifyPattern)

Simplify(m) == SimplifyList(m, SimplifyItem)

------------------------------------------------------------------------------
(* Texts, as syntax trees: where a text splits at ! and , and what each      *)
(* piece turns out to be.                                                    *)

Empty == [of |-> "empty"]
Star == [of |-> "star"]

(* pos ! neg, where neg is empty without a !; each side has a piece.         *)
ListsOf(items) == [of : {"list"}, pos : Seq(items) \ {<<>>}, neg : Seq(items)]
ListsAnd(items) == items \cup ListsOf(items)

(* A word: the names that it accepts.                                        *)
Words == {Empty, Star} \cup [of : {"names"}, names : SUBSET STRING]

(* An id, where no generation stands for any; null is id 0.  As the value of *)
(* an argument it is written #5a, @5a or null: of 5 and 5a the code makes a  *)
(* number and a name.                                                        *)
Ids == [of : {"id"}, id : Nat, generations : SUBSET Nat]

Objects == Words \cup Ids
Values ==
  Objects \cup [of : {"int"}, int : Int]
          \cup [of : {"float"}, float : Int \X Nat]
          \cup [of : {"string"}, string : STRING]
Args == [of : {"arg"}, name : ListsAnd(Words), value : ListsAnd(Values)]

(* A list of arguments, either side of it possibly empty, or a lone !.       *)
Bang == [of |-> "bang"]
ArgsLists ==
  {Empty, Bang} \cup [of : {"args"}, pos : Seq(ListsAnd(Args)), neg : Seq(ListsAnd(Args))]

(* An object alone, which matches messages on it and with it, or a pattern.  *)
Patterns ==
  {Empty}
  \cup [of : {"naked"}, conn : ListsAnd(Words), obj : ListsAnd(Objects)]
  \cup [of : {"full"}, conn : ListsAnd(Words), obj : ListsAnd(Objects),
        name : ListsAnd(Words), args : ArgsLists]

------------------------------------------------------------------------------
(* Parsing *)

(* A list of what its pieces are parsed to.                                  *)
ListOf(positive, negative) ==
  IF negative = <<>> /\ Len(positive) = 1 THEN positive[1] ELSE MatcherList(positive, negative)

(* _parse_matcher_list, whose pieces Sub parses.                             *)
ParseList(t, Sub(_)) ==
  IF t.of = "list"
  THEN ListOf([i \in DOMAIN t.pos |-> Sub(t.pos[i])], [i \in DOMAIN t.neg |-> Sub(t.neg[i])])
  ELSE Sub(t)

(* _parse_text_matcher.                                                      *)
WordMatcher(t) == IF t.of = "names" THEN OneOf(t.names) ELSE Always(TRUE)

TextMatcher(t) == ParseList(t, WordMatcher)

(* _parse_obj_matcher.                                                       *)
OneObjMatcher(t) ==
  CASE t.of = "empty" -> Always(TRUE)
    [] t.of \in {"star", "names"} -> Wrap("type", WordMatcher(t))
    [] t.of = "id" ->
         Wrap("id", PairMatcher(OneOf({t.id}),
                                IF t.generations = {} THEN Always(TRUE) ELSE OneOf(t.generations)))

ObjMatcher(t) == ParseList(t, OneObjMatcher)

(* _parse_arg_value_matcher, which tries one kind of value after the other:  *)
(* * and nothing count as whole numbers, whatever is made of letters and     *)
(* digits as a label, and what is left, but for null, as an object.          *)
OneArgValueMatcher(t) ==
  CASE t.of \in {"empty", "star"} -> Wrap("int", Always(TRUE))
    [] t.of = "int" -> Wrap("int", OneOf({t.int}))
    [] t.of = "float" -> Wrap("float", OneOf({t.float}))
    [] t.of = "string" -> Wrap("string", OneOf({t.string}))
    [] t.of = "names" -> Wrap("label", WordMatcher(t))
    [] t.of = "id" -> Wrap("object", OneObjMatcher(t))

ArgValueMatcher(t) == ParseList(t, OneArgValueMatcher)

(* _parse_arg_matcher.                                                       *)
OneArgMatcher(t) == Wrap("arg", PairMatcher(TextMatcher(t.name), ArgValueMatcher(t.value)))

ArgMatcher(t) == ParseList(t, OneArgMatcher)

(* _parse_args_list.                                                         *)
ArgsMatcher(t) ==
  CASE t.of = "empty" -> Always(TRUE)
    [] t.of = "bang" -> Always(FALSE)
    [] t.of = "args" ->
         ArgsMatcherList([i \in DOMAIN t.pos |-> ArgMatcher(t.pos[i])],
                         [i \in DOMAIN t.neg |-> ArgMatcher(t.neg[i])])

(* Mutant: an object alone only matches the messages on it.                  *)
PatternOnSelf(t) ==
  LET conn == Wrap("conn", TextMatcher(t.conn))
      obj == ObjMatcher(t.obj)
  IN CASE t.of = "empty" -> Always(TRUE)
       [] t.of = "naked" -> MessagePattern(conn, obj, Always(TRUE), Always(TRUE))
       [] t.of = "full" -> MessagePattern(conn, obj, TextMatcher(t.name), ArgsMatcher(t.args))

(* _parse_message_pattern.                                                   *)
PatternMatcher(t) ==
  LET conn == Wrap("conn", TextMatcher(t.conn))
      obj == ObjMatcher(t.obj)
      objArg == Wrap("arg", PairMatcher(Always(TRUE), Wrap("object", obj)))
  IN CASE t.of = "empty" -> Always(TRUE)
       [] t.of = "naked" ->
            MatcherList(<<MessagePattern(conn, obj, Always(TRUE), Always(TRUE)),
                          MessagePattern(conn, Always(TRUE), Always(TRUE),
                                         ArgsMatcherList(<<objArg>>, <<>>))>>, <<>>)
       [] t.of = "full" -> MessagePattern(conn, obj, TextMatcher(t.name), ArgsMatcher(t.args))

Parse(t) == ParseList(t, PatternMatcher)

------------------------------------------------------------------------------
(* Joining *)

AsList(m) == IF m.is = "list" THEN m ELSE MatcherList(<<m>>, <<>>)

NotAnything(ms) == Selected(ms, {i \in DOMAIN ms : ~AlwaysTrue(ms[i])})

(* Mutant: exclusions of before are forgotten.                               *)
JoinForgetting(new, old) ==
  LET wanted == NotAnything(AsList(new).positive \o AsList(old).positive)
  IN IF IsAlways(old) \/ IsAlways(new) THEN new
     ELSE MatcherList(IF wanted = <<>> THEN <<Always(TRUE)>> ELSE wanted, AsList(new).negative)

Join(new, old) ==
  LET wanted == NotAnything(AsList(new).positive \o AsList(old).positive)
  IN IF IsAlways(old) \/ IsAlways(new) THEN new
     ELSE MatcherList(IF wanted = <<>> THEN <<Always(TRUE)>> ELSE wanted,
                      AsList(new).negative \o AsList(old).negative)
==============================================================================
