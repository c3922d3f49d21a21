-------------------------------- MODULE Filter --------------------------------
(* The filter command of frontends/tui/controller.py and the meaning that    *)
(* matchers.md gives to what the user types.  The breakpoint command does    *)
(* the same with the stop matcher.                                           *)
EXTENDS Matcher

CONSTANTS
  Texts,        \* syntax trees of matchers the user may type
  Messages,     \* messages to tell matchers apart
  MaxCommands   \* bound: filter commands in a session

VARIABLES
  display_matcher,
  asked          \* the texts the user gave, "invalid" for one that is none

filterVars == <<display_matcher, asked>>

(* Arguments: -f gives a first filter.  Without it everything is shown.      *)
FilterInit ==
  \/ display_matcher = Always(TRUE) /\ asked = <<>>
  \/ \E t \in Texts : display_matcher = Simplify(Parse(t)) /\ asked = <<t>>

(* Mutant: what is joined is not simplified.                                 *)
FilterUnsimplified(t) ==
  /\ Len(asked) < MaxCommands
  /\ display_matcher' = Join(Parse(t), display_matcher)
  /\ asked' = Append(asked, t)

(* filter_command with an argument that parses.                              *)
FilterCommand(t) ==
  /\ Len(asked) < MaxCommands
  /\ display_matcher' = Simplify(Join(Parse(t), display_matcher))
  /\ asked' = Append(asked, t)

(* One that does not: parse_and_join shows the error and returns the old     *)
(* matcher.                                                                  *)
FilterFails ==
  /\ Len(asked) < MaxCommands
  /\ UNCHANGED display_matcher
  /\ asked' = Append(asked, [of |-> "invalid"])

FilterNext == FilterFails \/ \E t \in Texts : FilterCommand(t)

FilterSpec == FilterInit /\ [][FilterNext]_filterVars

------------------------------------------------------------------------------
(* What a text means (matchers.md) *)

(* Any of the patterns of a list, and none of those after its !.             *)
MeansList(t, x, Sub(_, _)) ==
  IF t.of = "list"
  THEN /\ \E i \in DOMAIN t.pos : Sub(t.pos[i], x)
       /\ \A i \in DOMAIN t.neg : ~Sub(t.neg[i], x)
  ELSE Sub(t, x)

IsAny(t) == t.of \in {"empty", "star"}

MeansWord(t, s) == IsAny(t) \/ (t.of = "names" /\ s \in t.names)

MeansText(t, s) == MeansList(t, s, MeansWord)

MeansOneObject(t, o) ==
  \/ IsAny(t)
  \/ t.of = "names" /\ o.type # NoType /\ o.type \in t.names
  \/ t.of = "id" /\ o.id = t.id /\ (t.generations = {} \/ o.generation \in t.generations)

MeansObject(t, o) == MeansList(t, o, MeansOneObject)

MeansOneValue(t, a) ==
  \/ IsAny(t)
  \/ t.of = "int" /\ a.kind \in {"int", "float", "fd"} /\ a.value[1] = t.int /\ a.value[2] = 0
  \/ t.of = "int" /\ a.kind = "object" /\ a.obj.id = t.int
  \/ t.of = "float" /\ a.kind = "float" /\ a.value = t.float
  \/ t.of = "string" /\ a.kind = "string" /\ a.text = t.string
  \/ t.of = "names" /\ a.kind = "int" /\ \E label \in a.labels : label \in t.names
  \/ t.of \in {"names", "id"} /\ a.kind = "object" /\ MeansOneObject(t, a.obj)
  \/ t.of \in {"names", "id"} /\ a.kind = "null" /\ MeansOneObject(t, MockObject(a.type))

MeansValue(t, a) == MeansList(t, a, MeansOneValue)

MeansOneArg(t, a) == MeansText(t.name, a.name) /\ MeansValue(t.value, a)

MeansArg(t, a) == MeansList(t, a, MeansOneArg)

(* "All items in an argument list must match at least one argument."         *)
MeansArgs(t, args) ==
  \/ t.of = "empty"
  \/ /\ t.of = "args"
     /\ \A i \in DOMAIN t.pos : \E j \in DOMAIN args : MeansArg(t.pos[i], args[j])
     /\ \A i \in DOMAIN t.neg : \A j \in DOMAIN args : ~MeansArg(t.neg[i], args[j])

(* Its .new and .destroyed messages of an object come with a real message.   *)
Lifecycle(m) ==
  {<<"new", m.args[i].obj>> : i \in {j \in DOMAIN m.args : m.args[j].kind = "object" /\ m.args[j].new}}
  \cup {<<"destroyed", m.destroyed[i]>> : i \in DOMAIN m.destroyed}

MeansFull(t, m) ==
  \/ MeansObject(t.obj, m.obj) /\ MeansText(t.name, m.name) /\ MeansArgs(t.args, m.args)
  \/ \E l \in Lifecycle(m) :
       MeansText(t.name, l[1]) /\ MeansArgs(t.args, <<>>) /\ MeansObject(t.obj, l[2])

MeansNaked(t, m) ==
  \/ MeansObject(t.obj, m.obj)
  \/ \E i \in DOMAIN m.args :
       \/ m.args[i].kind = "object" /\ MeansObject(t.obj, m.args[i].obj)
       \/ m.args[i].kind = "null" /\ MeansObject(t.obj, MockObject(m.args[i].type))
  \/ \E i \in DOMAIN m.destroyed : MeansObject(t.obj, m.destroyed[i])

Means(t, m) ==
  \/ t.of = "empty"
  \/ /\ t.of # "empty"
     /\ MeansText(t.conn, m.conn)
     /\ IF t.of = "naked" THEN MeansNaked(t, m) ELSE MeansFull(t, m)

------------------------------------------------------------------------------
(* Texts that ask for everything, or for nothing, whatever the message.      *)

AnyIn(t) == IF t.of = "list" THEN t.neg = <<>> /\ \E i \in DOMAIN t.pos : IsAny(t.pos[i])
            ELSE IsAny(t)
NoneIn(t) == t.of = "list" /\ \E i \in DOMAIN t.neg : IsAny(t.neg[i])

AnyArg(t) == AnyIn(t.name) /\ AnyIn(t.value)
NoArg(t) == NoneIn(t.name) /\ NoneIn(t.value)

AnyArgIn(t) ==
  IF t.of = "list"
  THEN (\E i \in DOMAIN t.pos : AnyArg(t.pos[i])) /\ \A i \in DOMAIN t.neg : NoArg(t.neg[i])
  ELSE AnyArg(t)
NoArgIn(t) ==
  IF t.of = "list"
  THEN (\E i \in DOMAIN t.neg : AnyArg(t.neg[i])) \/ \A i \in DOMAIN t.pos : NoArg(t.pos[i])
  ELSE NoArg(t)

AnyArgs(t) ==
  \/ t.of = "empty"
  \/ /\ t.of = "args"
     /\ \A i \in DOMAIN t.pos : AnyArgIn(t.pos[i])
     /\ \A i \in DOMAIN t.neg : NoArgIn(t.neg[i])
NoArgs(t) ==
  \/ t.of = "bang"
  \/ t.of = "args" /\ \E i \in DOMAIN t.pos : NoArgIn(t.pos[i])

Everything(t) ==
  \/ t.of = "empty"
  \/ t.of = "naked" /\ AnyIn(t.conn) /\ AnyIn(t.obj)
  \/ t.of = "full" /\ AnyIn(t.conn) /\ AnyIn(t.obj) /\ AnyIn(t.name) /\ AnyArgs(t.args)

Nothing(t) ==
  \/ t.of = "naked" /\ NoneIn(t.conn)
  \/ t.of = "full" /\ (NoneIn(t.conn) \/ NoneIn(t.obj) \/ NoneIn(t.name) \/ NoArgs(t.args))

(* What parse accepts, but for a pattern left empty beside others, of which  *)
(* matchers.md does not say what it means; and for a list of arguments that  *)
(* comes down to stars, where the code does not do what matchers.md says:    *)
(* simplify turns .( * ) into one that no argument is needed for, and        *)
(* .( ! * ) into one that never matches.                                     *)
Definite(p) ==
  p.of = "full" /\ p.args.of = "args" =>
    /\ p.args.pos = <<>> \/ ~AnyArgs(p.args)
    /\ \A i \in DOMAIN p.args.neg : ~AnyArgIn(p.args.neg[i])

ASSUME TextsAssumption ==
  \A t \in Texts :
    /\ t \in ListsOf(Patterns)
    /\ t.pos # <<Empty>> \/ t.neg # <<>>
    /\ \A i, j \in DOMAIN t.pos : t.pos[i] = Empty => t.pos[j] = Empty
    /\ \A i \in DOMAIN t.pos : Definite(t.pos[i])
    /\ \A i \in DOMAIN t.neg : Definite(t.neg[i])

ASSUME MaxCommandsAssumption == MaxCommands \in Nat

------------------------------------------------------------------------------
(* What a sequence of filter commands means: the patterns asked for add up,  *)
(* and so do the exclusions; a filter that shows everything or nothing is    *)
(* replaced.                                                                 *)

NoFilter == [only |-> {}, but |-> {}]

Trivial(f) ==
  \/ f = NoFilter
  \/ \E t \in f.but : Everything(t)
  \/ f.only # {} /\ \A t \in f.only : Nothing(t)

Extended(f, t) ==
  LET old == IF Trivial(f) THEN NoFilter ELSE f
      pos == {t.pos[i] : i \in DOMAIN t.pos}
      neg == {t.neg[i] : i \in DOMAIN t.neg}
      only == old.only \cup {p \in pos : p.of # "empty"}
  IN [only |-> IF \E p \in only : Everything(p) THEN {} ELSE only,
      but |-> old.but \cup {n \in neg : ~Nothing(n)}]

Asked[n \in 0..Len(asked)] ==
  IF n = 0 THEN NoFilter
  ELSE IF asked[n].of = "invalid" THEN Asked[n-1] ELSE Extended(Asked[n-1], asked[n])

Wanted(m) ==
  LET f == Asked[Len(asked)]
  IN /\ f.only = {} \/ \E p \in f.only : Means(p, m)
     /\ \A n \in f.but : ~Means(n, m)

------------------------------------------------------------------------------
(* Properties *)

(* Whatever the user typed, one command after the other, the messages shown  *)
(* are those that were asked for: parsing, simplifying and joining together  *)
(* keep the meaning.                                                         *)
ShowsWhatWasAsked == \A m \in Messages : Matches(display_matcher, m) <=> Wanted(m)

(* matchers.md: "The special matchers * and ! match anything and nothing":   *)
(* after the filter * everything is shown.                                   *)
StarShowsEverything ==
  asked # <<>> /\ asked[Len(asked)].of = "list" /\ asked[Len(asked)].neg = <<>>
    /\ (\E i \in DOMAIN asked[Len(asked)].pos : Everything(asked[Len(asked)].pos[i]))
  => \A m \in Messages : Matches(display_matcher, m)
==============================================================================
