----------------------------- MODULE ArgumentText ------------------------------
(* The arguments of one message on both ways: taken out of a closure by       *)
(* extract.py (Extract), and read by parse.py from the text that libwayland   *)
(* prints for the same closure.  The two programs share nothing, so that one  *)
(* is run after the other.                                                    *)
(*                                                                            *)
(* The text is a sequence of symbols: a quote, a backslash, the separator     *)
(* ", ", and whatever else libwayland prints for an argument or a string      *)
(* holds.                                                                     *)
EXTENDS Extract, FiniteSets

VARIABLES
  text,    \* message_args_str
  pos,     \* i of argument_list_strs, from 0
  start,
  quoted,  \* in end_of_str
  pieces,  \* the result
  done

textVars == <<text, pos, start, quoted, pieces, done>>

argumentVars == <<extractVars, textVars>>

(* What libwayland prints; a string as it is.                                 *)
Printed(slot) ==
  CASE slot.null -> <<"nil">>
    [] slot.code \in {"i", "u"} -> <<"int">>
    [] slot.code = "f" -> <<"float">>
    [] slot.code = "s" /\ ~slot.null -> <<"quote">> \o slot.text \o <<"quote">>
    [] slot.code = "o" /\ ~slot.null -> <<"object">>
    [] slot.code = "n" -> <<"new id">>
    [] slot.code = "a" -> <<"array">>
    [] slot.code = "h" -> <<"fd">>

(* The text of the first n arguments.                                         *)
PrintedUpTo[n \in 0..Len(Slots)] ==
  IF n = 0 THEN <<>>
  ELSE PrintedUpTo[n - 1] \o (IF n = 1 THEN <<>> ELSE <<"separator">>) \o Printed(Slots[n])

ArgumentInit ==
  /\ ExtractInit
  /\ text = PrintedUpTo[Len(Slots)]
  /\ pos = 0 /\ start = 0 /\ quoted = FALSE /\ pieces = <<>> /\ done = FALSE

------------------------------------------------------------------------------
(* argument_list_strs and end_of_str *)

ExtractDone == failed \/ c = Len(signature)

Scanning(symbol) ==
  ExtractDone /\ ~done /\ pos < Len(text) /\ text[pos + 1] = symbol

Piece == SubSeq(text, start + 1, pos)

(* Mutant: a separator in a string is one as well.                            *)
SeparatorAnywhere ==
  /\ Scanning("separator")
  /\ pieces' = Append(pieces, Piece)
  /\ start' = pos + 1 /\ pos' = pos + 1
  /\ UNCHANGED <<extractVars, text, quoted, done>>

Separator ==
  /\ Scanning("separator") /\ ~quoted
  /\ pieces' = Append(pieces, Piece)
  /\ start' = pos + 1 /\ pos' = pos + 1
  /\ UNCHANGED <<extractVars, text, quoted, done>>

Quote ==
  /\ Scanning("quote")
  /\ quoted' = ~quoted
  /\ pos' = pos + 1
  /\ UNCHANGED <<extractVars, text, start, pieces, done>>

BackslashInString ==
  /\ Scanning("backslash") /\ quoted
  /\ pos' = pos + 2
  /\ UNCHANGED <<extractVars, text, start, quoted, pieces, done>>

OtherSymbol ==
  /\ ExtractDone /\ ~done /\ pos < Len(text)
  /\ text[pos + 1] # "quote"
  /\ text[pos + 1] \in {"separator", "backslash"} => ((text[pos + 1] = "separator") <=> quoted)
  /\ pos' = pos + 1
  /\ UNCHANGED <<extractVars, text, start, quoted, pieces, done>>

EndOfText ==
  /\ ExtractDone /\ ~done /\ pos >= Len(text)
  /\ pieces' = IF pos # start THEN Append(pieces, SubSeq(text, start + 1, Len(text))) ELSE pieces
  /\ done' = TRUE
  /\ UNCHANGED <<extractVars, text, pos, start, quoted>>

ArgumentNext ==
  \/ ExtractNext /\ UNCHANGED textVars
  \/ Separator \/ Quote \/ BackslashInString \/ OtherSymbol \/ EndOfText

ArgumentSpec == ArgumentInit /\ [][ArgumentNext]_argumentVars

------------------------------------------------------------------------------
(* argument: the first alternative of the pattern that matches.  Of an empty  *)
(* string the group of the pattern is empty, which is taken for no match.     *)
Argument(piece) ==
  LET last == Len(piece)
  IN CASE last = 1 /\ piece[1] \in {"int", "float", "object", "new id", "array", "fd", "nil"} ->
            [type |-> piece[1], text |-> <<>>]
       [] last > 2 /\ piece[1] = "quote" /\ piece[last] = "quote" ->
            [type |-> "string", text |-> SubSeq(piece, 2, last - 1)]
       [] OTHER -> [type |-> "unknown", text |-> piece]

------------------------------------------------------------------------------
(* Properties *)

(* A string that neither holds a quote nor ends in a backslash that is not    *)
(* itself behind one.                                                         *)
IsPlain(slot) ==
  LET t == slot.text
      trailing == {j \in DOMAIN t : \A m \in j..Len(t) : t[m] = "backslash"}
  IN (\A j \in DOMAIN t : t[j] # "quote") /\ Cardinality(trailing) % 2 = 0

TakenOut(k) ==
  LET slot == Slots[args[k].slot + 1]
      type == CASE args[k].code \in {"i", "u"} -> "int" [] args[k].code = "f" -> "float"
                [] args[k].code = "s" -> "string" [] args[k].code = "n" -> "new id"
                [] args[k].code = "o" -> IF slot.null THEN "nil" ELSE "object"
                [] args[k].code = "a" -> "array" [] args[k].code = "h" -> "fd"
  IN [type |-> type, text |-> slot.text]

(* parse.argument_list against extract_message: as long as no string is odd   *)
(* and no array has put extract_message wrong, both find the same arguments   *)
(* in the same places, whatever separators and backslashes strings hold; only *)
(* a null string is nothing in the text and a string in GDB, and an empty one *)
(* is unknown in the text.                                                    *)
SameArguments ==
  done /\ ~failed =>
    \A k \in DOMAIN Slots :
      (\A j \in 1..k : IsPlain(Slots[j])) /\ Harmless(k) =>
        /\ k \in DOMAIN pieces
        /\ Argument(pieces[k]).type =
             CASE Slots[k].code = "s" /\ Slots[k].null -> "nil"
               [] Slots[k].code = "s" /\ ~Slots[k].null /\ Slots[k].text = <<>> -> "unknown"
               [] OTHER -> TakenOut(k).type
        /\ Argument(pieces[k]).type = "string" => Argument(pieces[k]).text = TakenOut(k).text
==============================================================================
