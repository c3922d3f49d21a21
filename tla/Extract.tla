-------------------------------- MODULE Extract --------------------------------
(* extract_message of backends/gdb_plugin/extract.py: one pass over the      *)
(* signature of a message inside GDB, which takes each argument out of the   *)
(* array of unions that libwayland has made for the call.                    *)
(*                                                                           *)
(* A character of the signature comes with what the closure holds for it:    *)
(* the number of elements of an array, the text of a string, whether a       *)
(* pointer is null.  An argument taken out is what it was read as and the    *)
(* slot it was read from.  A slot read as what it does not hold gives        *)
(* anything, an array of any size among it, or makes GDB raise.              *)
EXTENDS Naturals, Sequences, Selection

CONSTANTS
  Marks,         \* characters that are no type: version numbers, ?
  Texts,         \* what strings may hold
  MaxLength,     \* bound: characters of a signature
  MaxElements    \* bound: elements of an array

ASSUME ExtractAssumption ==
  MaxLength \in Nat /\ MaxElements \in Nat /\ Texts \subseteq Seq(STRING)

TypeCodes == {"i", "u", "f", "s", "o", "n", "a", "h"}

Char ==
  {char \in [code : TypeCodes \cup Marks, elements : 0..MaxElements,
             text : Texts \cup {<<>>}, null : BOOLEAN] :
     /\ char.code # "a" => char.elements = 0
     /\ char.code # "s" \/ char.null => char.text = <<>>
     /\ char.null => char.code \in {"s", "o"}}

VARIABLES
  signature,
  c,        \* characters dealt with
  i,        \* the slot to read next, from 0
  args,
  failed

extractVars == <<signature, c, i, args, failed>>

IsType(char) == char.code \in TypeCodes

(* The unions of the closure, in the order of the arguments.                 *)
Slots == Selected(signature, {k \in DOMAIN signature : IsType(signature[k])})

ExtractInit ==
  /\ \E n \in 0..MaxLength : signature \in [1..n -> Char]
  /\ c = 0 /\ i = 0 /\ args = <<>> /\ failed = FALSE

Running(char) == ~failed /\ c < Len(signature) /\ char = signature[c + 1]

Holds(code) == i < Len(Slots) /\ Slots[i + 1].code = code

(* Mutant: a mark takes a slot as well.                                      *)
SkipMarkAndSlot(char) ==
  /\ Running(char) /\ ~IsType(char)
  /\ c' = c + 1 /\ i' = i + 1
  /\ UNCHANGED <<signature, args, failed>>

SkipMark(char) ==
  /\ Running(char) /\ ~IsType(char)
  /\ c' = c + 1
  /\ UNCHANGED <<signature, i, args, failed>>

Take(code) == args' = Append(args, [code |-> code, slot |-> i])

ReadPlain(char) ==
  /\ Running(char) /\ IsType(char) /\ char.code # "a"
  /\ Take(char.code)
  /\ c' = c + 1 /\ i' = i + 1
  /\ UNCHANGED <<signature, failed>>

(* The loop over the elements of an array has i for its own variable too.    *)
ReadArray(char) ==
  /\ Running(char) /\ char.code = "a"
  /\ \E size \in IF Holds("a") THEN {Slots[i + 1].elements} ELSE 0..MaxElements :
       i' = IF size = 0 THEN i + 1 ELSE (size - 1) + 1
  /\ Take("a")
  /\ c' = c + 1
  /\ UNCHANGED <<signature, failed>>

ReadFails(char) ==
  /\ Running(char) /\ IsType(char) /\ ~Holds(char.code)
  /\ failed' = TRUE
  /\ UNCHANGED <<signature, c, i, args>>

ExtractNext ==
  \E char \in Char : SkipMark(char) \/ ReadPlain(char) \/ ReadArray(char) \/ ReadFails(char)

------------------------------------------------------------------------------
(* Properties *)

(* No array before the k-th argument has changed the count.                  *)
Harmless(k) == \A j \in 1..k-1 : Slots[j].code = "a" => Slots[j].elements \in {0, j}

(* As long as no array before it changed the count, an argument is read from *)
(* its own slot, with marks anywhere: only an array that is neither empty    *)
(* nor has as many elements as its place says puts later arguments wrong.    *)
RightUntilArray ==
  /\ \A k \in DOMAIN args : Harmless(k) => args[k] = [code |-> Slots[k].code, slot |-> k - 1]
  /\ failed => ~Harmless(Len(args) + 1)

(* Violated.  "Pull out the right union member at the right index".          *)
RightIndex == \A k \in DOMAIN args : args[k].slot = k - 1
==============================================================================
