------------------------------- MODULE LetterId -------------------------------
(* core/letter_id_generator.py: names made of letters.  Connections are      *)
(* named A, B, ..., Z, AA, AB and so on as they are opened; the generations  *)
(* of an object id are written the same way in lower case, and the user      *)
(* types them in matchers.                                                   *)
(*                                                                           *)
(* A letter is its place in the alphabet, from 0; which case it is written   *)
(* in, and that reading ignores it, is left out.                             *)
EXTENDS Integers, Sequences

CONSTANT Letters   \* how many there are; 26 in the code

ASSUME LetterAssumption == Letters \in Nat \ {0, 1}

(* Mutant: the usual digits, where A would lead nothing.                     *)
DigitsInstead(value) ==
  LET digits[v \in Nat] ==
        IF v < Letters THEN <<v>> ELSE Append(digits[v \div Letters], v % Letters)
  IN digits[value]

number_to_letter_id(value) ==
  LET letters[v \in 0..value+1] ==
        IF v = 0 THEN <<>> ELSE Append(letters[(v - 1) \div Letters], (v - 1) % Letters)
  IN letters[value + 1]

(* Mutant: the digits are read as the usual ones.                            *)
ReadDigits(text) ==
  LET read[k \in 0..Len(text)] == IF k = 0 THEN 0 ELSE read[k - 1] * Letters + text[k]
  IN read[Len(text)]

letter_id_to_number(text) ==
  LET read[k \in 0..Len(text)] == IF k = 0 THEN -1 ELSE (read[k - 1] + 1) * Letters + text[k]
  IN read[Len(text)]

------------------------------------------------------------------------------
(* What the conversions should do *)

ReadsBack(index) == letter_id_to_number(number_to_letter_id(index)) = index

(* Counting with letters: the last that is not Z goes up, the Zs after it go *)
(* back to A, and one more A is needed when all are Z.                       *)
Successor(text) ==
  LET last == Letters - 1
      up == {k \in 1..Len(text) : text[k] < last /\ \A j \in k+1..Len(text) : text[j] = last}
  IN IF up = {} THEN [k \in 1..Len(text)+1 |-> 0]
     ELSE LET k == CHOOSE k \in up : TRUE
          IN [j \in 1..Len(text) |-> IF j < k THEN text[j] ELSE IF j = k THEN text[j] + 1 ELSE 0]
==============================================================================
