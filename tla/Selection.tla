------------------------------ MODULE Selection -------------------------------
(* The elements of a sequence at some of its places, in their order: what     *)
(* SelectSeq of the standard module gives for the places of the elements that *)
(* pass a test, as a recursive function that can be reasoned about.           *)
EXTENDS Naturals, Sequences

SelectedUpTo(s, places) ==
  LET upTo[n \in 0..Len(s)] ==
        IF n = 0 THEN <<>>
        ELSE IF n \in places THEN Append(upTo[n - 1], s[n]) ELSE upTo[n - 1]
  IN upTo

Selected(s, places) == SelectedUpTo(s, places)[Len(s)]
==============================================================================
