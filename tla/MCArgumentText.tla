---------------------------- MODULE MCArgumentText -----------------------------
(* Signatures such as 2?as of up to three characters.  Strings hold any one   *)
(* symbol, or two of which the first may change what the second does.         *)
EXTENDS ArgumentText

MCMarks == {"?"}

Symbols == {"quote", "backslash", "separator", "letter"}

MCTexts == {<<s>> : s \in Symbols} \cup {<<"backslash", s>> : s \in Symbols}
           \cup {<<"quote", "separator">>, <<"separator", "backslash">>}
==============================================================================
