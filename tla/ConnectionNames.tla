--------------------------- MODULE ConnectionNames ---------------------------
(* The names of the connections of a session, which the user types to choose *)
(* one.                                                                      *)
EXTENDS ConnectionManager, LetterId

(* open_connection takes the next name of its generator, which counts the    *)
(* calls of next from 0.                                                     *)
Name(c) == number_to_letter_id(c - 1)

(* A name stands for one connection, as reading it gives the connection's    *)
(* number: no two share a name, however many there are and whichever were    *)
(* closed.                                                                   *)
NamesReadBack == \A c \in Connections : letter_id_to_number(Name(c)) = c - 1
==============================================================================
