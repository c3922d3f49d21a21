----------------------------- MODULE MCController -----------------------------
(* Two programs, messages of two contents, a short and a long time apart.    *)
EXTENDS Controller, TLC

CONSTANTS x, y

MCConnIds == {x, y}
Symmetry == Permutations(MCConnIds)
MCContents == {"get", "put"}
MCTimes == {0, 1, 3}
MCPayloads ==
  { [content |-> "get", timestamp |-> 0, app_id |-> ""],
    [content |-> "get", timestamp |-> 1, app_id |-> ""],
    [content |-> "put", timestamp |-> 3, app_id |-> "app"] }
MCMatchers == { {"get"}, {"get", "put"} }
MCNames == <<"a", "b">>
MCCounts == {-1, 0, 2}

(* Up to three messages of one connection; of two one each, three seconds   *)
(* apart.                                                                    *)
FewMessages ==
  \/ Len(connection_list) <= 1
  \/ \A c \in Connections :
       LET stored == connection_list[c].stored
       IN Len(stored) <= 1 /\ \A n \in DOMAIN stored : stored[n].timestamp # 1

(* Messages are read in the order in which they were sent.                   *)
TimePasses ==
  \A i, j \in DOMAIN all_messages : i < j => Time(all_messages[i]) <= Time(all_messages[j])

(* What stops the program has no bearing on what is shown.                   *)
OneStop == stop_matcher = {"get"}

Bounded == FewMessages /\ TimePasses /\ OneStop
==============================================================================
