------------------------- MODULE MCConnectionManager -------------------------
(* Two ids that are opened, closed and reused in any order, and an alphabet  *)
(* of two letters, so that the third connection already needs two of them.   *)
EXTENDS ConnectionNames, TLC

CONSTANTS x, y, p

MCConnIds == {x, y}
MCPayloads == {p}
Symmetry == Permutations(MCConnIds)
==============================================================================
