----------------------------- MODULE MCGdbPlugin -----------------------------
(* Two addresses; the content of a message is the instance that sent it.     *)
EXTENDS GdbPlugin, TLC

CONSTANTS x, y

MCConnIds == {x, y}
MCPayloads == 1..MaxInstances
Symmetry == Permutations(MCConnIds)
==============================================================================
