----------------------------- MODULE MCLogParser -----------------------------
(* A short log of two connections.                                           *)
EXTENDS LogParser

CONSTANTS x, y, p, q

MCConnIds == {x, y}
MCPayloads == {p, q}
==============================================================================
