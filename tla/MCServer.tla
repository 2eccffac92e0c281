------------------------------ MODULE MCServer ------------------------------
(***************************************************************************)
(* Two reads, a manual run and a loop share a pool of one connection.      *)
(***************************************************************************)
EXTENDS Server

CONSTANTS r1, r2, s, w

TwoReads == {r1, r2}
OneTrigger == {s}
OneLoop == {w}
=============================================================================
