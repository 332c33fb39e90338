------------------------------- MODULE MCServer -------------------------------
(* Instances of Server for TLC: one client that talks, and one that asks once. *)
EXTENDS Server

CONSTANTS c1, c2
MCSends ==
  [c \in {c1, c2} |-> IF c = c1 THEN Kind ELSE {"fast", "slow", "split"}]
MCMaxMsgs == [c \in {c1, c2} |-> IF c = c1 THEN 3 ELSE 1]
=============================================================================
