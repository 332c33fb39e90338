----------------------------- MODULE MCCollector -----------------------------
(* Instances of Collector for TLC. *)
EXTENDS Collector

CONSTANTS s1, s2, d1, d2
=============================================================================
