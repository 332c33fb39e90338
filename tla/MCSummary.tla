------------------------------ MODULE MCSummary ------------------------------
(* Instances of Summary for TLC. *)
EXTENDS Summary

CONSTANTS o1, o2, s1
=============================================================================
