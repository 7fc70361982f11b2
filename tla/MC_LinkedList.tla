--------------------------- MODULE MC_LinkedList ---------------------------
(* Model-checking instance of LinkedList: addresses and pids are model    *)
(* values.                                                                 *)
EXTENDS LinkedList, TLC

CONSTANTS n1, n2, n3, v1, v2
=============================================================================
