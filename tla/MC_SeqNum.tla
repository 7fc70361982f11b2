------------------------------ MODULE MC_SeqNum ------------------------------
(* Model values and symmetry for checking SeqNum with TLC.                 *)
EXTENDS SeqNum, TLC

CONSTANTS s1, s2, s3

\* The client pids are interchangeable; Junk is not one of them.
PidSymmetry == Permutations(Clients)
=============================================================================
