--------------------------- MODULE MC_SemHandshake ---------------------------
(* Model values for checking SemHandshake with TLC.                        *)
EXTENDS SemHandshake, TLC

CONSTANTS p1, p2, c1, c2
=============================================================================
