----------------------------- MODULE MC_Producer -----------------------------
(* Model values and symmetry for checking Producer with TLC.               *)
EXTENDS Producer, TLC

CONSTANTS k1, k2

\* The consumers run the same program.
ConsumerSymmetry == Permutations(Consumers)
=============================================================================
