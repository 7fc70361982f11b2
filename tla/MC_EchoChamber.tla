---------------------------- MODULE MC_EchoChamber ----------------------------
(* Model values for checking EchoChamber with TLC.                         *)
EXTENDS EchoChamber

CONSTANTS la, lb
=============================================================================
