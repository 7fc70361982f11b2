------------------------------ MODULE MC_Primes ------------------------------
(* primes.c with its own constants: cb_init(&buff, 5, sizeof(int)) on a   *)
(* 4-byte int, and the loop cut at a bound far below LONG_MAX.             *)
EXTENDS Primes

MC_CAPACITY == 5
MC_SIZE == 4
=============================================================================
