---------------------------- MODULE MC_ChatRoom ----------------------------
(* Model-checking instance of ChatRoom: client pids are model values.     *)
EXTENDS ChatRoom, TLC

CONSTANTS c1, c2, c3

\* Client pids are interchangeable: nothing in the code orders them.
ClientSymmetry == Permutations(Clients)

\* Bound of the three-client run: requests written into SERVER_FIFO by all
\* clients together.  Seven allow three connects, a heartbeat that an
\* interrupt cuts short (the client exits still listed) and a heartbeat,
\* menu choice and global message of another member.
MaxRequests == 6
RequestBound == SumFunction(nsent) <= MaxRequests
=============================================================================
