------------------------------- MODULE SeqNum -------------------------------
(***************************************************************************)
(* The sequence-number service of src/pp_1: server.c hands every request  *)
(* the current seq_num through the FIFO of the pid named in the request    *)
(* and advances seq_num by the request's seq_len; client.c creates its     *)
(* FIFO, writes one struct request into SERVER_FIFO, opens its own FIFO    *)
(* for reading and reads one struct response.                              *)
(*                                                                         *)
(* client.c never assigns its local `struct request req`: the pid and      *)
(* seq_len it sends are whatever the stack held.  That read of an          *)
(* uninitialized value is a nondeterministic choice: pid among the client  *)
(* pids and Junk (a pid with no FIFO), seq_len in SeqLens.                 *)
(*                                                                         *)
(* FIFO rendezvous: the server's blocking open(O_WRONLY) returns once the  *)
(* client is in (or past) its blocking open(O_RDONLY), and both return     *)
(* together; an open of a path that does not exist fails with ENOENT.      *)
(***************************************************************************)
EXTENDS Integers, Sequences

CONSTANTS
    Clients,   \* pids of the client processes (model values)
    Junk,      \* a pid no FIFO is named after
    SeqLens,   \* values the uninitialized seq_len can hold
    SrvCap     \* struct requests the SERVER_FIFO pipe buffer holds

VARIABLES
    srvFifo,   \* requests queued in SERVER_FIFO
    srv,       \* server: pc, the request read, seq_num
    exists,    \* exists[c]: /tmp/seqnum_client.<c> is on disk
    pipe,      \* pipe[c]: seq_num values written into the FIFO of c
    cpc,       \* cpc[c]: where client c is in main()
    got        \* got[c]: <<the seq_num client c read>>, <<>> before

vars == <<srvFifo, srv, exists, pipe, cpc, got>>

Pids == Clients \cup {Junk}
Request == [pid : Pids, seq_len : SeqLens]

\* /tmp/seqnum_client.<p> is on disk (no FIFO is ever named after Junk).
FifoExists(p) == p \in Clients /\ exists[p]

Init ==
    /\ srvFifo = <<>>
    /\ srv = [pc |-> "recv", req |-> [pid |-> Junk, seq_len |-> 0], seq |-> 0]
    /\ exists = [c \in Clients |-> FALSE]
    /\ pipe = [c \in Clients |-> <<>>]
    /\ cpc = [c \in Clients |-> "idle"]
    /\ got = [c \in Clients |-> <<>>]

TypeOK ==
    /\ srvFifo \in Seq(Request) /\ Len(srvFifo) <= SrvCap
    /\ srv.pc \in {"recv", "open"} /\ srv.req \in Request /\ srv.seq \in Int
    /\ exists \in [Clients -> BOOLEAN]
    /\ DOMAIN pipe = Clients /\ DOMAIN got = Clients
    /\ cpc \in [Clients -> {"idle", "write", "open_r", "read", "done", "killed"}]
    /\ \A c \in Clients : Len(got[c]) <= 1

-----------------------------------------------------------------------------
(* The server loop, server.c main().                                       *)

\* read() of one whole request from SERVER_FIFO.
ServerRead ==
    /\ srv.pc = "recv"
    /\ srvFifo # <<>>
    /\ srv' = [srv EXCEPT !.pc = "open", !.req = Head(srvFifo)]
    /\ srvFifo' = Tail(srvFifo)
    /\ UNCHANGED <<exists, pipe, cpc, got>>

\* open() of the FIFO named by req.pid fails: give up on the request,
\* seq_num is not advanced.
ServerOpenFails ==
    /\ srv.pc = "open"
    /\ ~FifoExists(srv.req.pid)
    /\ srv' = [srv EXCEPT !.pc = "recv"]
    /\ UNCHANGED <<srvFifo, exists, pipe, cpc, got>>

\* open() returns once the client has its FIFO open for reading; write()
\* of seq_num, close(), and seq_num += seq_len.
ServerRespond ==
    LET t == srv.req.pid
    IN /\ srv.pc = "open"
       /\ FifoExists(t) /\ cpc[t] \in {"open_r", "read"}
       /\ pipe' = [pipe EXCEPT ![t] = Append(@, srv.seq)]
       /\ cpc' = [cpc EXCEPT ![t] = "read"]
       /\ srv' = [srv EXCEPT !.pc = "recv", !.seq = @ + srv.req.seq_len]
       /\ UNCHANGED <<srvFifo, exists, got>>

ServerStep == ServerRead \/ ServerOpenFails \/ ServerRespond

-----------------------------------------------------------------------------
(* The clients, client.c main().                                           *)

\* mkfifo() of /tmp/seqnum_client.<pid> and atexit(remove_fifo).
ClientStart(c) ==
    /\ cpc[c] = "idle"
    /\ exists' = [exists EXCEPT ![c] = TRUE]
    /\ cpc' = [cpc EXCEPT ![c] = "write"]
    /\ UNCHANGED <<srvFifo, srv, pipe, got>>

\* open() of SERVER_FIFO (the server holds it open for reading) and one
\* write() of the uninitialized request; it blocks while the pipe is full.
ClientWrite(c) ==
    /\ cpc[c] = "write"
    /\ Len(srvFifo) < SrvCap
    /\ \E r \in Request : srvFifo' = Append(srvFifo, r)
    /\ cpc' = [cpc EXCEPT ![c] = "open_r"]
    /\ UNCHANGED <<srv, exists, pipe, got>>

\* read() of one response; then exit(), whose remove_fifo unlinks the FIFO.
ClientRead(c) ==
    /\ cpc[c] = "read"
    /\ pipe[c] # <<>>
    /\ got' = [got EXCEPT ![c] = <<Head(pipe[c])>>]
    /\ cpc' = [cpc EXCEPT ![c] = "done"]
    /\ exists' = [exists EXCEPT ![c] = FALSE]
    /\ pipe' = [pipe EXCEPT ![c] = <<>>]
    /\ UNCHANGED <<srvFifo, srv>>

\* Ctrl-C (SIGINT) at the terminal: client.c installs no handler, so the
\* default action ends the process without running the atexit handler;
\* the FIFO stays on disk with no reader.
ClientKilled(c) ==
    /\ cpc[c] \in {"write", "open_r", "read"}
    /\ cpc' = [cpc EXCEPT ![c] = "killed"]
    /\ pipe' = [pipe EXCEPT ![c] = <<>>]
    /\ UNCHANGED <<srvFifo, srv, exists, got>>

Next ==
    \/ ServerStep
    \/ \E c \in Clients :
          ClientStart(c) \/ ClientWrite(c) \/ ClientRead(c) \/ ClientKilled(c)

Spec == Init /\ [][Next]_vars

\* The server runs whenever a system call of it can return; a started
\* client runs to its end without waiting for anyone but the server.
FairSpec ==
    /\ Spec /\ WF_vars(ServerStep)
    /\ \A c \in Clients : WF_vars(ClientWrite(c) \/ ClientRead(c))

-----------------------------------------------------------------------------
(* Properties.                                                             *)

\* The server never stays stuck on one request: after reading it, it gets
\* back to read() ("If the server encounters an error in opening the
\* client FIFO, it abandons that client's request and moves on").  It is
\* about the blocking open() of server.c:73, which waits for a reader of
\* the FIFO the request names.
ServerProgress == srv.pc = "open" ~> srv.pc = "recv"

=============================================================================
