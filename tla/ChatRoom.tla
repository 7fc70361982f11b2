------------------------------ MODULE ChatRoom ------------------------------
(***************************************************************************)
(* The FIFO chat room: the server loop of src/pp_1_server/server.c, the    *)
(* clients of src/pp_1_client/client.c and the named pipes between them.   *)
(*                                                                         *)
(* Every client writes its requests into the well-known SERVER_FIFO; the   *)
(* server reads them one at a time and writes every answer (OK/FAIL) and   *)
(* every chat message into the FIFO of a client, named after its pid.      *)
(* A client reads "its" answer as whatever record comes first in its FIFO. *)
(*                                                                         *)
(* Pipe semantics kept from Linux: open(O_WRONLY) on a FIFO blocks until a *)
(* reader exists and fails when the path is gone; a blocking open(O_RDONLY)*)
(* returns only once a writer opens; a write with no reader fails (EPIPE,  *)
(* SIGPIPE is ignored by the server); a full pipe blocks a blocking write  *)
(* and fails a non-blocking one.  Records are 528 bytes, below PIPE_BUF,   *)
(* so a record is written and read whole.                                  *)
(***************************************************************************)
EXTENDS Naturals, Sequences, SequencesExt, FiniteSets

CONSTANTS
    Clients,          \* pids of the client processes (model values)
    NoPid,            \* dest_pid 0, or any pid that is no client's
    MAX_NUM_CLIENTS,  \* server.c: capacity of the client list
    SrvFifoCap,       \* struct requests the SERVER_FIFO pipe buffer holds
    CliFifoCap,       \* struct responses a client FIFO pipe buffer holds
    MaxChoices,       \* bound: menu choices other than 'q' per client
    Crashes           \* TRUE: a client may die without running exit_handler

ASSUME /\ NoPid \notin Clients
       /\ MAX_NUM_CLIENTS \in Nat \ {0}
       /\ {SrvFifoCap, CliFifoCap} \subseteq Nat \ {0}
       /\ MaxChoices \in Nat
       /\ Crashes \in BOOLEAN

VARIABLES
    registry,   \* client_pids_list: the pids between the two sentinels
    srvFifo,    \* records queued in SERVER_FIFO
    cliFifo,    \* cliFifo[c]: records queued in the FIFO of client c
    fifoExists, \* fifoExists[c]: /tmp/wja35_chat_client.<c> exists
    hasReader,  \* hasReader[c]: client c holds a read descriptor on it
    writerSeen, \* writerSeen[c]: the blocking open of check_sys_response returned
    wclosed,    \* wclosed[c]: a writer closed the FIFO since the drain opened it
    srv,        \* the server loop: pc, req, target, list position, msg_success
    cpc,        \* cpc[c]: where client c is in its main()
    waitFor,    \* waitFor[c]: the call blocked in check_sys_response
    intFlag,    \* int_sys_flag of client c
    choices,    \* menu choices c has made (bounded by MaxChoices)
    nsent,      \* history: requests c has sent; numbers the request ids
    delivered,  \* history: <<request id, pid>> of every broadcast delivery
    snap,       \* history: registry members when the current global was read
    visited     \* history: members the current broadcast has tried

vars == <<registry, srvFifo, cliFifo, fifoExists, hasReader, writerSeen, wclosed, srv,
          cpc, waitFor, intFlag, choices, nsent, delivered, snap, visited>>
clientVars == <<cpc, waitFor, intFlag, choices, nsent>>
histVars == <<delivered, snap, visited>>

Pids == Clients \cup {NoPid}
ReqTypes == {"new_client", "disconnect_client", "check_connection", "msg"}
Ids == Clients \X Nat
Request == [type: ReqTypes, origin: Clients, global: BOOLEAN, dest: Pids, id: Ids]
\* A struct response: the text "OK", "FAIL" or a chat message; id is a
\* history field naming the request it answers or carries.
Response == [kind: {"OK", "FAIL", "MSG"}, id: Ids]
NoRequest == [type |-> "none", origin |-> NoPid, global |-> FALSE,
              dest |-> NoPid, id |-> <<NoPid, 0>>]
SrvPcs == {"recv", "resp_open", "resp_write", "msg_open", "msg_write",
           "bcast", "bcast_open", "bcast_write"}
CliPcs == {"idle", "wait", "loop", "prompt", "drain_r", "drain_s", "compose",
           "disconn", "done", "crashed"}

-----------------------------------------------------------------------------
(* The client list (test_2/list.c) as the sequence it holds.              *)

list_contains(L, pid) == Contains(L, pid)
list_push_back(L, pid) == Append(L, pid)
list_remove_pid(L, pid) == RemoveFirst(L, pid)

(* Records of the protocol (resp_format_OK, resp_format_FAIL,             *)
(* resp_format_msg, and the req_format_* of the client).                  *)

resp_format(r, ok) == [kind |-> IF ok THEN "OK" ELSE "FAIL", id |-> r.id]
resp_format_msg(r) == [kind |-> "MSG", id |-> r.id]
req_format(c, type, g, d) ==
    [type |-> type, origin |-> c, global |-> g, dest |-> d, id |-> <<c, nsent[c] + 1>>]

(* Pipe helpers.                                                          *)

\* open(fifo, O_WRONLY) returns: the path exists and some process reads it.
CanOpenWrite(t) == fifoExists[t] /\ hasReader[t]
\* Mutation: a record is written into a pipe that is already full.
HasRoom_off_by_one(t) == Len(cliFifo[t]) <= CliFifoCap
\* write() of one record to a pipe whose buffer has room for it.
HasRoom(t) == Len(cliFifo[t]) < CliFifoCap
Put(t, rec) == cliFifo' = [cliFifo EXCEPT ![t] = Append(@, rec)]
\* close() of the server's write descriptor on the FIFO of t: the pipe's
\* writer count drops, which a descriptor opened earlier by
\* client_read_messages sees as a hang-up (pipe w_counter moved on).
CloseWriter(t) ==
    wclosed' = IF cpc[t] \in {"drain_r", "drain_s"} THEN [wclosed EXCEPT ![t] = TRUE] ELSE wclosed
\* The server holds a write descriptor on the FIFO of c.
WriterOpenOn(c) == srv.pc \in {"resp_write", "msg_write", "bcast_write"} /\ srv.tgt = c

-----------------------------------------------------------------------------
Init ==
    /\ registry = <<>>
    /\ srvFifo = <<>>
    /\ cliFifo = [c \in Clients |-> <<>>]
    /\ fifoExists = [c \in Clients |-> FALSE]
    /\ hasReader = [c \in Clients |-> FALSE]
    /\ writerSeen = [c \in Clients |-> FALSE]
    /\ wclosed = [c \in Clients |-> FALSE]
    /\ srv = [pc |-> "recv", req |-> NoRequest, tgt |-> NoPid, pos |-> 0, ok |-> TRUE, seq |-> 0]
    /\ cpc = [c \in Clients |-> "idle"]
    /\ waitFor = [c \in Clients |-> "connect"]
    /\ intFlag = [c \in Clients |-> FALSE]
    /\ choices = [c \in Clients |-> 0]
    /\ nsent = [c \in Clients |-> 0]
    /\ delivered = {}
    /\ snap = {}
    /\ visited = {}

TypeOK ==
    /\ registry \in Seq(Clients)
    /\ srvFifo \in Seq(Request) /\ Len(srvFifo) <= SrvFifoCap
    /\ \A c \in Clients : cliFifo[c] \in Seq(Response) /\ Len(cliFifo[c]) <= CliFifoCap
    /\ fifoExists \in [Clients -> BOOLEAN]
    /\ hasReader \in [Clients -> BOOLEAN]
    /\ writerSeen \in [Clients -> BOOLEAN]
    /\ wclosed \in [Clients -> BOOLEAN]
    /\ srv.pc \in SrvPcs /\ srv.req \in Request \cup {NoRequest}
    /\ srv.tgt \in Pids /\ srv.pos \in Nat /\ srv.ok \in BOOLEAN /\ srv.seq \in Nat
    /\ cpc \in [Clients -> CliPcs]
    /\ waitFor \in [Clients -> {"connect", "check", "send", "disconnect"}]
    /\ intFlag \in [Clients -> BOOLEAN]
    /\ choices \in [Clients -> 0..MaxChoices]
    /\ delivered \subseteq Ids \X Clients
    /\ snap \subseteq Clients /\ visited \subseteq Clients

-----------------------------------------------------------------------------
(***************************************************************************)
(* The server loop, server.c main().  It reads one request (line 207) and  *)
(* handles it fully before the next; every delivery opens the target FIFO  *)
(* (a step that may block or fail) and then writes one record (a step that *)
(* may block on a full pipe or fail with EPIPE).                           *)
(***************************************************************************)

\* The next step is sending the answer to r with send_sys_response, with
\* seq_num (counted in units of seq_len, SEQ_LENGTH for every request) at seq.
Answer(r, ok, seq) ==
    srv' = [pc |-> "resp_open", req |-> r, tgt |-> r.origin, pos |-> 0, ok |-> ok, seq |-> seq]
Respond(r, ok) == Answer(r, ok, srv.seq)

ServerReads ==
    /\ srv.pc = "recv"
    /\ srvFifo # <<>>
    /\ srvFifo' = Tail(srvFifo)

\* "new_client": store the pid unless stored already or the list is full.
ServeNewClient ==
    LET r == Head(srvFifo)
        success == ~list_contains(registry, r.origin) /\ Len(registry) < MAX_NUM_CLIENTS
    IN /\ ServerReads
       /\ r.type = "new_client"
       /\ registry' = IF success THEN list_push_back(registry, r.origin) ELSE registry
       /\ Respond(r, success)
       /\ UNCHANGED <<wclosed, cliFifo, fifoExists, hasReader, writerSeen, clientVars, histVars>>

\* client_remove: list_remove_pid when list_contains finds the pid; the
\* caller learns whether it was stored from list_contains.
client_remove(l, p) == IF list_contains(l, p) THEN list_remove_pid(l, p) ELSE l

\* "disconnect_client": client_remove, FAIL when the pid is not stored.
ServeDisconnect ==
    LET r == Head(srvFifo)
    IN /\ ServerReads
       /\ r.type = "disconnect_client"
       /\ registry' = client_remove(registry, r.origin)
       /\ Respond(r, list_contains(registry, r.origin))
       /\ UNCHANGED <<wclosed, cliFifo, fifoExists, hasReader, writerSeen, clientVars, histVars>>

\* "check_connection" (and, in the code, any other system text): OK.
ServeCheck ==
    LET r == Head(srvFifo)
    IN /\ ServerReads
       /\ r.type = "check_connection"
       /\ Respond(r, TRUE)
       /\ UNCHANGED <<wclosed, registry, cliFifo, fifoExists, hasReader, writerSeen, clientVars, histVars>>

\* A global message: walk the list from its front with msg_success = true.
ServeGlobal ==
    LET r == Head(srvFifo)
    IN /\ ServerReads
       /\ r.type = "msg" /\ r.global
       /\ srv' = [srv EXCEPT !.pc = "bcast", !.req = r, !.tgt = NoPid, !.pos = 1, !.ok = TRUE]
       /\ snap' = ToSet(registry)
       /\ visited' = {}
       /\ UNCHANGED <<wclosed, registry, cliFifo, fifoExists, hasReader, writerSeen, clientVars, delivered>>

\* A direct message to a stored pid: send_msg to dest_pid.
ServeDirect ==
    LET r == Head(srvFifo)
    IN /\ ServerReads
       /\ r.type = "msg" /\ ~r.global
       /\ list_contains(registry, r.dest)
       /\ srv' = [srv EXCEPT !.pc = "msg_open", !.req = r, !.tgt = r.dest, !.pos = 0, !.ok = TRUE]
       /\ UNCHANGED <<wclosed, registry, cliFifo, fifoExists, hasReader, writerSeen, clientVars, histVars>>

\* A direct message to a pid not stored: nothing is delivered, OK anyway.
ServeUnknownDest ==
    LET r == Head(srvFifo)
    IN /\ ServerReads
       /\ r.type = "msg" /\ ~r.global
       /\ ~list_contains(registry, r.dest)
       /\ Respond(r, TRUE)
       /\ UNCHANGED <<wclosed, registry, cliFifo, fifoExists, hasReader, writerSeen, clientVars, histVars>>

\* Positions from pos on whose pid is not the sender (skipped by the loop).
BcastRest == {i \in srv.pos..Len(registry) : registry[i] # srv.req.origin}

\* The broadcast loop moves p to the next node that is not the sender's.
BcastNext ==
    /\ srv.pc = "bcast"
    /\ BcastRest # {}
    /\ srv' = [srv EXCEPT !.pc = "bcast_open", !.tgt = registry[Min(BcastRest)],
                          !.pos = Min(BcastRest)]
    /\ UNCHANGED <<wclosed, registry, srvFifo, cliFifo, fifoExists, hasReader, writerSeen,
                   clientVars, histVars>>

\* p reaches the tail sentinel: answer OK iff msg_success stayed true.
BcastEnd ==
    /\ srv.pc = "bcast"
    /\ BcastRest = {}
    /\ Respond(srv.req, srv.ok)
    /\ UNCHANGED <<wclosed, registry, srvFifo, cliFifo, fifoExists, hasReader, writerSeen,
                   clientVars, histVars>>

\* Mutation: after unlinking an unreachable member the walk restarts from
\* the head of the list instead of reading the freed node's next.
BcastOpen_restart_from_head ==
    LET t == srv.tgt
    IN /\ srv.pc = "bcast_open"
       /\ \/ /\ CanOpenWrite(t)
             /\ srv' = [srv EXCEPT !.pc = "bcast_write"]
             /\ writerSeen' = [writerSeen EXCEPT ![t] = TRUE]
             /\ UNCHANGED <<wclosed, registry, visited>>
          \/ /\ ~fifoExists[t]
             /\ registry' = client_remove(registry, t)
             /\ srv' = [srv EXCEPT !.pc = "bcast", !.ok = FALSE, !.pos = 1]
             /\ visited' = visited \cup {t}
             /\ UNCHANGED writerSeen
       /\ UNCHANGED <<wclosed, srvFifo, cliFifo, fifoExists, hasReader, clientVars, delivered, snap>>

\* Mutation: after unlinking an unreachable member the walk also steps
\* over the node that took its place (p->next taken once too often).
BcastOpen_skip_successor ==
    LET t == srv.tgt
    IN /\ srv.pc = "bcast_open"
       /\ \/ /\ CanOpenWrite(t)
             /\ srv' = [srv EXCEPT !.pc = "bcast_write"]
             /\ writerSeen' = [writerSeen EXCEPT ![t] = TRUE]
             /\ UNCHANGED <<wclosed, registry, visited>>
          \/ /\ ~fifoExists[t]
             /\ registry' = client_remove(registry, t)
             /\ srv' = [srv EXCEPT !.pc = "bcast", !.ok = FALSE, !.pos = @ + 1]
             /\ visited' = visited \cup {t}
             /\ UNCHANGED writerSeen
       /\ UNCHANGED <<wclosed, srvFifo, cliFifo, fifoExists, hasReader, clientVars, delivered, snap>>

\* open() of a member's FIFO.  When it fails the member is removed as
\* unreachable and p = p->next reads the successor out of the node just
\* freed: with glibc the next field survives free(), so the walk goes on
\* with the node that now sits at the same position.
BcastOpen ==
    LET t == srv.tgt
    IN /\ srv.pc = "bcast_open"
       /\ \/ /\ CanOpenWrite(t)
             /\ srv' = [srv EXCEPT !.pc = "bcast_write"]
             /\ writerSeen' = [writerSeen EXCEPT ![t] = TRUE]
             /\ UNCHANGED <<wclosed, registry, visited>>
          \/ /\ ~fifoExists[t]
             /\ registry' = client_remove(registry, t)
             /\ srv' = [srv EXCEPT !.pc = "bcast", !.ok = FALSE]
             /\ visited' = visited \cup {t}
             /\ UNCHANGED writerSeen
       /\ UNCHANGED <<wclosed, srvFifo, cliFifo, fifoExists, hasReader, clientVars, delivered, snap>>

\* write() of the message, then close() and p = p->next.
BcastWrite ==
    LET t == srv.tgt
    IN /\ srv.pc = "bcast_write"
       /\ \/ /\ hasReader[t] /\ HasRoom(t)
             /\ Put(t, resp_format_msg(srv.req))
             /\ delivered' = delivered \cup {<<srv.req.id, t>>}
             /\ srv' = [srv EXCEPT !.pc = "bcast", !.pos = @ + 1, !.seq = @ + 1]
          \/ /\ ~hasReader[t]
             /\ srv' = [srv EXCEPT !.pc = "bcast", !.pos = @ + 1, !.ok = FALSE, !.seq = @ + 1]
             /\ UNCHANGED <<cliFifo, delivered>>
       /\ visited' = visited \cup {t}
       /\ CloseWriter(t)
       /\ UNCHANGED <<registry, srvFifo, fifoExists, hasReader, writerSeen, clientVars, snap>>

\* send_msg: open() of dest_pid's FIFO ...
MsgOpen ==
    LET t == srv.tgt
    IN /\ srv.pc = "msg_open"
       /\ \/ /\ CanOpenWrite(t)
             /\ srv' = [srv EXCEPT !.pc = "msg_write"]
             /\ writerSeen' = [writerSeen EXCEPT ![t] = TRUE]
          \/ /\ ~fifoExists[t]
             /\ Answer(srv.req, FALSE, srv.seq + 1)
             /\ UNCHANGED writerSeen
       /\ UNCHANGED <<wclosed, registry, srvFifo, cliFifo, fifoExists, hasReader, clientVars, histVars>>

\* ... and write(); its result is the answer to the sender.
MsgWrite ==
    LET t == srv.tgt
    IN /\ srv.pc = "msg_write"
       /\ \/ /\ hasReader[t] /\ HasRoom(t)
             /\ Put(t, resp_format_msg(srv.req))
             /\ Answer(srv.req, TRUE, srv.seq + 1)
          \/ /\ ~hasReader[t]
             /\ Answer(srv.req, FALSE, srv.seq + 1)
             /\ UNCHANGED cliFifo
       /\ CloseWriter(t)
       /\ UNCHANGED <<registry, srvFifo, fifoExists, hasReader, writerSeen, clientVars, histVars>>

\* send_sys_response: open() of origin_pid's FIFO; on failure give up.
RespOpen ==
    LET t == srv.tgt
    IN /\ srv.pc = "resp_open"
       /\ \/ /\ CanOpenWrite(t)
             /\ srv' = [srv EXCEPT !.pc = "resp_write"]
             /\ writerSeen' = [writerSeen EXCEPT ![t] = TRUE]
          \/ /\ ~fifoExists[t]
             /\ srv' = [srv EXCEPT !.pc = "recv", !.seq = @ + 1]
             /\ UNCHANGED writerSeen
       /\ UNCHANGED <<wclosed, registry, srvFifo, cliFifo, fifoExists, hasReader, clientVars, histVars>>

\* ... write() of OK or FAIL, close(), and back to the read of line 207.
RespWrite ==
    LET t == srv.tgt
    IN /\ srv.pc = "resp_write"
       /\ \/ /\ hasReader[t] /\ HasRoom(t)
             /\ Put(t, resp_format(srv.req, srv.ok))
          \/ /\ ~hasReader[t]
             /\ UNCHANGED cliFifo
       /\ srv' = [srv EXCEPT !.pc = "recv", !.seq = @ + 1]
       /\ CloseWriter(t)
       /\ UNCHANGED <<registry, srvFifo, fifoExists, hasReader, writerSeen, clientVars, histVars>>

ServerStep ==
    \/ ServeNewClient \/ ServeDisconnect \/ ServeCheck
    \/ ServeGlobal \/ ServeDirect \/ ServeUnknownDest
    \/ BcastNext \/ BcastEnd \/ BcastOpen \/ BcastWrite
    \/ MsgOpen \/ MsgWrite \/ RespOpen \/ RespWrite

-----------------------------------------------------------------------------
(***************************************************************************)
(* The clients, client.c main().  A request is written with one write()    *)
(* (client_connect, client_send, client_disconnect), and the answer is     *)
(* read by check_sys_response: a blocking open() of the own FIFO that      *)
(* returns once some writer opens it, then one read() of the first record, *)
(* which counts as success iff its text is "OK".  Descriptors opened there *)
(* and in client_read_messages are never closed.                           *)
(***************************************************************************)

\* exit(): exit_handler unlinks the FIFO and every descriptor is closed,
\* which discards what the pipe still held.
Exited(c) ==
    /\ cpc' = [cpc EXCEPT ![c] = "done"]
    /\ fifoExists' = [fifoExists EXCEPT ![c] = FALSE]
    /\ hasReader' = [hasReader EXCEPT ![c] = FALSE]
    /\ cliFifo' = [cliFifo EXCEPT ![c] = <<>>]

\* The request r is written whole into SERVER_FIFO and c blocks in
\* check_sys_response; its open() returns at once if the server is writing.
SendRequest(c, r, call) ==
    /\ Len(srvFifo) < SrvFifoCap
    /\ srvFifo' = Append(srvFifo, r)
    /\ nsent' = [nsent EXCEPT ![c] = @ + 1]
    /\ cpc' = [cpc EXCEPT ![c] = "wait"]
    /\ waitFor' = [waitFor EXCEPT ![c] = call]
    /\ writerSeen' = [writerSeen EXCEPT ![c] = WriterOpenOn(c)]

\* Where main() goes when check_sys_response returns ok for the call.
AfterWait(c, ok) ==
    CASE waitFor[c] = "connect" -> IF ok THEN "loop" ELSE "done"
      [] waitFor[c] = "check" -> IF ~ok THEN "done"
                                ELSE IF intFlag[c] THEN "disconn" ELSE "prompt"
      [] waitFor[c] = "send" -> "loop"
      [] waitFor[c] = "disconnect" -> "done"

\* check_sys_response returned ok with rest left in the FIFO.  A failed
\* connect or heartbeat leaves the loop with conn_alive false, so main()
\* exits without sending disconnect_client.
Resume(c, ok, rest) ==
    IF AfterWait(c, ok) = "done"
    THEN Exited(c)
    ELSE /\ cpc' = [cpc EXCEPT ![c] = AfterWait(c, ok)]
         /\ cliFifo' = [cliFifo EXCEPT ![c] = rest]
         /\ UNCHANGED <<wclosed, fifoExists, hasReader>>

\* client_connect: req_format_connect, open() of SERVER_FIFO without
\* O_NONBLOCK and a write() that blocks until the record fits, then
\* check_sys_response.  The server runs first, so the open succeeds.
client_connect(c) == SendRequest(c, req_format(c, "new_client", FALSE, NoPid), "connect")

\* Start: mkfifo, atexit, then client_connect; the own FIFO is opened for
\* reading in check_sys_response.
ClientStart(c) ==
    /\ cpc[c] = "idle"
    /\ fifoExists' = [fifoExists EXCEPT ![c] = TRUE]
    /\ hasReader' = [hasReader EXCEPT ![c] = TRUE]
    /\ client_connect(c)
    /\ UNCHANGED <<wclosed, registry, cliFifo, srv, intFlag, choices, histVars>>

\* check_sys_response: the read() returns the first record of the FIFO.
ClientRecv(c) ==
    /\ cpc[c] = "wait"
    /\ writerSeen[c] /\ cliFifo[c] # <<>>
    /\ Resume(c, Head(cliFifo[c]).kind = "OK", Tail(cliFifo[c]))
    /\ UNCHANGED <<wclosed, registry, srvFifo, writerSeen, srv, waitFor, intFlag, choices,
                   nsent, histVars>>

\* Top of the main loop: leave it on int_sys_flag, else send the
\* check_connection heartbeat; client_send's O_NONBLOCK write fails on a
\* full SERVER_FIFO, which the loop takes for a lost connection.
ClientLoop(c) ==
    /\ cpc[c] = "loop"
    /\ \/ /\ intFlag[c]
          /\ cpc' = [cpc EXCEPT ![c] = "disconn"]
          /\ UNCHANGED <<wclosed, srvFifo, cliFifo, fifoExists, hasReader, writerSeen, waitFor, nsent>>
       \/ /\ ~intFlag[c]
          /\ SendRequest(c, req_format(c, "check_connection", FALSE, NoPid), "check")
          /\ UNCHANGED <<wclosed, cliFifo, fifoExists, hasReader>>
       \/ /\ ~intFlag[c]
          /\ Len(srvFifo) = SrvFifoCap
          /\ Exited(c)
          /\ UNCHANGED <<wclosed, srvFifo, writerSeen, waitFor, nsent>>
    /\ UNCHANGED <<wclosed, registry, srv, intFlag, choices, histVars>>

\* The menu: 's' (read messages first, then send), 'r', any other key,
\* each within the MaxChoices bound, and 'q', which leaves the loop.
ClientChoose(c) ==
    /\ cpc[c] = "prompt"
    /\ \/ /\ choices[c] < MaxChoices
          /\ \E next \in {"drain_s", "drain_r", "loop"} : cpc' = [cpc EXCEPT ![c] = next]
          /\ choices' = [choices EXCEPT ![c] = @ + 1]
       \/ /\ cpc' = [cpc EXCEPT ![c] = "disconn"]
          /\ UNCHANGED choices
    /\ UNCHANGED <<wclosed, registry, srvFifo, cliFifo, fifoExists, hasReader, writerSeen, srv,
                   waitFor, intFlag, nsent, histVars>>

\* poll() on the drain's descriptor reports a hang-up: no writer is open now
\* and one has closed since the descriptor was opened.
HangUp(c) == wclosed[c] /\ ~WriterOpenOn(c)

\* client_read_messages: read records while poll() reports an event.  A
\* record is read whole; with the pipe empty and no hang-up poll() returns 0
\* and the loop ends.
ClientDrain(c) ==
    /\ cpc[c] \in {"drain_r", "drain_s"}
    /\ \/ /\ cliFifo[c] # <<>>
          /\ cliFifo' = [cliFifo EXCEPT ![c] = Tail(@)]
          /\ UNCHANGED <<cpc, wclosed>>
       \/ /\ cliFifo[c] = <<>>
          /\ ~HangUp(c)
          /\ cpc' = [cpc EXCEPT ![c] = IF cpc[c] = "drain_r" THEN "loop" ELSE "compose"]
          /\ wclosed' = [wclosed EXCEPT ![c] = FALSE]
          /\ UNCHANGED cliFifo
    /\ UNCHANGED <<registry, srvFifo, fifoExists, hasReader, writerSeen, srv, waitFor,
                   intFlag, choices, nsent, histVars>>

\* The same loop with the pipe empty and a hang-up: poll() returns 1 for
\* POLLHUP, read() returns 0 (end of file), nothing is printed and the loop
\* polls again; the process spins without changing anything.
DrainSpin(c) ==
    /\ cpc[c] \in {"drain_r", "drain_s"}
    /\ cliFifo[c] = <<>>
    /\ HangUp(c)
    /\ UNCHANGED vars

\* req_format_message and client_send: a global message or one to a pid
\* typed in (atoi gives 0 for junk); after an interrupt stdin is closed and
\* the request goes out with global false and dest_pid 0.  A full
\* SERVER_FIFO fails the send and the loop goes on.
ClientSend(c) ==
    /\ cpc[c] = "compose"
    /\ \E g \in BOOLEAN, d \in Pids :
          /\ g => d = NoPid
          /\ intFlag[c] => ~g /\ d = NoPid
          /\ \/ SendRequest(c, req_format(c, "msg", g, d), "send")
             \/ /\ Len(srvFifo) = SrvFifoCap
                /\ cpc' = [cpc EXCEPT ![c] = "loop"]
                /\ UNCHANGED <<wclosed, srvFifo, writerSeen, waitFor, nsent>>
    /\ UNCHANGED <<wclosed, registry, cliFifo, fifoExists, hasReader, srv, intFlag, choices, histVars>>

\* client_disconnect after the loop; if its write fails main() exits.
ClientDisconnect(c) ==
    /\ cpc[c] = "disconn"
    /\ \/ /\ SendRequest(c, req_format(c, "disconnect_client", FALSE, NoPid), "disconnect")
          /\ UNCHANGED <<wclosed, cliFifo, fifoExists, hasReader>>
       \/ /\ Len(srvFifo) = SrvFifoCap
          /\ Exited(c)
          /\ UNCHANGED <<wclosed, srvFifo, writerSeen, waitFor, nsent>>
    /\ UNCHANGED <<wclosed, registry, srv, intFlag, choices, histVars>>

\* SIGINT/SIGQUIT: int_sys_handler sets int_sys_flag.  The handler is
\* installed without SA_RESTART, so a blocked open()/read() in
\* check_sys_response fails with EINTR (the call reports failure), on
\* every signal; a blocked scanf at the menu returns and the loop is left.
\* Signals that only set the flag again change nothing and are left out.
ClientInterrupt(c) ==
    /\ intFlag' = [intFlag EXCEPT ![c] = TRUE]
    /\ \/ /\ cpc[c] = "wait"
          /\ ~(writerSeen[c] /\ cliFifo[c] # <<>>)
          /\ Resume(c, FALSE, cliFifo[c])
       \/ /\ ~intFlag[c]
          /\ cpc[c] = "prompt"
          /\ cpc' = [cpc EXCEPT ![c] = "disconn"]
          /\ UNCHANGED <<wclosed, cliFifo, fifoExists, hasReader>>
       \/ /\ ~intFlag[c]
          /\ \/ cpc[c] \in {"loop", "drain_r", "drain_s", "compose"}
             \/ cpc[c] = "wait" /\ writerSeen[c] /\ cliFifo[c] # <<>>
          /\ UNCHANGED <<wclosed, cpc, cliFifo, fifoExists, hasReader>>
    /\ UNCHANGED <<wclosed, registry, srvFifo, writerSeen, srv, waitFor, choices, nsent, histVars>>

\* A client killed by a signal it does not catch (SIGKILL, SIGTERM):
\* exit_handler does not run, so the FIFO stays without a reader.
ClientCrash(c) ==
    /\ Crashes
    /\ cpc[c] \notin {"idle", "done", "crashed"}
    /\ cpc' = [cpc EXCEPT ![c] = "crashed"]
    /\ hasReader' = [hasReader EXCEPT ![c] = FALSE]
    /\ cliFifo' = [cliFifo EXCEPT ![c] = <<>>]
    /\ UNCHANGED <<wclosed, registry, srvFifo, fifoExists, writerSeen, srv, waitFor, intFlag,
                   choices, nsent, histVars>>

\* Every client process is gone: the server has nothing left to do and
\* blocks for good (in read(), or in a step ServerProgress reports).
Quiescent ==
    /\ \A c \in Clients : cpc[c] \in {"done", "crashed"}
    /\ UNCHANGED vars

\* Steps a client process takes without waiting for its user.
ClientProgram(c) == ClientRecv(c) \/ ClientLoop(c) \/ ClientDrain(c) \/ ClientDisconnect(c)

Next ==
    \/ ServerStep
    \/ \E c \in Clients :
          \/ ClientStart(c) \/ ClientProgram(c) \/ ClientChoose(c)
          \/ ClientSend(c) \/ ClientInterrupt(c) \/ ClientCrash(c) \/ DrainSpin(c)
    \/ Quiescent

Spec == Init /\ [][Next]_vars

\* The server is one process that runs whenever it can; a client runs
\* whenever it can except where it waits for its user (start, menu,
\* message text), for a signal, or is killed.
FairSpec == Spec /\ WF_vars(ServerStep) /\ \A c \in Clients : WF_vars(ClientProgram(c))

-----------------------------------------------------------------------------
(* Properties.                                                             *)

\* A global message is written at most once into a member's FIFO and never
\* into its sender's, also when the walk unlinks and frees an unreachable
\* member in the middle of the list and goes on from the freed node's next
\* (server.c:327-335): no member before it is written to again.
GlobalDeliveredOnce ==
    [][\A t \in Clients :
         (srv.pc = "bcast_write" /\ srv.tgt = t /\ cliFifo'[t] # cliFifo[t])
            => /\ t # srv.req.origin
               /\ <<srv.req.id, t>> \notin delivered]_vars

\* When the broadcast loop reaches the tail it has tried every member the
\* list held when the message was read, other than the sender, even the
\* one that follows an unreachable member it unlinked (server.c:333 reads
\* p->next of the freed node); and it answers OK only if each of them got
\* the message (msg_success, server.c:331 and 345).
BroadcastCovered ==
    [][(srv.pc = "bcast" /\ srv'.pc = "resp_open")
         => LET others == snap \ {srv.req.origin}
            IN /\ others \subseteq visited
               /\ srv.ok => \A t \in others : <<srv.req.id, t>> \in delivered]_vars

\* The server loop never stays stuck inside the handling of a request: it
\* gets back to reading SERVER_FIFO (server.c, "never terminates the loop").
ServerProgress == srv.pc # "recv" ~> srv.pc = "recv"

\* client_read_messages always returns: a client that starts draining its
\* FIFO gets back to its loop or to the message prompt (spec 4.2 and 5: the
\* non-blocking drain "never stalls" the interactive loop).
DrainEnds ==
    \A c \in Clients : cpc[c] \in {"drain_r", "drain_s"} ~> cpc[c] \notin {"drain_r", "drain_s"}

\* A request of c is still queued in SERVER_FIFO or being handled.
Pending(c) ==
    \/ \E i \in 1..Len(srvFifo) : srvFifo[i].origin = c
    \/ srv.pc # "recv" /\ srv.req.origin = c

\* A client process that has exited is no longer in the client list once
\* the server has dealt with its requests: spec 4.4 has every interrupt
\* unwind to "disconnecting", and spec 8 has the list reflect connected
\* minus disconnected clients.
ExitedClientsDeregistered ==
    \A c \in Clients : cpc[c] = "done" /\ ~Pending(c) => ~list_contains(registry, c)

\* check_sys_response never takes a chat message, another client's or the
\* client's own (a direct message to its own pid), for the server's answer
\* to its request, so the client reports the outcome the server decided
\* (spec 8: the origin of a delivered message is acknowledged OK; spec
\* 4.4: a failed heartbeat means the server is gone).
AnswerIsNotAMessage ==
    [][\A c \in Clients : ClientRecv(c) => Head(cliFifo[c]).kind # "MSG"]_vars

=============================================================================
