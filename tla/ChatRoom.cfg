\* Three clients that may be killed at any point (no exit_handler runs)
\* and a client list large enough for all: a broadcast can meet an
\* unreachable member with another member after it.  Every broadcast
\* reaches each other member at most once, tries every member, and answers
\* OK only when every one of them got the message.  Safety only, so the
\* pids are symmetric.  RequestBound caps the requests of all clients.
CONSTANTS
    c1 = c1
    c2 = c2
    c3 = c3
    Clients = {c1, c2, c3}
    NoPid = NoPid
    MAX_NUM_CLIENTS = 3
    SrvFifoCap = 2
    CliFifoCap = 2
    MaxChoices = 1
    Crashes = TRUE
SPECIFICATION Spec
SYMMETRY ClientSymmetry
CONSTRAINT RequestBound
\* A killed client can stop the whole room: the server blocks for good in
\* open() of its FIFO (server.c:55, run chat_crash_hang) and the clients
\* left block writing into the full SERVER_FIFO.
CHECK_DEADLOCK FALSE
INVARIANT TypeOK
PROPERTY GlobalDeliveredOnce
PROPERTY BroadcastCovered
