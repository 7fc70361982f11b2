\* A server write to a client that is draining its FIFO: poll() then
\* reports POLLHUP on the empty pipe and client_read_messages spins.
CONSTANTS
    c1 = c1
    c2 = c2
    c3 = c3
    Clients = {c1, c2}
    NoPid = NoPid
    MAX_NUM_CLIENTS = 2
    SrvFifoCap = 2
    CliFifoCap = 2
    MaxChoices = 1
    Crashes = FALSE
SPECIFICATION FairSpec
PROPERTY DrainEnds
