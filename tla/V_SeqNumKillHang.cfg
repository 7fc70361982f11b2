\* Three clients (enough for a request naming a client that is still stuck
\* in write() behind a full SERVER_FIFO) and a pipe with room for one
\* request; any client may be killed by Ctrl-C.
CONSTANTS
    s1 = s1
    s2 = s2
    s3 = s3
    Junk = Junk
    Clients = {s1, s2, s3}
    SeqLens = {0, 1}
    SrvCap = 1
SPECIFICATION FairSpec
CHECK_DEADLOCK FALSE
PROPERTY ServerProgress
