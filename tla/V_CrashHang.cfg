CONSTANTS
    c1 = c1
    c2 = c2
    c3 = c3
    Clients = {c1, c2}
    NoPid = NoPid
    MAX_NUM_CLIENTS = 2
    SrvFifoCap = 2
    MaxChoices = 1
    CliFifoCap = 2
    Crashes = TRUE
SPECIFICATION FairSpec
PROPERTY ServerProgress
