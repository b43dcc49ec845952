\* PcrudSession with both clients.
SPECIFICATION FairSpec
CONSTANTS
    N = 5
    Clients = {"web", "eg2"}
    Refusals = {"begin", "cud", "read", "close"}
    MayTimeOut = TRUE
\* A call ends.
CHECK_DEADLOCK FALSE
INVARIANTS AllOrNothing ToldTrue
PROPERTIES KeepsBatch CallEnds
