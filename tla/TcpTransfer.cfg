CONSTANTS
    Clients = {c1, c2}
    NumSockets = 1
    Backlog = 1
    Window = 3
    Faults = FALSE
    MAX_CLIENTS = 2
    FdLimit = 6
    BufferSize = 3
    NoConn = NoConn
    BytesToTransfer = 3
    NumCycles = 1
    Payload = 2
SPECIFICATION FairSpec
INVARIANTS TypeOK NoBlockingRead OneEntryEach TotalIsWhatWasSent
PROPERTIES CountSpec EveryTotalPrinted
