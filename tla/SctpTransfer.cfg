CONSTANTS
    Conns = {c1, c2}
    Payload = 2
    Backlog = 1
    Lossy = TRUE
    EndWaits = TRUE
    Faults = TRUE
    MAX_CLIENTS = 2
    MaxOpen = 1
    BufferSize = 3
    Free = Free
    Bad = Bad
    BytesToTransfer = 2
    NumCycles = 2
    NumStreams = 2
    OutStreams = 1
    Window = 2
SPECIFICATION FairSpec
INVARIANTS TypeOK TotalIsWhatArrived StreamsInTurn
PROPERTIES ServedToTheEnd
