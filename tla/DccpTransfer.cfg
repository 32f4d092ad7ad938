CONSTANTS
    Clients = {c1}
    NumSockets = 2
    BytesToTransfer = 3
    NumCycles = 2
    Payload = 2
    FrameBytes = 1117
    Rates = {1, 250, 2000000}
    Pauses = {0, 2000000}
    MaxGap = 2
    Backlog = 2
    Lossy = TRUE
    EndWaits = FALSE
    Faults = TRUE
    MAX_CLIENTS = 2
    MaxOpen = 2
    BufferSize = 3
    Free = Free
    Bad = Bad
SPECIFICATION FairSpec
INVARIANTS TotalsFallShort
PROPERTIES OneMessagePerTick ClientsStop
