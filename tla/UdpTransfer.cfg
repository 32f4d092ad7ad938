CONSTANTS
    Clients = {c1}
    NumSockets = 2
    BytesToTransfer = 5
    NumCycles = 2
    Payload = 2
    FrameBytes = 1077
    Rates = {1, 250, 2000000}
    Pauses = {0, 1000, 2000000}
    MaxGap = 3
    BufferSize = 3
    Faults = TRUE
SPECIFICATION FairSpec
INVARIANTS IInv SendsAllOrNothing PauseShows RoundRobin LossIsWhatIsMissing
PROPERTIES OneMessagePerTick TestEnds
