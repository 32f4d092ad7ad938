CONSTANTS
    Clients = {c1}
    NumSockets = 1
    BytesToTransfer = 2
    NumCycles = 2
    Payload = 2
    FrameBytes = 1077
    Rates = {250}
    Pauses = {2000000}
    MaxGap = 3
    BufferSize = 3
    Faults = TRUE
SPECIFICATION Spec
INVARIANTS PauseKept
