CONSTANTS
    Clients = {c1, c2}
    NumSockets = 2
    Backlog = 1
    Window = 1
    Faults = FALSE
    MAX_CLIENTS = 4
    FdLimit = 8
    BufferSize = 2
    NoConn = NoConn
    BytesToTransfer = 1
    NumCycles = 2
    Payload = 1
SPECIFICATION Spec
SYMMETRY ClientSymmetry
INVARIANTS NoBlockingRead TotalsAddUp RoundRobin
