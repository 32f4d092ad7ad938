CONSTANTS
    BufferSize = 4
    ContentSize = 3
    Lengths <- MCLengths
SPECIFICATION Spec
INVARIANTS TypeOK ChunkIsNextPiece FullUntilLast WholeLengthSent IInv
PROPERTY CycleEnds
