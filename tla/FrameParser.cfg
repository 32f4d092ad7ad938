CONSTANTS
    Protocol = "sctp"
    FrameKinds <- Kinds
    MaxFrames = 3
    MayCut = TRUE
    Garbage = {0, 50}
    expectedData = 10
SPECIFICATION ParserSpec
INVARIANTS RowIsTrue CutCostsOneFrame
PROPERTIES CountsFrames
