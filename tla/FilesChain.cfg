SPECIFICATION Spec
CONSTANTS
    NTERMS = 1
    MAX_DEPTH = 3
    MAX_FILES = 3
    MAX_COUNTER = 2
    MAX_POS = 4
    Direntries <- MCRtcAndProgram
    FileLength <- MCTwoBlocks
    Programs = {"shell"}
    DATA_BLOCK_SIZE = 2
    data_count = 2
    ReadLengths = {0, 1, 2, 3}
VIEW Live
INVARIANTS StdStreams PositionsWithinFile HalfOpenInRootsOnly ReadDataIsExact
PROPERTY WaitingLosesOnlyTheChilds
