SPECIFICATION SysSpec
CONSTANTS
    NTERMS = 2
    MAX_DEPTH = 2
    MAX_FILES = 4
    MAX_COUNTER = 3
    MAX_POS = 0
    Direntries <- MCThreeEntries
    FileLength <- MCFileLength
    Programs = {"shell"}
INVARIANTS TestsPass TestsCleanUp
VIEW MCLive
CONSTRAINT OthersOnlyOpen
