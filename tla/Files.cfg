SPECIFICATION Spec
CONSTANTS
    NTERMS = 2
    MAX_DEPTH = 1
    MAX_FILES = 3
    MAX_COUNTER = 3
    MAX_POS = 0
    Direntries <- MCDirentries
    FileLength <- MCFileLength
    Programs = {"shell"}
VIEW Live
INVARIANTS TypeOK OpensUnlessRaced ListsInOrderAlone
