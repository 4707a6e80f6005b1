SPECIFICATION Spec
CONSTANTS
    NTERMS = 3
    MAX_OVERLAPS = 1
INVARIANTS
    TypeOK
    ScreensStayApart
    PrintsTheKeyRead
VIEW Live
