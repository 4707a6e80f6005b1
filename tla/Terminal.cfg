SPECIFICATION Spec
CONSTANTS
    NTERMS = 2
    kbuf_size = 3
    Chars = {"x"}
    ReadSizes = {2}
VIEW Live
INVARIANTS
    TypeOK
    CalmReadGetsItsLine
PROPERTIES
    ImplementsEditor
    LineIsRead
