SPECIFICATION Spec
CONSTANTS
    MAX_FILES = 4
    FREQ_MAX = 6
    WRAP = 8
    FILE_LENGTH = 2
INVARIANTS
    TypeOK
    CountsInRtcOnly
    NeverFasterThanAsked
PROPERTY
    FullRateReadReturns
