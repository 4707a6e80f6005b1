SPECIFICATION Spec
CHECK_DEADLOCK FALSE
CONSTANTS
    NTERMS = 2
    MAX_KEYS = 3
    MAX_EARLY = 1
INVARIANTS TypeOK OpenMeansAcknowledged
PROPERTIES KeysAreRead RtcGoesOn SwitchesEnd
