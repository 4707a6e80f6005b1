SPECIFICATION Spec
CONSTANTS
    NTERMS = 2
    NUM_COLS = 2
    NUM_ROWS = 2
    Chars = {"x"}
    Prompt <- MCPrompt
    START_X = 1
    START_Y = 1
VIEW Live
INVARIANTS
    TypeOK
    ScreensShowOwnOutput
