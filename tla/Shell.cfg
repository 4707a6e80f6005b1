SPECIFICATION Spec
CONSTANTS
    MAX_FILENAME_LEN = 2
    BUFSIZE = 6
    Chars <- MCChars
    Lines <- MCLines
    Disk <- MCDisk
INVARIANTS TypeOK RunsTheLineTyped OpensWhatIsListed LsShowsTheDirectory
PROPERTY ListedProgramsRun
