CONSTANTS
    Entries = {"kes", "1c"}
    Hollow = {"1c"}
    Repos = {"kes", "1c", "ghost"}
    Methods = {"GET", "POST", "OPTIONS"}
    Words <- MCWords
    MaxDepth = 5
    FileNames <- MCFileNames
SPECIFICATION Spec
CHECK_DEADLOCK FALSE
INVARIANT TypeOK
INVARIANT WritesGuarded
INVARIANT LogTellsStatus
INVARIANT PageCallsArrive
