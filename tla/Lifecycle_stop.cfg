CONSTANTS
    r1 = r1
    r2 = r2
    r3 = r3
    Requests = {r1, r2, r3}
SPECIFICATION FairSpec
INVARIANT TypeOK
INVARIANT CleanExit
INVARIANT CutExplained
PROPERTY StopEnds
