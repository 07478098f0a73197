CONSTANTS
    i1 = i1
    i2 = i2
    broken = broken
    SignIns = {i1, i2}
    Arrays = {"a1", "a2", "a3"}
    Groups = {1, 2, 3}
    Torn = broken
    Files <- MCFiles
SPECIFICATION Spec
SYMMETRY Symmetry
INVARIANT TypeOK
INVARIANT OneServer
 
INVARIANT SeenMerged
INVARIANT SettledMerge
INVARIANT PanicsExplained
