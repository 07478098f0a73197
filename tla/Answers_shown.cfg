CONSTANTS
    Garbled = Garbled
    Null = Null
    Names = {"a", "b"}
    Leaves = {"noarch"}
    Packages <- MCPackages
    Outputs <- MCOutputs
    MaxCalls = 2
    MaxPending = 2
SPECIFICATION Spec
INVARIANT TypeOK
INVARIANT ReadsAsSent
INVARIANT ReadRoundTrip
INVARIANT BlankExplained
INVARIANT ErrorsTold
