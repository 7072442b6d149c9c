CONSTANTS
    Types = {"T1", "T2"}
    Functions <- SomeFunctions
    Base <- SomeBase
    Sites <- SomeSites
    Groups <- SomeGroups
    Limit = 2
    MaxWorld = 3
    MaxFrames = 2
    MaxGeneration = 0
    OldWorldCalls = TRUE
SPECIFICATION Spec
INVARIANT DispatchFresh
