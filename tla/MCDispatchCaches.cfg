CONSTANTS
    Types = {"T1", "T2"}
    Functions <- SomeFunctions
    Base <- SomeBase
    Sites <- SomeSites
    Groups <- SomeGroups
    Limit = 1
    MaxWorld = 3
    MaxFrames = 2
    MaxGeneration = 1
    OldWorldCalls = FALSE
SPECIFICATION Spec
INVARIANTS
    TypeOK
    DispatchFresh
    LayersAgree
PROPERTIES
    UnrelatedStayWarm
