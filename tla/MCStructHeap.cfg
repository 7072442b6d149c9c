CONSTANTS
    MaxHeap = 3
    MaxId = 3
    MaxHeld = 2
    MaxFinalizers = 2
    MaxObjects = 4
    Shapes = {}
SPECIFICATION Spec
INVARIANTS
    TypeOK
    NoDangling
    WeakExact
    FinalizersExact
    FinalizersOnce
