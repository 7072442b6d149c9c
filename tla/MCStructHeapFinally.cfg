CONSTANTS
    MaxHeap = 3
    MaxId = 3
    MaxHeld = 2
    MaxFinalizers = 1
    MaxObjects = 4
    Shapes = {"finally"}
SPECIFICATION Spec
INVARIANT NoDangling
