CONSTANTS
    MaxTasks = 2
    MaxStack = 2
    MaxHandlers = 1
    MaxSleep = 0
    Fallible = {}
SPECIFICATION Spec
INVARIANT DeadlockCatchable
