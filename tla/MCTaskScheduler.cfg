\* Three tasks, one of which may fail to start.
CONSTANTS
    MaxTasks = 3
    MaxStack = 2
    MaxHandlers = 1
    MaxSleep = 2
    Fallible = {2}
SPECIFICATION Spec
INVARIANTS
    TypeOK
    OneRunning
    QueueExact
    ContextExact
    TimersExact
    Isolation
    HandlersValid
    FailedSwitchRestores
    DeadlockGenuine
PROPERTY ImplementsCoop
