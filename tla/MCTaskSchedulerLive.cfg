CONSTANTS
    MaxTasks = 3
    MaxStack = 1
    MaxHandlers = 0
    MaxSleep = 1
    Fallible = {}
SPECIFICATION FairSpec
PROPERTIES
    RunnableRuns
    SleeperWakes
