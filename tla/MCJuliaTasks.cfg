\* Three tasks, six library calls in all, every library function.
CONSTANTS
    Task = {0, 1, 2}
    Main = 0
    Calls = {"schedule", "schedule_error", "wait", "yield", "sleep",
             "wait_condition", "notify"}
    MaxCalls = 6
SPECIFICATION TaskSpec
INVARIANTS
    TaskTypeOK
    NoMissedExit
    NoSpuriousWake
PROPERTY DoneIsFinal
