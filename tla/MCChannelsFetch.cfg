\* A task in fetch and a task in take! wait for the same value.
CONSTANTS
    Task = {0, 1, 2}
    Main = 0
    Calls = {"schedule", "put", "take", "fetch"}
    MaxCalls = 6
    Capacities = {1}
SPECIFICATION ChannelSpec
INVARIANT NoLostWakeup
