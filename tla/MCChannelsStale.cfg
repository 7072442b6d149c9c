\* A caught deadlock error leaves a stale entry in a queue of waiters.
CONSTANTS
    Task = {0, 1, 2}
    Main = 0
    Calls = {"schedule", "put", "take"}
    MaxCalls = 7
    Capacities = {1}
SPECIFICATION ChannelSpec
INVARIANT OperationsServed
