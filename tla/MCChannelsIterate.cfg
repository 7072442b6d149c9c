\* The bound producer exits while the consumer is parked in iterate.
CONSTANTS
    Task = {0, 1, 2}
    Main = 0
    Calls = {"schedule", "put", "iterate", "bind"}
    MaxCalls = 5
    Capacities = {0}
SPECIFICATION ChannelSpec
INVARIANT IterationEnds
