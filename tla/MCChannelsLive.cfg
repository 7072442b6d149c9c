\* Tasks parked in wait and in a one-slot channel when what they wait for ends.
CONSTANTS
    Task = {0, 1, 2}
    Main = 0
    Calls = {"schedule", "schedule_error", "wait", "put", "take", "fetch",
             "close", "bind"}
    MaxCalls = 5
    Capacities = {1}
SPECIFICATION ChannelFairSpec
PROPERTIES
    WaitReturns
    CloseFrees
