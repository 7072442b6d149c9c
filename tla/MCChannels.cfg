\* A buffered channel with one slot and an unbuffered one; fetch is left out
\* (MCChannelsFetch).
CONSTANTS
    Task = {0, 1, 2}
    Main = 0
    Calls = {"schedule", "put", "take", "iterate", "close", "bind", "empty"}
    MaxCalls = 7
    Capacities = {0, 1}
SPECIFICATION ChannelSpec
INVARIANTS
    ChannelTypeOK
    NoLostWakeup
    ClosedReleases
    Rendezvous
