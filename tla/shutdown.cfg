\* The server is interrupted or stopped while clients connect, write keys, subscribe and hang up.
SPECIFICATION StopSpec
CONSTANTS
    Sessions = {s1, s2}
    NoSession = NoSession
    Keys = {freq}
    Reserved = {}
    Values = {v1}
    NoValue = NoValue
    AnyKey = AnyKey
    NoListener = NoListener
    JournalSize = 0
    Commands = {"SUBSCRIBE", "KSET"}
    Channels <- Published
    MaxClients = 2
    WaitsForClients = TRUE
INVARIANTS
    ClosedLeavesNothing
PROPERTIES
    StopEnds
CHECK_DEADLOCK FALSE
