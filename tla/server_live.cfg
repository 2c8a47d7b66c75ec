\* Every command is answered and every session ends.
SPECIFICATION FairSpec
CONSTANTS
    Sessions = {s1, s2}
    NoSession = NoSession
    Keys = {freq}
    Reserved = {}
    Values = {v1}
    NoValue = NoValue
    AnyKey = AnyKey
    NoListener = NoListener
    JournalSize = 1
    Commands = {"KSET", "SUBSCRIBE", "MONITOR"}
    Channels <- KV
    MaxClients = 2
PROPERTIES
    CommandAnswered
    SessionEnds
CHECK_DEADLOCK FALSE
