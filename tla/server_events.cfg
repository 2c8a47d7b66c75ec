\* Three sessions, two at a time: session and lock events and monitors against joins and leaves.
SPECIFICATION Spec
CONSTANTS
    Sessions = {s1, s2, s3}
    NoSession = NoSession
    Keys = {freq}
    Reserved = {}
    Values = {v1}
    NoValue = NoValue
    AnyKey = AnyKey
    NoListener = NoListener
    JournalSize = 1
    Commands = {"KDEL", "PING", "SUBSCRIBE", "UNSUBSCRIBE", "MONITOR"}
    Channels <- AtClose
    MaxClients = 2
INVARIANTS
    TypeOK
    NoResidue
    ModesExclusive
    DispatchConsistent
SYMMETRY Interchangeable
CHECK_DEADLOCK FALSE
