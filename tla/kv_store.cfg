\* Two sessions, every KV command over a plain and a reserved key, filtered subscriptions.
SPECIFICATION Spec
CONSTANTS
    Sessions = {s1, s2}
    NoSession = NoSession
    Keys = {freq, sys}
    Reserved = {sys}
    Values = {v1, v2}
    NoValue = NoValue
    AnyKey = AnyKey
    NoListener = NoListener
    JournalSize = 2
    Commands = {"KSET", "KMSET", "KDEL", "KFLUSH", "JOURNAL", "KGET", "SUBSCRIBE", "UNSUBSCRIBE"}
    Channels <- KVFiltered
    MaxClients = 2
INVARIANTS
    RoLease
    JournalWindows
PROPERTIES
    RoProtected
    KeySpec
SYMMETRY Interchangeable
CHECK_DEADLOCK FALSE
