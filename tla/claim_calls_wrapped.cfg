\* README.md:929.
SPECIFICATION FairSpec
CONSTANTS
    Links = {"socket"}
    Jobs = {"read", "watch", "connect", "info", "safe"}
    MaxCalls = 2
    MaxGens = 2
PROPERTIES
    CallsWrapped
CHECK_DEADLOCK FALSE
