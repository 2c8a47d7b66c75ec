\* One monitored instrument, drivers that always return and a safe_state() that works.
SPECIFICATION Spec
CONSTANTS
    Names = {psu}
    Resources = {volt}
    Sessions = {s1, s2}
    NoOwner = NoOwner
    NoRes = NoRes
    Outcomes = {"ok", "drverr", "exc"}
    SafeOutcomes = {TRUE}
    Commands = {"IADD", "IRESET", "IINIT", "IALIGN", "IPING", "ILOCK", "IUNLOCK", "IREAD", "IWRITE", "IRAW", "ISAVE", "ILOAD", "IWAIT", "IWATCH", "IUNWATCH"}
    Monitored = {psu}
    MaxTargets = 1
INVARIANTS
    ThreeStrikes
    MeasOkMeansOwned
PROPERTIES
    IdleStaysSafe
SYMMETRY Interchangeable
CHECK_DEADLOCK FALSE
