\* One monitored instrument with a guard: pings, polls and commands compete for
\* its lock, under fairness.
SPECIFICATION FairSpec
CONSTANTS
    Names = {psu}
    Resources = {volt}
    Sessions = {s1, s2}
    NoOwner = NoOwner
    NoRes = NoRes
    Outcomes = {"ok", "exc", "timeout"}
    SafeOutcomes = {TRUE}
    Commands = {"IADD", "IREMOVE", "IRESET", "IALIGN", "IPING", "ILOCK", "IUNLOCK", "IWATCH"}
    Monitored = {psu}
    MaxTargets = 1
INVARIANTS
    TypeOK
    QueueMatchesTasks
PROPERTIES
    CommandEnds
CHECK_DEADLOCK FALSE
