\* One instrument with two guarded resources: every command that meets a guard,
\* against polls, trips and disconnects.
SPECIFICATION Spec
CONSTANTS
    Names = {psu}
    Resources = {volt, amp}
    Sessions = {s1, s2}
    NoOwner = NoOwner
    NoRes = NoRes
    Outcomes = {"ok", "exc", "timeout"}
    SafeOutcomes = {TRUE, FALSE}
    Commands = {"IADD", "IREMOVE", "IRESET", "IINIT", "ILOCK", "IUNLOCK", "IREAD", "IWATCH", "IUNWATCH"}
    Monitored = {}
    MaxTargets = 1
INVARIANTS
    StateMatchesFields
    OwnerWillRelease
    OwnerDuringCall
    GuardsOwned
    QueueMatchesTasks
    CommandIsQueued
PROPERTIES
    BrokenLeavesBy
SYMMETRY Interchangeable
CHECK_DEADLOCK FALSE
