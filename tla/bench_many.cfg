\* Two instruments: multi-instrument commands and disconnects that race
\* with the removal of an instrument.
SPECIFICATION Spec
CONSTANTS
    Names = {psu, dmm}
    Resources = {volt}
    Sessions = {s1, s2}
    NoOwner = NoOwner
    NoRes = NoRes
    Outcomes = {"ok", "drverr"}
    SafeOutcomes = {TRUE}
    Commands = {"IADD", "IREMOVE", "IALIGN", "ILOCK", "IUNLOCK", "IMREAD", "IWATCH"}
    Monitored = {}
    MaxTargets = 2
INVARIANTS
    OwnerWillRelease
    OwnerDuringCall
    QueueMatchesTasks
    CommandIsQueued
PROPERTIES
    LeaseSpec
SYMMETRY Interchangeable
CHECK_DEADLOCK FALSE
