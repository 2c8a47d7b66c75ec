\* Commands, pipelines, subscribe() and listen(): timeouts, events in between, lost
\* connections.
SPECIFICATION FairSpec
CONSTANTS
    Channels = {kv, lock}
    MonitorsThere = TRUE
    MaxRequests = 4
    MaxPipeline = 2
    MaxInFlight = 2
INVARIANTS
    InStep
    
PROPERTIES
    CallEnds
CHECK_DEADLOCK FALSE
