\* Three driver calls, by threads and by the event loop, on a transport that may be
\* opened anew.
SPECIFICATION Spec
CONSTANTS
    Links = {"socket", "serial"}
    Jobs = {"read", "init", "watch", "connect", "info", "safe"}
    MaxCalls = 3
    MaxGens = 2
INVARIANTS
    AnswersOwnQuery
CHECK_DEADLOCK FALSE
