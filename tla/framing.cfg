\* Every stream of up to three requests, or of three replies, cut in every way.
SPECIFICATION Spec
CONSTANTS
    Parse <- ParserOf
    Byte <- Bytes
    Requests <- AllRequests
    Replies <- Answers
    MaxItems = 3
    MaxBufferSize = 19
    ReadSize = 4
INVARIANTS
    ParserContract
    DecodesWhatWasSent
    FailsOnlyForCause
    RaisesForErrors
CHECK_DEADLOCK FALSE
