CONSTANTS
    Requests <- MCRequests
    MaxChunks = 2
    RequestLogFields <- MCRequestLogFields
    ResponseLogFields <- MCResponseLogFields
    IncludeCompressedBody = FALSE
    NoBody = NoBody
    Withheld = Withheld
INIT Init
NEXT Next
INVARIANTS
    RequestLoggedBeforeResponse
    LoggedBodyIsTriggeringChunk
\* Every request finishes; the server then has nothing left to do.
CHECK_DEADLOCK FALSE
