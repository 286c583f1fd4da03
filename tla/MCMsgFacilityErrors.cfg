\* Two put requests of the user, which may be sent again, and a device request of two
\* packets; Device Cloud and the callbacks end messages with errors, allocations and status
\* callbacks answer busy, keepalives compete for the send buffer, connections break, ids
\* wrap and the connector is terminated.  It may read a freed session
\* (MCMsgFacilityFreed.cfg) or use a NULL context and stop.
SPECIFICATION Spec
CONSTANTS
    u = u
    i = i
    NoRequest = NoRequest
    UserRequests = {u, i}
    InternalRequests = {}
    CloudIds = {1}
    MaxSessions = 2
    MaxId = 2
    MaxTransactions <- TwoClient
    CloudWindow = 1
    RecvWindow = 2
    MaxOut = 1
    MaxIn = 2
    MaxInbound = 1
    SendAnswers = {"continue", "error"}
    TakeAnswers = {"continue", "error"}
    StatusAnswers = {"continue", "busy"}
    BusyBuffers = {"session", "put_request", "service"}
    StuckRequests = {}
    CloudErrors = TRUE
    KeepAlives = TRUE
    Disconnects = TRUE
    Terminates = TRUE
    Resubmits = {u}
INVARIANTS
    TypeOK
    IdsUnique
    NobodyForgotten
    BufferAccounted
    ErrorsNameTheirSession
    ToldOnce
CHECK_DEADLOCK FALSE
