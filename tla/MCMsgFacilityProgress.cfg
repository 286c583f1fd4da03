\* Two put requests, one of which never has data, and a device request share the
\* connection, which may break at any time; every other callback is busy now and then.
SPECIFICATION FairSpec
CONSTANTS
    u = u
    i = i
    NoRequest = NoRequest
    UserRequests = {u}
    InternalRequests = {i}
    CloudIds = {1}
    MaxSessions = 3
    MaxId = 2
    MaxTransactions <- TwoClient
    CloudWindow = 1
    RecvWindow = 3
    MaxOut = 2
    MaxIn = 3
    MaxInbound = 1
    SendAnswers = {"continue", "busy"}
    TakeAnswers = {"continue", "busy"}
    StatusAnswers = {"continue"}
    BusyBuffers = {}
    StuckRequests = {i}
    CloudErrors = FALSE
    KeepAlives = FALSE
    Disconnects = TRUE
    Terminates = FALSE
    Resubmits = {}
INVARIANTS
    SessionsAccounted
    NothingDropped
    NoFault
PROPERTIES
    RequestsEnd
    ServiceSpec
