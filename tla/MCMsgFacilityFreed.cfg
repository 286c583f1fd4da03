\* Device Cloud ends a message while one of its packets is in the send slot.
SPECIFICATION Spec
CONSTANTS
    u = u
    i = i
    NoRequest = NoRequest
    UserRequests = {u}
    InternalRequests = {}
    CloudIds = {}
    MaxSessions = 3
    MaxId = 3
    MaxTransactions <- OneEach
    CloudWindow = 1
    RecvWindow = 2
    MaxOut = 2
    MaxIn = 2
    MaxInbound = 2
    SendAnswers = {"continue"}
    TakeAnswers = {"continue"}
    StatusAnswers = {"continue"}
    BusyBuffers = {}
    StuckRequests = {}
    CloudErrors = TRUE
    KeepAlives = FALSE
    Disconnects = FALSE
    Terminates = FALSE
    Resubmits = {}
INVARIANTS
    NoFault
CHECK_DEADLOCK FALSE
