\* A request of the user and one of Device Cloud, in two segments each; memory runs out,
\* callbacks are busy or fail, datagrams are lost, Device Cloud answers nothing; the user
\* stops the transport once its sessions are done.
SPECIFICATION FairSpec
CONSTANTS
    put = put
    ping = ping
    NoRequest = NoRequest
    Requests = {put}
    Pings = {}
    CloudIds = {1}
    NeedResponse = {put}
    Answered = {}
    Timed = {put, 1}
    Segments <- TwoSegments
    MaxSegments = 2
    MaxSessions = 1
    MaxMemory = 2
    MaxId = 1
    MaxCalls = 1
    Calls = {"finish", "again"}
    SendAnswers = {"continue", "busy", "error"}
    TakeAnswers = {"continue", "error"}
    StatusAnswers = {"continue"}
    NetAnswers = {"continue", "busy", "partial", "error"}
    OpenAnswers = {"continue"}
    CloseAnswers = {"continue"}
    MemoryBusy = TRUE
    Duplicates = FALSE
    LateOpen = FALSE
    LateErrors = FALSE
    FreedIntact = TRUE
INVARIANTS
    
    DeliveredInOrder
    SessionsAccounted
PROPERTIES
    RequestsEnd
    StopEnds
CHECK_DEADLOCK FALSE
