\* The user cancels, stops and terminates while the connector works;
\* opening the transport takes time and fails, closing it takes time.
SPECIFICATION Spec
CONSTANTS
    put = put
    ping = ping
    NoRequest = NoRequest
    Requests = {put, ping}
    Pings = {ping}
    CloudIds = {3}
    NeedResponse = {put, ping, 3}
    Answered = {put, ping}
    Timed = {3}
    Segments <- OneSegment
    MaxSegments = 2
    MaxSessions = 2
    MaxMemory = 3
    MaxId = 3
    MaxCalls = 2
    Calls = {"cancel", "cancel_all", "stop", "finish", "terminate"}
    SendAnswers = {"continue"}
    TakeAnswers = {"continue"}
    StatusAnswers = {"continue"}
    NetAnswers = {"continue"}
    OpenAnswers = {"continue", "busy", "error"}
    CloseAnswers = {"continue", "busy"}
    MemoryBusy = FALSE
    Duplicates = FALSE
    LateOpen = FALSE
    LateErrors = FALSE
    FreedIntact = TRUE
INVARIANTS
    NobodyForgotten
PROPERTIES
    StopFinal
    ServiceSpec
CHECK_DEADLOCK FALSE
