SPECIFICATION Spec
CONSTANTS
    Ids = {i1}
    Transactions = {t1, t2, t3, t4, t5, t6}
    Handles = {h1, h2}
    None = None
    Gone = Gone
    Started = Started
    MaxSessions = 2
    MaxOwn = 3
    Requests <- AllRequests
    Units = 2
    MaxRequests = 3
    MaxInbound = 2
    MaxLosses = 1
    Busy = {"restart", "receive", "end_close", "end_error", "end_response", "send", "execute", "poll"}
    Refuses = TRUE
    CloudErrors = TRUE
    Troubles = {}
INVARIANTS
    SessionsAccounted
    NobodyStranded
    AppAgrees
    DataKept
CHECK_DEADLOCK FALSE
