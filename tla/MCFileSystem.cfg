\* Every request, answered by callbacks that fail in every way and are busy at every
\* moment but those of Retries; Device Cloud may end the session, the connection may be
\* lost.
SPECIFICATION FairSpec
CONSTANTS
    Requests <- AllRequests
    OldSize = 3
    Entries <- ThreeEntries
    BufferSize = 3
    Errors = {"error", "unset", "unrecognized", "abort"}
    Busy = {"seek_end", "seek_set", "read", "write", "truncate", "readdir", "close", "open", "opendir", "stat", "stat_entry", "hash", "remove"}
    Retries = {}
    CloudErrors = TRUE
    Loses = TRUE
INVARIANTS
    CallbacksInOrder
    ClosedWhenDone
    ReplyIsTrue
PROPERTIES
    RequestEnds
CHECK_DEADLOCK FALSE
