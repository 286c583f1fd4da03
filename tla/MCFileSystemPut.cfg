\* A write callback is busy after it has written a part of the first packet.
SPECIFICATION Spec
CONSTANTS
    Requests <- CutPuts
    OldSize = 3
    Entries <- ThreeEntries
    BufferSize = 3
    Errors = {}
    Busy = {"write"}
    Retries = {"cut_write"}
    CloudErrors = FALSE
    Loses = FALSE
INVARIANT
    ReplyIsTrue
CHECK_DEADLOCK FALSE
