\* A device without an id connects by itself, is refused, disconnected and redirected once.
\* Callbacks are busy, fail and abort; the user calls at any time, but not across a
\* redirect or a slow close.
SPECIFICATION FairSpec
CONSTANTS
    Manual = FALSE
    Password = FALSE
    Provisioned = FALSE
    OpenAnswers = {"continue", "busy", "error"}
    SendAnswers = {"continue", "busy", "error"}
    ReceiveAnswers = {"continue", "busy", "error", "abort"}
    CloseAnswers = {"continue", "busy", "abort"}
    StopAnswers = {"continue", "busy", "abort"}
    ConfigAnswers = {"continue"}
    Reconnects = {TRUE}
    CloudMessages = {"refuse", "disconnect", "redirect"}
    Calls = {"start", "stop", "stop_all", "terminate"}
    MaxCalls = 2
    MaxTroubles = 1
    MaxRedirects = 1
    MaxUrls = 1
    LateCalls = TRUE
    Overlaps = {}
INVARIANTS
    NoFault
    HandshakeInOrder
    NetworkMatchesState
    EndIsFinal
PROPERTIES
    CallsEnd
    Connects
