\* The user stops the transport at any time; nothing else goes wrong.
SPECIFICATION Spec
CONSTANTS
    Manual = FALSE
    Password = TRUE
    Provisioned = FALSE
    OpenAnswers = {"continue"}
    SendAnswers = {"continue"}
    ReceiveAnswers = {"continue"}
    CloseAnswers = {"continue"}
    StopAnswers = {"continue"}
    ConfigAnswers = {"continue"}
    Reconnects = {TRUE}
    CloudMessages = {}
    Calls = {"stop"}
    MaxCalls = 1
    MaxTroubles = 0
    MaxRedirects = 0
    MaxUrls = 2
    LateCalls = FALSE
    Overlaps = {}
INVARIANTS
    StopCloses
