SPECIFICATION MCFairSpec
CONSTANTS
    Window = 6
    PacketSize = 3
    SizeLimit = 64
    MaxBytes = 24
INVARIANTS
    WindowRespected
    StreamIntact
    WaitIsAnswered
PROPERTIES
    TransferCompletes
CHECK_DEADLOCK FALSE
