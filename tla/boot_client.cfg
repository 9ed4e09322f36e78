SPECIFICATION Spec
CONSTANTS
    Capacity = 1
    Faults = {"powerLoss"}
    FlashPages = 4
    BootPage = 2
    PageSize = 2
    ResetVector = 9
    Blank = 15
    BootCode = 10
    WordBits = 4
    DefaultId = 2
    DefaultDelay = 1
    MaxTicks = 1
    App = 5
    Requests <- MCRequests
CONSTRAINT ClientWaits
INVARIANTS
    TypeOK
    BootloaderIntact
    ResetVectorKept
    FirstPageGuarded
    WritePrepared
PROPERTIES
    IdKept
    PageWrittenBeforeAck
CHECK_DEADLOCK FALSE
