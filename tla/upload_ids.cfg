SPECIFICATION Spec
CONSTANTS
    Capacity = 1
    Faults = {}
    FlashPages = 2
    BootPage = 1
    PageSize = 1
    ResetVector = 1
    Blank = 0
    BootCode = 6
    WordBits = 4
    DefaultId = 2
    DefaultDelay = 1
    MaxTicks = 0
    Ids = {1, 2, 3}
    Images <- OneWord
    ChunkWords = 1
    NoImage = NoImage
    MaxUploads = 1
    App = 5
    NewIds = {3}
    Others = {1}
INVARIANTS
    NoDanglingModule
    QueueNonEmpty
CHECK_DEADLOCK FALSE
