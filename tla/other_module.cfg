SPECIFICATION Spec
CONSTANTS
    Capacity = 1
    Faults = {}
    FlashPages = 3
    BootPage = 2
    PageSize = 2
    ResetVector = 4
    Blank = 0
    BootCode = 6
    WordBits = 4
    DefaultId = 2
    DefaultDelay = 1
    MaxTicks = 0
    Ids = {1, 2, 3}
    Images <- OnePage
    ChunkWords = 1
    NoImage = NoImage
    MaxUploads = 1
    App = 5
    NewIds = {}
    Others = {1, 3}
INVARIANTS
    FeedbackFromTarget
CHECK_DEADLOCK FALSE
