SPECIFICATION Spec
CONSTANTS
    Capacity = 2
    Faults = {"powerLoss"}
    FlashPages = 3
    BootPage = 2
    PageSize = 2
    ResetVector = 4
    Blank = 0
    BootCode = 6
    WordBits = 4
    DefaultId = 2
    DefaultDelay = 1
    MaxTicks = 1
    Ids = {2}
    Images <- TwoPages
    ChunkWords = 1
    NoImage = NoImage
    MaxUploads = 1
    App = 5
    NewIds = {}
    Others = {}
INVARIANTS
    BootableMeansWhole
CHECK_DEADLOCK FALSE
