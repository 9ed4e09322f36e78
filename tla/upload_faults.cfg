SPECIFICATION DrainedSpec
CONSTANTS
    Capacity = 2
    Faults = {"loseRequest", "loseAnswer"}
    FlashPages = 3
    BootPage = 2
    PageSize = 2
    ResetVector = 4
    Blank = 0
    BootCode = 6
    WordBits = 4
    DefaultId = 2
    DefaultDelay = 1
    MaxTicks = 1
    Ids = {2}
    Images <- OneOrTwoPages
    ChunkWords = 1
    NoImage = NoImage
    MaxUploads = 2
    App = 5
    NewIds = {}
    Others = {}
INVARIANTS
    TypeOK
    BootableMeansWhole
    DoneUnlessAnswerLost
PROPERTIES
    ImplementsUpdate
CHECK_DEADLOCK FALSE
