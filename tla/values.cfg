SPECIFICATION FairSpec
CONSTANTS
    NoVariable = NoVariable
    Ram = {"speed"}
    Eeprom = {}
    BootConfig = {"boot"}
    Outside = {"wild"}
    Size = 2
    Capacity = 1
    Faults = {"loseRequest", "loseAnswer"}
    Computed = {9}
    Deployments <- Deployed
    MaxUpdates = 1
    Modules = 2
    HeaderParts = 2
    EventParts = 2
    MaxEdits = 2
    MaxPolls = 1
INVARIANTS
    TypeOK
    NoTornValue
    LoopbackBacked
    RemoteInSync
    EditsInOrder
PROPERTIES
    AgreesEventually
CHECK_DEADLOCK FALSE
