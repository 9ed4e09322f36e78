SPECIFICATION FairSpec
CONSTANTS
    m1 = m1
    m2 = m2
    ram = ram
    unplaced = unplaced
    script = script
    Modules <- TwoModules
    Variables <- AnyKind
    Schedulable <- InMemory
    Requestable <- InTable
    Day = 4
    Timeout = 1
    MaxVariables = 2
    NoVariable = NoVariable
INVARIANTS
    TypeOK
    ScheduledIsOwned
    ActiveIsScheduled
    DetectedWithinDay
PROPERTIES
    OnlySilentDeactivated
    NoneStarves
