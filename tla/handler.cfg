SPECIFICATION FairSpec
CONSTANTS
    a = a
    b = b
    manager = manager
    plugin = plugin
    Messages <- TwoMessages
    Observers <- TwoObservers
    SendResults = {"OK", "OVERFLOW", "FAIL", "NOT_INITIALIZED"}
    MaxPushed = 3
    MaxReceived = 1
    MaxRegistered = 2
INVARIANTS
    TypeOK
    PermitsBalanced
PROPERTIES
    CallbacksRegistered
    SentInOrder
    DestructorReturns
    AllSent
CHECK_DEADLOCK FALSE
