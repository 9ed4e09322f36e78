SPECIFICATION FairSpec
CONSTANTS
    Modulus = 8
    START_BYTE = 5
    FrameSize = 3
    RingSize = 6
    Requests <- OneByteRequests
    Answers <- OneByteAnswers
    MaxSent = 3
    MaxLost = 2
INVARIANTS
    TypeOK
    RingIsFifo
    RingRecovers
    PermitsMatch
    InOrder
    CostOfLoss
PROPERTIES
    AllArrive
CHECK_DEADLOCK FALSE
