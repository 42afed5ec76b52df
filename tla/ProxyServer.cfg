CONSTANTS
    own1 = own1
    own2 = own2
    lan = lan
    Requests = {1, 2}
    Addresses <- MCAddresses
    Public <- MCPublic
    ExtraSelf = {}
    Local <- MCLocal
    SelfHosts <- MCSelfHosts
    HostAnswers <- MCHostAnswers
    TargetAnswers <- MCTargetAnswers
    MaxBytes = 2
SPECIFICATION FairSpec
INVARIANTS
    TypeOK
    NeverDialsKnownSelf
    FailsClosed
    InOrder
    AnswerDelivered
    TruncationVisible
    NothingLeftBehind
PROPERTIES
    LearnsNewAddress
    TunnelEnds
