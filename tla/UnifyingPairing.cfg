CONSTANT ChannelCount = 3
SPECIFICATION PairingFairSpec
INVARIANTS
    InOrder
    AllChannelsTried
    QueueShort
PROPERTIES
    OnlyResponsesWait
CHECK_DEADLOCK FALSE
