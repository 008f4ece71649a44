CONSTANT Samples <- MCSamples
SPECIFICATION FairSpec
INVARIANTS
    DeliveredInSync
    CableNotMissed
    IInv
PROPERTIES
    ImplementsSupplyTask
    UnpluggedRests
    CableReported
CHECK_DEADLOCK FALSE
