SPECIFICATION FairSpec
INVARIANTS
    NoMissedEdge
    IInv
PROPERTIES
    ImplementsSwitchTask
    RestReported
CHECK_DEADLOCK FALSE
