CONSTANTS
    Locations <- MCLocations
    KeyAt <- MCKeyAt
    FKeys <- MCFKeys
    FnMapping <- MCFnMapping
    Function = "Function"
    Invalid = "Invalid"
SPECIFICATION FairSpec
INVARIANTS
    DeliveredInSync
    IInv
PROPERTIES
    ImplementsKeyTask
    ShutdownCompletes
CHECK_DEADLOCK FALSE
