CONSTANTS
    Locations <- MCLocations
    KeyAt <- MCKeyAt
    FKeys <- MCFKeys
    FnMapping <- MCFnMapping
    Function = "Function"
    Invalid = "Invalid"
    Intervals <- MCIntervals
SPECIFICATION Spec
INVARIANTS
    MinDwell
    Responsive
    FnMappingSimultaneous
    IInv
