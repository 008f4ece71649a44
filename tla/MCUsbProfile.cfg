CONSTANTS
    KeyStates = {none, a}
    NoKeys = none
    Positions <- MCPositions
    SupplyStates <- MCSupplyStates
SPECIFICATION Spec
INVARIANT UsbProfileShutsDown
CHECK_DEADLOCK FALSE
