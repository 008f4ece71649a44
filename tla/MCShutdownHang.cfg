CONSTANTS
    KeyStates = {none, a}
    NoKeys = none
    Positions <- MCPositions
    SupplyStates <- MCSupplyStates
SPECIFICATION FairSpec
PROPERTY ShutdownFinishes
CHECK_DEADLOCK FALSE
