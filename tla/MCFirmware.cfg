CONSTANTS
    KeyStates = {none, a}
    NoKeys = none
    Positions <- MCPositions
    SupplyStates <- MCSupplyStates
SPECIFICATION FairSpec
INVARIANTS
    
    OnlyShutdownStops
PROPERTIES
    ShutdownTellsAll
    LowBatteryOff
    QuietShutdownFinishes
CHECK_DEADLOCK FALSE
