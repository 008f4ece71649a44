CONSTANT Samples <- MCSamples
SPECIFICATION FairSpec
INVARIANTS
    MeasuredAtRest
    DownAtRest
PROPERTIES
    LowSwitchesOff
    SwitchActedOn
