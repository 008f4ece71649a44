CONSTANTS
    KeyStates <- MCKeyStates
    NoKeys <- MCNoKeys
SPECIFICATION FairSpec
INVARIANTS
    SixKeyReport
    IInv
PROPERTIES
    DroppedKeyWakes
    ImplementsUsbTask
    ShutdownHonoured
CHECK_DEADLOCK FALSE
