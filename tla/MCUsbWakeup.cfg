CONSTANTS
    KeyStates <- MCKeyStates
    NoKeys <- MCNoKeys
SPECIFICATION Spec
INVARIANT WakeupSucceeds
CHECK_DEADLOCK FALSE
