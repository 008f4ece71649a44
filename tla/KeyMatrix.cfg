CONSTANTS
    ROWS = 2
    BYTE = 1
SPECIFICATION Spec
INVARIANTS
    ScanBetween
    IInv
PROPERTY ImplementsScan
