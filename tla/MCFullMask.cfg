CONSTANTS
    Hex <- MCHex
    Others <- MCOthers
    MaxLen = 4
    W = 4
SPECIFICATION Spec
INVARIANTS
    FullMaskOnlyWhenWritten
