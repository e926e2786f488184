CONSTANTS
    Chars <- MCChars
    MaxLen = 7
    Hex <- MCHex
    W = 3
SPECIFICATION Spec
INVARIANT
    PositionalFields
