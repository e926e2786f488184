CONSTANTS
    Chars <- MCChars
    UserDB <- MCUserDB
    GroupDB <- MCGroupDB
    MaxLen = 4
    W = 5
    CallerId = 5
    IdmapLen = 32
SPECIFICATION Spec
INVARIANTS
    TypeOK
    IdHandlerFollowsStrtod
