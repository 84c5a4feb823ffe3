CONSTANTS
    Categories <- MCCategories
    Windows = TRUE
    FatherSet = TRUE
    IntWidth = 32
    MaxHeaders = 3
    MaxSends = 3
    MaxStructs = 3
    WriteCanFail = TRUE
SPECIFICATION LogSpec
INVARIANT LogTypeOK
INVARIANT HeadersInOrder
CHECK_DEADLOCK FALSE
