CONSTANTS
    Categories <- MCCategories
    Windows = TRUE
    FatherSet = TRUE
    IntWidth = 32
    MaxHeaders = 3
    MaxSends = 3
    MaxStructs = 3
    WriteCanFail = FALSE
SPECIFICATION LogSpec
INVARIANT NoHeaderLost
CHECK_DEADLOCK FALSE
