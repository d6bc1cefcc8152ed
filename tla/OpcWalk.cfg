CONSTANTS
    MaxNodes = 8
    MaxItem = 3
    MaxStrings = 2
    MaxCells = 4
SPECIFICATION WalkSpec
INVARIANTS
    WalkTypeOK
    WalkAsSpecified
    TextKept
    WorkbookAsSpecified
