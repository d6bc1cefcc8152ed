CONSTANTS
    a = a
    b = b
    Cell = {a, b}
    Empty = Empty
    MaxSheets = 2
    MaxRows = 3
    MaxTotal = 3
    Workbooks <- MCWorkbooks
    Limits <- MCLimits
SPECIFICATION SheetSpec
INVARIANTS
    SheetTypeOK
    CollectionAsSpecified
    NoRowLost
    SheetsAsSpecified
CHECK_DEADLOCK FALSE
