CONSTANTS
    Text = {a, b}
    Empty = Empty
    MaxPages = 2
    MaxItems = 3
    Documents <- MCDocuments
    PdfPages <- MCPdfPages
    Limits <- MCLimits
SPECIFICATION Spec
SYMMETRY Renamings
INVARIANTS
    TypeOK
    BufferMatchesFlag
    GroupsAsSpecified
    ObjectAsSpecified
CHECK_DEADLOCK FALSE
