CONSTANTS
    MaxTokens = 7
    MaxLength = 5
    ParagraphLists <- MCParagraphLists
    Lengths <- MCLengths
    Ratios <- MCRatios
SPECIFICATION Spec
INVARIANTS
    TypeOK
    NothingLost
    ChunksAsSpecified
CHECK_DEADLOCK FALSE
