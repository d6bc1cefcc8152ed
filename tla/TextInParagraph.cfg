CONSTANTS
    MaxNodes = 5
    MaxItem = 1
    MaxStrings = 1
    MaxCells = 1
SPECIFICATION WalkSpec
INVARIANT TextInParagraph
