CONSTANTS
    FewParts = 3
    MaxParts = 6
    MaxSections = 2
    Parts <- MCParts
    Sections <- MCSections
SPECIFICATION TextSpec
INVARIANTS
    TextTypeOK
    MsgBodyFound
    BodyIsMainText
    ResultWhole
CHECK_DEADLOCK FALSE
