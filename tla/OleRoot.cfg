SPECIFICATION Spec
CONSTANTS
    Names = {"Subject", "NormalizedSubject", "SenderName", "SentRepresentingName", "DisplayTo", "Body"}
    MaxItems = 3
    MaxBefore = 0
    MaxAfter = 2
    MaxPieces = 2
    Byte = {0, 1}
    Prefix <- MCPrefix
    DictSize = 4
    ControlBits = 2
    Lengths = {2, 3}
    MaxRaw = 2
    MaxOut = 5
    MaxRecords = 2
    MaxMembers = 2
    MaxAtoms = 2
    BodyLengths = {4, 8}
INVARIANTS
    TypeOK
    RootAsSpecified
    SlidesAsSpecified
    WindowIsHistory
PROPERTIES
    ReferenceRepeats
CHECK_DEADLOCK FALSE
