CONSTANTS
    Undefined = Undefined
    Given <- MCGiven
SPECIFICATION Spec
INVARIANTS
    TypeOK
    ReturnedAtEnd
    SuccessMeansParsed
    ReleasedUnlessThrown
CHECK_DEADLOCK FALSE
