CONSTANTS
    e1 = e1
    e2 = e2
    l1 = l1
    c1 = c1
    c2 = c2
    Extractor = {e1, e2}
    Loader = {l1}
    Host = host
    Chunker = {c1, c2}
    PadOf <- MCPadOf
    NoChunker = NoChunker
    Nobody = Nobody
    MaxGroups = 1
SPECIFICATION FairLifecycleSpec
INVARIANTS
    SafeTeardown
PROPERTIES
    CallReturns
    ExitCompletes
