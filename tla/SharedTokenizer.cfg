CONSTANTS
    e1 = e1
    e2 = e2
    l1 = l1
    l2 = l2
    c1 = c1
    c2 = c2
    c3 = c3
    Extractor = {e1, e2}
    Loader = {l1, l2}
    Host = host
    Chunker = {c1, c2, c3}
    PadOf <- MCPadOf
    NoChunker = NoChunker
    Nobody = Nobody
    MaxGroups = 2
SPECIFICATION Spec
SYMMETRY Interchangeable
INVARIANTS
    TypeOK
    NoTornPair
    FreshTokenizer
    CountsHolders
PROPERTY AtomicCell
