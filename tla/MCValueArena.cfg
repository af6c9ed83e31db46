CONSTANTS
    u64 = u64
    m1 = m1
    m2 = m2
    Types <- MCTypes
    Sources <- MCSources
    None = None
    MaxValues = 3
    MaxMetadata = 3

SPECIFICATION Spec

CHECK_DEADLOCK FALSE

INVARIANTS
    TypeOK
    ProvenanceKept
