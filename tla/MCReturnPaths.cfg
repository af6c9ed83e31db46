CONSTANTS
    Programs <- MCPrograms
    None = None
    MaxIterations = 50

SPECIFICATION Spec

INVARIANTS
    TypeOK
    StructuralErrorExact
    BuiltReachable
    FallthroughFlaggedLoopFree

PROPERTIES
    Termination
