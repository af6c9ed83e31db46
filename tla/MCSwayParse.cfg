CONSTANTS
    Programs <- MCPrograms
    None = None

SPECIFICATION Spec

INVARIANTS
    TypeOK
    RoundTripUnlessMutFirst
    RejectsExactlyInvalid
