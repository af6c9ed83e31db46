CONSTANTS
    Programs <- MCPrograms
    None = None

SPECIFICATION Spec

INVARIANTS
    RoundTrip
