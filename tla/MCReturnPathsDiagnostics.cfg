CONSTANTS
    Programs <- MCUnflaggedPrograms
    None = None
    MaxIterations = 50

SPECIFICATION Spec

INVARIANT
    DiagnosticsAsSpecified
