CONSTANTS
    Modules <- MCModules

SPECIFICATION Spec

INVARIANT
    ValidationExact
