CONSTANTS
    Modules <- MCModules

SPECIFICATION Spec

INVARIANTS
    TypeOK
    ValidationSound
    ValidationCompleteWhereWalked
