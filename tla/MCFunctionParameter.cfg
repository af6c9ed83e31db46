CONSTANTS
    Functions <- MCFunctions
    Scopes <- MCScopes
    KnownTypes = {"u64"}
    SelfType = "Contract"
    Generics = {"T"}
    TypeMapping <- MCTypeMapping
    None = None

SPECIFICATION Spec

INVARIANTS
    TypeOK
    ScopeAfterParams
