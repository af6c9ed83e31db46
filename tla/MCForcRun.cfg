CONSTANTS
    Commands <- MCCommands
    HexDigits <- MCHexDigits
    ContractIds <- MCContractIds
    None = None

SPECIFICATION Spec

INVARIANTS
    TypeOK
    NodeEffectsAsReported
    PanicsOnlyOnMalformedInput
