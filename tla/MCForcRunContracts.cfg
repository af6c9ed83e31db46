CONSTANTS
    Commands <- MCManyCommands
    HexDigits <- MCHexDigits
    ContractIds <- MCManyContractIds
    None = None

SPECIFICATION Spec

INVARIANT
    OutputsNameTheirInput
