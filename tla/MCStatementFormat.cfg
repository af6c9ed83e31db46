CONSTANTS
    Blocks <- MCBlocks
    None = None
    Indent = Indent
    Space = Space
    Newline = Newline
SPECIFICATION Spec
INVARIANTS
    TypeOK
    LeavesInSourceOrder
