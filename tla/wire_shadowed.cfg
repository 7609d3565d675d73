SPECIFICATION Spec
CONSTANTS
    Unions <- MCUnions
    Structs <- MCStructs
    FreeKeys <- MCFreeKeys
INVARIANTS
    NoDataLoss
