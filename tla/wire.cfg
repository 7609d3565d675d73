SPECIFICATION Spec
CONSTANTS
    Unions <- MCUnions
    Structs <- MCStructs
    FreeKeys <- MCFreeKeys
INVARIANTS
    DecodesOwn
    RoundTrip
    UnknownKept
