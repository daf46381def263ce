SPECIFICATION Spec
CONSTANTS
    ByteMod = 4
    IdSize = 3
    KeySize = 1
    IvSize = 1
    TagSize = 1
    Ids <- Points
    Agreed <- Streams
    Inputs <- AllInputs
CHECK_DEADLOCK FALSE
INVARIANTS
    MessagesComeBack
    DamageIsNoticed
    BytesComeBack
PROPERTIES
    DecodingEnds
