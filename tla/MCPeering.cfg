SPECIFICATION FairSpec
CONSTANTS
    a = a
    b = b
    Node = {a, b}
    Larger = b
    MaxConnects <- Twice
    MaxCalls = 2
    Others <- Full
    Losable <- Descriptions
    NoChannel = NoChannel
CHECK_DEADLOCK FALSE
INVARIANTS
    TypeOK
    NeighborUsesChannel
PROPERTIES
    OneOfferIsAccepted
    Negotiates
    OneConnectOpens
