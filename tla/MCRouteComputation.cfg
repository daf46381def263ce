SPECIFICATION FairSpec
CONSTANTS
    a = a
    b = b
    c = c
    Node <- MCNode
    Local = a
    NoNode = NoNode
INVARIANTS
    TypeOK
    PublishesDirectRoutes
PROPERTY
    Terminates
