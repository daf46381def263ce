SPECIFICATION FairSpec
CONSTANTS
    a = a
    b = b
    c = c
    k1 = k1
    k2 = k2
    k3 = k3
    SeqMod = 32
    Node <- Trio
    Chan <- TriangleChan
    Dialer <- TriangleDialer
    Acceptor <- TriangleAcceptor
    DataChannels = {}
    Closable = {}
    Staged = TRUE
    MaxStateSequence = 14
    NoState = NoState
    NoChan = NoChan
    NoHop = NoHop
INVARIANTS
    TypeOK
    OwnStateIsNewest
    GraphMatchesStates
    RouteIsNextHop
PROPERTIES
    Converges
