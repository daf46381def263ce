SPECIFICATION FairSpec
CONSTANTS
    a = a
    b = b
    c = c
    k1 = k1
    k2 = k2
    k3 = k3
    SeqMod = 32
    Node <- Pair
    Chan <- PeeringChan
    Dialer <- PeeringDialer
    Acceptor <- PeeringAcceptor
    DataChannels = {k2}
    Closable = {k1, k2}
    Staged = FALSE
    MaxStateSequence = 14
    NoState = NoState
    NoChan = NoChan
    NoHop = NoHop
INVARIANTS
    NeighborsAreAnnounced
    OneStatePerSequence
PROPERTIES
    StatesNeverGoBack
    LinkedNodesAnnounceEachOther
