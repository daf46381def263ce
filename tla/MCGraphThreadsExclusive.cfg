SPECIFICATION Spec
CONSTANTS
    c1 = c1
    c2 = c2
    c3 = c3
    a = a
    b = b
    x = x
    y = y
    Chan = {c1, c2}
    Peers = {a}
    Peer <- PeerOfTwo
    Stranger = {x}
    Closable = {c1, c2}
    MaxCallbacks = 2
    NoChan = NoChan
SYMMETRY Symmetric
INVARIANTS
    UpdatesAreExclusive
