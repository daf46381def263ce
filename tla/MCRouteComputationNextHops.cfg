SPECIFICATION Spec
CONSTANTS
    a = a
    b = b
    c = c
    Node <- MCNode
    Local = a
    NoNode = NoNode
INVARIANT
    ComputesNextHops
