SPECIFICATION Spec
CONSTANTS
    a = a
    b = b
    c = c
    d = d
    t1 = t1
    t2 = t2
    Node = {a, b, c, d}
    Link <- Paw
    Thread = {t1, t2}
    Budget <- TwoMessages
    SingleThread = FALSE
    StartSequence <- Starts
    SeqMod = 8
    Everyone = Everyone
    NoSequence = NoSequence
INVARIANTS
    AtMostOnce
    LostOnlyToNewer
