CONSTANTS
    Node = {n1, n2}
    Task = {t1}
    Msg = {m1, m2, m3, m4, b1}
    BadMsg = {b1}
    Handler = {h1, h2}
    Prefetch = 2
    MaxFaults = 1
    MaxPubErrs = 1
    MaxRequeue = 2
    None = None
SPECIFICATION Spec
SYMMETRY Symmetry
INVARIANTS NoTaskLost OneLiveOwner QueueInv AttemptsBounded
PROPERTIES ImplementsAtLeastOnce
CHECK_DEADLOCK FALSE
