CONSTANTS
    Node = {n1}
    Task = {t1}
    Msg = {m1, m2, m3, m4, m5}
    BadMsg = {}
    Handler = {h1, h2}
    Prefetch = 1
    MaxFaults = 1
    MaxPubErrs = 0
    MaxRequeue = 2
    None = None
SPECIFICATION FairSpec
PROPERTIES EventuallyResolved
CHECK_DEADLOCK FALSE
