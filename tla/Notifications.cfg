CONSTANTS
    Record = {r1, r2}
    Event = {e1, e2}
    Own = own
    Cap = 2
    MaxChunks = 2
    None = None
SPECIFICATION FairSpec
INVARIANTS NoticeInv CooldownRespected
PROPERTIES DrainComplete Progress
CHECK_DEADLOCK FALSE
