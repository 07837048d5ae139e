CONSTANTS
    Consumer = {extraction, sync}
    Conn = {c1, c2}
    Pub = {p1, p2}
    MemCap = 1
    Sem = 1
    MaxFaults = 1
    None = None
SPECIFICATION FairSpec
INVARIANTS NoConnectionLeak ConnInv
PROPERTIES SelfHealing ConsumersStop MemoryTasksHandled
CHECK_DEADLOCK FALSE
