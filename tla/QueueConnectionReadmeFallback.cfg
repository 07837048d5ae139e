CONSTANTS
    Consumer = {extraction, sync}
    Conn = {c1, c2}
    Pub = {p1}
    MemCap = 1
    Sem = 1
    MaxFaults = 0
    None = None
SPECIFICATION FairSpec
PROPERTIES FallbackTasksHandled
CHECK_DEADLOCK FALSE
