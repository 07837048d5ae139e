CONSTANTS
    Run = {r1}
    Platform = {cf}
    Number = {1}
    Cal = {k1}
    Dedicated = {TRUE, FALSE}
    MaxSaves = 1
    MaxExpiries = 0
    MaxFaults = 1
    MayRevoke = TRUE
    None = None
SPECIFICATION FairSpec
INVARIANT SyncInv
PROPERTIES EventuallySynced LockReleased SyncingEnds
