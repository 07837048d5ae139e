CONSTANTS
    Run = {r1}
    Platform = {cf}
    Number = {1, 2}
    Cal = {k1}
    Dedicated = {TRUE, FALSE}
    MaxSaves = 0
    MaxExpiries = 0
    MaxFaults = 1
    MayRevoke = FALSE
    MaxDeletes = 1
    DeleteCap = 1
    None = None
SPECIFICATION DFairSpec
INVARIANTS DTypeOK NoRowsWithoutUser
PROPERTIES GrantRevoked EventuallyForgotten
