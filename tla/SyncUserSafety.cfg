CONSTANTS
    Run = {r1, r2}
    Platform = {cf}
    Number = {1}
    Cal = {}
    Dedicated = {FALSE}
    MaxSaves = 1
    MaxExpiries = 1
    MaxFaults = 1
    MayRevoke = FALSE
    None = None
SPECIFICATION Spec
INVARIANTS OverlapBounded NoUnselectedRows LedgerSound
PROPERTIES ImplementsMutex
SYMMETRY Symmetry
