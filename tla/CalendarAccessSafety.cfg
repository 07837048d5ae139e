SPECIFICATION Spec
CONSTANTS
    Login = {l1, l2}
    Callback = {b1, b2}
    Grant = {g1, g2}
    Validator = {}
    Reader = {r1}
    Click = {m1}
    MaxErrs = 1
    MaxTokenless = 1
    MaxRevokes = 1
    MaxClicks = 1
    MaxScheduled = 0
    None = None
SYMMETRY Symmetry
INVARIANTS StateUsedOnce AccessMatchesToken AccessInv
PROPERTIES TokenNeverLost OneLoginSafe
