SPECIFICATION Spec
CONSTANTS
    Login = {l1, l2}
    Callback = {b1}
    Grant = {g1, g2}
    Validator = {v1}
    Reader = {}
    Click = {}
    MaxErrs = 0
    MaxTokenless = 0
    MaxRevokes = 1
    MaxClicks = 0
    MaxScheduled = 1
    None = None
PROPERTY DeletedOnlyIfRevoked
