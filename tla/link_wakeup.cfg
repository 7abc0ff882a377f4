SPECIFICATION LinkSpec
CONSTANTS
    Limits <- MCLimits
    CountCap = 1
    Reconfigure = FALSE
    StopDuringStart = FALSE
    Requests = 2
INVARIANTS
    NoFalseWakeUp
