SPECIFICATION LinkFairSpec
CONSTANTS
    Limits <- MCLimits
    CountCap = 1
    Reconfigure = FALSE
    StopDuringStart = FALSE
    Requests = 1
PROPERTIES
    StopReturns
