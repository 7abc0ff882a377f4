SPECIFICATION LinkFairSpec
CONSTANTS
    Limits <- MCLimits
    CountCap = 1
    Reconfigure = FALSE
    StopDuringStart = FALSE
    Requests = 2
INVARIANTS
    LinkTypeOK
    ReplyMatches
    PageIsOwned
    InStep
PROPERTIES
    ImplementsProxy
    RequestReturns
