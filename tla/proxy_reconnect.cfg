SPECIFICATION FairSpec
CONSTANTS
    Limits <- MCLimits
    CountCap = 3
    Reconfigure = FALSE
    StopDuringStart = FALSE
INVARIANTS
    EndedIsReported
    CountWithinLimit
PROPERTIES
    Recovers
