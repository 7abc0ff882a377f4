SPECIFICATION Spec
CONSTANTS
    Limits <- MCLimits
    CountCap = 3
    Reconfigure = FALSE
    StopDuringStart = FALSE
PROPERTIES
    DisabledMeansDisabled
