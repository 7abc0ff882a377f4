SPECIFICATION Spec
CONSTANTS
    Limits <- MCLimits
    CountCap = 3
    Reconfigure = TRUE
    StopDuringStart = TRUE
INVARIANTS
    TypeOK
    ReadyHasAThread
    QuietWhenStopped
    SessionAnnounced
    StartNotStranded
    Inductive
PROPERTIES
    ImplementsLifecycle
