SPECIFICATION MonitorFairSpec
CONSTANTS
    gui = gui
    run = run
    Monitor = Monitor
    Free = Free
    Recovery = TRUE
    Users <- MCUsers
    Readers <- MCUser
INVARIANTS
    CountBalanced
    SuspendedIsQuiet
    NoLostWakeUp
    MonitorInductive
PROPERTIES
    KillEnds
CHECK_DEADLOCK FALSE
