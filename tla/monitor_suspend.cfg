SPECIFICATION MonitorFairSpec
CONSTANTS
    gui = gui
    run = run
    Monitor = Monitor
    Free = Free
    Recovery = TRUE
    Users <- MCUser
    Readers <- MCUser
PROPERTIES
    SuspendReturns
CHECK_DEADLOCK FALSE
