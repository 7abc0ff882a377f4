SPECIFICATION SwdFairSpec
CONSTANTS
    AP <- MCPorts
    CpuAP = 0
    PageSize = 8
    Requests <- MCRequests
    MaxLost = 1
INVARIANTS
    OnlyRequestedBytes
    SuccessIsComplete
    ReportedErrorsHeal
    GoodCallSucceeds
    BankAgrees
    WindowOnDebugRegisters
    RecoveryAgrees
    SwdInductive
PROPERTIES
    CallEnds
