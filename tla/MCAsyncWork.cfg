SPECIFICATION WorkSpec
CONSTANTS
    j1 = j1
    j2 = j2
    j3 = j3
    j4 = j4
    A = A
    B = B
    Jobs <- MCJobs
    Requests <- MCRequests
    RequestOf <- MCRequestOf
    OriginOf <- MCOriginOf
    PriorityOf <- MCPriorityOf
    AgeStep = 2
    ThreadCapacity = 1
    MaxPending = 3
    MaySubmitFail = TRUE
SYMMETRY Alike
INVARIANT WorkTypeOK
INVARIANT SlotsConserved
INVARIANT JoinBeforeReturn
INVARIANT OrderIsReady
INVARIANT ShutdownIsDrained
PROPERTY SettledOnce
PROPERTY ForegroundFirst
CHECK_DEADLOCK FALSE
