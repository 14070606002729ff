SPECIFICATION FairWorkSpec
CONSTANTS
    j1 = j1
    j2 = j2
    j3 = j3
    j4 = j4
    A = A
    B = B
    Jobs <- FewJobs
    Requests <- MCRequests
    RequestOf <- FewRequestOf
    OriginOf <- FewOriginOf
    PriorityOf <- FewPriorityOf
    AgeStep = 2
    ThreadCapacity = 2
    MaxPending = 2
    MaySubmitFail = FALSE
PROPERTY RunReturns
PROPERTY CloseDrains
CHECK_DEADLOCK FALSE
