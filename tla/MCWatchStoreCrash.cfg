SPECIFICATION StoreSpec
CONSTANTS
    MaxSeq = 3
    BatchMax = 2
    MaxOwners = 1
    MaxQueue = 2
    MaxTickets = 2
    Seeds <- MCSeeds
    CompactRecords = 1
    HardRecords = 2
    Calls <- CrashCalls
    Faults <- CrashFaults
    MaxLoads = 2
    PerFileWriteback = FALSE
INVARIANT StoreTypeOK
INVARIANT WrittenIsRecoverable
PROPERTY NoAppendAfterTear
PROPERTY ImplementsDurableLog
CHECK_DEADLOCK FALSE
