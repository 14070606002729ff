SPECIFICATION StoreSpec
CONSTANTS
    MaxSeq = 3
    BatchMax = 2
    MaxOwners = 1
    MaxQueue = 2
    MaxTickets = 2
    Seeds <- MCSeeds
    CompactRecords = 1
    HardRecords = 2
    Calls <- PowerCalls
    Faults <- PowerFaults
    MaxLoads = 3
    PerFileWriteback = FALSE
INVARIANT NeverRefused
INVARIANT SnapshotIsDurable
INVARIANT DurableIsSafe
PROPERTY ImplementsDurableLog
CHECK_DEADLOCK FALSE
