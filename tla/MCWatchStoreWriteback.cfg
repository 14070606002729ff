SPECIFICATION StoreSpec
CONSTANTS
    MaxSeq = 3
    BatchMax = 2
    MaxOwners = 1
    MaxQueue = 2
    MaxTickets = 2
    Seeds <- MCSeeds
    CompactRecords = 1
    HardRecords = 2
    Calls <- PowerCalls
    Faults <- PowerFaults
    MaxLoads = 2
    PerFileWriteback = TRUE
INVARIANT NeverRefused
CHECK_DEADLOCK FALSE
