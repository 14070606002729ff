SPECIFICATION FairStoreSpec
CONSTANTS
    MaxSeq = 1
    BatchMax = 2
    MaxOwners = 1
    MaxQueue = 2
    MaxTickets = 2
    Seeds <- MCSeeds
    CompactRecords = 1
    HardRecords = 2
    Calls <- SaveCalls
    Faults <- NoFaults
    MaxLoads = 1
    PerFileWriteback = FALSE
PROPERTY SaveTerminates
CHECK_DEADLOCK FALSE
