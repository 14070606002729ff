SPECIFICATION FairStoreSpec
CONSTANTS
    MaxSeq = 2
    BatchMax = 2
    MaxOwners = 1
    MaxQueue = 2
    MaxTickets = 2
    Seeds <- MCSeeds
    CompactRecords = 1
    HardRecords = 2
    Calls <- CloseCalls
    Faults <- ErrorFaults
    MaxLoads = 1
    PerFileWriteback = FALSE
PROPERTY CloseTerminates
CHECK_DEADLOCK FALSE
