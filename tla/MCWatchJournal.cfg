SPECIFICATION Spec
CONSTANTS
    MaxSeq = 3
    BatchMax = 2
    MaxOwners = 2
    MaxQueue = 2
    MaxTickets = 2
    Seeds <- MCSeeds
INVARIANT TypeOK
INVARIANT DurableIsSynced
INVARIANT SealedIsClosed
INVARIANT NoConsistencyError
INVARIANT RetiredIsComplete
PROPERTY FlushFailureIsFinal
CHECK_DEADLOCK FALSE
