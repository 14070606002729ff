SPECIFICATION FairSpec
CONSTANTS
    MaxSeq = 2
    BatchMax = 2
    MaxOwners = 2
    MaxQueue = 2
    MaxTickets = 2
    Seeds <- MCSeedsFresh
PROPERTY TicketsReturn
PROPERTY ReleaseRetires
CHECK_DEADLOCK FALSE
