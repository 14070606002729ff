SPECIFICATION Spec
CONSTANTS
    Jobs = {j1, j2}
    Fore = {j1}
    Workers = {w1, w2}
    None = None
    Capacity = 2
    QueueCapacity = 2
    MaxRetries = 1
    MaxChanges = 1
INVARIANT ExecutorTypeOK
INVARIANT CancelReaches
PROPERTY ShutdownDrains
