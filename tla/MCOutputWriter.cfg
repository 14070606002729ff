SPECIFICATION Spec
CONSTANTS
    j1 = j1
    f1 = f1
    f2 = f2
    Jobs = {j1}
    Files = {f1, f2}
    JobOf <- MCJobOf
    Size <- MCSize
    Buffers = {b1, b2}
    Workers = {w1, w2}
    None = None
    BufferSize = 2
    JobBudget = 3
    FileBudget = 3
    QueueLimit = 1
    MaxEvents = 1
INVARIANT WriterTypeOK
INVARIANT BytesAccounted
INVARIANT CloseIsLast
INVARIANT WholeOnSuccess
INVARIANT NoLostWake
