SPECIFICATION Spec
CONSTANTS
    Jobs = {j1, j2}
    Monitor = monitor
    Directories = 1
    MaxChanges = 2
INVARIANT GateTypeOK
INVARIANT PermitIsHeld
INVARIANT SamplingAlive
INVARIANT EventsConverge
PROPERTY ResumeIsEarned
PROPERTY Recovers
