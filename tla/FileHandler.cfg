SPECIFICATION Spec
CHECK_DEADLOCK FALSE
CONSTANTS
    Lines = {a, b, c}
    OldLine = old
    Terminated = {a, old}
    MaxOld = 2
    MaxOpens = 2
    a = a
    b = b
    c = c
    old = old
INVARIANTS
    TypeOK
    DrainedByClose
    NoLostWakeUp
    ContentIsLog
    ReadLinesSeeFile
PROPERTIES
    CloseIsBounded
    ImplementsWriteLog
    AsyncCompletes
    CloseReturns
