\* One client whose session is replaced, reaped and lost by a restart.
CONSTANTS
    k1 = k1
    k2 = k2
    a1 = a1
    a2 = a2
    None = None
    MaxTasks = 3
    SessionKeys = {k1}
    AeadKeys = {a1, a2}
    ClientFrames <- Reconnect
    MaxSessions = 1
    AllowAnyScope = FALSE
    MaxReplies = 1
    QueueCap = 1
    MaxRestarts = 1
SPECIFICATION Spec
INVARIANTS
    TypeOK
    Confinement
    OneWriter
CHECK_DEADLOCK FALSE
