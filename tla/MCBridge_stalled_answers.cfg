\* session.rs: the two paths do not contend on a single mutex.
CONSTANTS
    k1 = k1
    k2 = k2
    a1 = a1
    a2 = a2
    None = None
    MaxTasks = 3
    SessionKeys = {k1, k2}
    AeadKeys = {a1, a2}
    ClientFrames <- Stall
    MaxSessions = 2
    AllowAnyScope = TRUE
    MaxReplies = 1
    QueueCap = 1
    MaxRestarts = 0
SPECIFICATION StallSpec
PROPERTIES
    UnblockedAnswersLeave
CHECK_DEADLOCK FALSE
