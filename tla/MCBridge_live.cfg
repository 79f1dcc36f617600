\* Every task is scheduled and every destination goes on reading.
CONSTANTS
    k1 = k1
    k2 = k2
    a1 = a1
    a2 = a2
    None = None
    MaxTasks = 3
    SessionKeys = {k1}
    AeadKeys = {a1, a2}
    ClientFrames <- OneClient
    MaxSessions = 1
    AllowAnyScope = FALSE
    MaxReplies = 1
    QueueCap = 1
    MaxRestarts = 0
SPECIFICATION LiveSpec
PROPERTIES
    TasksEnd
    AnswersLeave
    IdleReaped
CHECK_DEADLOCK FALSE
