\* Answers of overlapping and replaced session objects on the shared channel.
CONSTANTS
    k1 = k1
    k2 = k2
    a1 = a1
    a2 = a2
    None = None
    MaxTasks = 2
    SessionKeys = {k1, k2}
    AeadKeys = {a1, a2}
    ClientFrames <- ThreeSyns
    MaxSessions = 1
    AllowAnyScope = TRUE
    MaxReplies = 2
    QueueCap = 2
    MaxRestarts = 1
SPECIFICATION Spec
INVARIANTS
    ReturnPath
    
    DownstreamInOrder
    LimitUpToOverlap
PROPERTIES
    RelayRefinement
CHECK_DEADLOCK FALSE
