\* Two local sources, their tunnels opened again after reaping, one relayed connection.
CONSTANTS
    l1 = l1
    l2 = l2
    None = None
    Locals = {l1, l2}
    MaxTunnels = 2
    MaxSpoken = 2
    MaxRelays = 1
    MaxForwarded = 1
    MaxAnswers = 1
SPECIFICATION FairSpec
INVARIANTS
    TypeOK
    FramesDistinct
PROPERTIES
    ServiceSpec
    IdleReaped
CHECK_DEADLOCK FALSE
