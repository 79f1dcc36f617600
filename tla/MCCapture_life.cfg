\* Three starts around two stops, two datagrams, three configurations.
CONSTANTS
    game = game
    local = local
    relay = relay
    None = None
    Ips = {game, local, relay}
    Ports = {1, 2}
    Setups <- MCSetups
    MaxLoops = 3
    MaxStops = 2
    MaxSends = 2
SPECIFICATION FairSpec
INVARIANTS
    TypeOK
    LoopsUpToStops
    CapturesUntilStopped
    NoCaptureLoop
PROPERTIES
    StopEnds
CHECK_DEADLOCK FALSE
