\* Two local connections, two chunks on each, a bridge that opens one of them.
CONSTANTS
    None = None
    MaxConns = 2
    MaxChunks = 2
    MaxHeard = 2
    MaxRelays = 1
    MaxForwarded = 1
    MaxAnswers = 2
SPECIFICATION FairSpec
INVARIANTS
    TypeOK
    OneStream
    HeardInOrder
PROPERTIES
    ServiceSpec
    EndsTogether
CHECK_DEADLOCK FALSE
