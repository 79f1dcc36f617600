\* Two threads that ask for an address in a region and one in none, over two bridges
\* whose measurements change.
CONSTANTS
    c1 = c1
    c2 = c2
    Callers = {c1, c2}
    ipEast = ipEast
    ipElse = ipElse
    east = east
    None = None
    Direct = Direct
    NumBridges = 2
    Ips = {ipEast, ipElse}
    RegionOf <- Region
    RegionRtt <- Published
    Rtts = {1, 3}
    DirectRtts = {8}
    Infinity = 8
    MarginMs = 2
    Interval = 1
    RecentCap = 2
    MaxNow = 1
    MaxHeld = 3
SPECIFICATION RouterSpec
INVARIANTS
    RouterTypeOK
    StaleBounded
    BridgeWorthIt
    RecentTellsCache
SYMMETRY Alike
