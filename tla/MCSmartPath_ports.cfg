\* Two games, two destinations in different regions, a capture loop and two listeners;
\* routes change, entries are reaped.
CONSTANTS
    p1 = p1
    p2 = p2
    d1 = d1
    d2 = d2
    ipEast = ipEast
    ipWest = ipWest
    east = east
    west = west
    loop = loop
    Callers = {loop}
    None = None
    Direct = Direct
    NumBridges = 2
    Ips = {ipEast, ipWest}
    RegionOf <- Region
    RegionRtt <- Published
    Rtts = {1}
    DirectRtts = {5, 9}
    Infinity = 9
    MarginMs = 2
    Interval = 1
    RecentCap = 1
    MaxNow = 1
    MaxHeld = 4
    Ports = {p1, p2}
    Dests = {d1, d2}
    IpOf <- Address
    DirectRtt <- EastOnly
    Seeds <- Estimates
    SharedRouter = TRUE
    MaxSends = 2
SPECIFICATION FairSpec
INVARIANTS
    TypeOK
    ServedExactly
    RoutesJustified
PROPERTIES
    QueuesDrain
CHECK_DEADLOCK FALSE
