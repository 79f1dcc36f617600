\* smart.rs: without direct round trips always a bridge.
CONSTANTS
    p1 = p1
    p2 = p2
    d1 = d1
    d2 = d2
    ipEast = ipEast
    ipWest = ipWest
    east = east
    west = west
    loop = loop
    Callers = {loop}
    None = None
    Direct = Direct
    NumBridges = 1
    Ips = {ipEast}
    RegionOf <- Region
    RegionRtt <- Published
    Rtts = {1}
    DirectRtts = {100}
    Infinity = 100
    MarginMs = 2
    Interval = 1
    RecentCap = 1
    MaxNow = 1
    MaxHeld = 3
    Ports = {p1}
    Dests = {d1}
    IpOf <- Address
    DirectRtt <- NoDirect
    Seeds <- Estimates
    SharedRouter = FALSE
    MaxSends = 1
SPECIFICATION Spec
PROPERTIES
    BridgeWithoutDirect
CHECK_DEADLOCK FALSE
