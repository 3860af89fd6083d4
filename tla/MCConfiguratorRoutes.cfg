SPECIFICATION RoutesSpec
INVARIANTS
    RoutesPersisted
    ResolverKept
CHECK_DEADLOCK FALSE
CONSTANTS
    default = default
    net1 = net1
    net2 = net2
    far = far
    a1 = a1
    a2 = a2
    g1 = g1
    noGateway = noGateway
    netplan = netplan
    networkd = networkd
    s1 = s1
    s2 = s2
    Destinations = {default, net1, net2, far}
    Default = default
    Hops = {g1}
    NoHop = noGateway
    Metrics = {0, 1}
    Addresses = {a1, a2}
    NetOf <- MCNetOf
    Within <- MCWithin
    Reach <- MCReach
    Backends <- MCBackends
    ServerSets <- MCServerSets
    Servers4 = {s1}
    Starts <- MCStarts
    MaxBegun = 2
    MaxShifts = 1
