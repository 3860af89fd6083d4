SPECIFICATION Spec
CONSTANTS
    n0 = n0  n1 = n1  v1 = v1  m0 = m0  m1 = m1
    named = named  stale = stale  pinned = pinned  default = default
    a1 = a1  b1 = b1  g1 = g1  none = none  r1 = r1  d1 = d1
    Nil = Nil
    Iface = {n0, n1, v1}  Profiles = {named, stale, pinned, default}
    Mac <- MCMac  BoundTo <- MCBoundTo  Pinned <- MCPinned  Suits <- MCSuits
    Addr = {a1, b1}  Gateways = {g1}  Routes = {none, r1}  Servers = {none, d1}
    AddressArgs <- MCAddressArgs  RouteArgs <- MCRouteArgs  ServerArgs <- MCServerArgs
    Hosts <- MCHosts
    MaxCalls = 2
    MaxChanges = 1
INVARIANTS
    AddressesAreServed
    PartsDoneOrReported
    OnlyItsOwnProfiles
    LeaseIsLeft
CHECK_DEADLOCK FALSE
