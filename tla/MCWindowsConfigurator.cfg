SPECIFICATION Spec
CONSTANTS
    a1 = a1  a2 = a2  a3 = a3  b1 = b1
    wide = wide  narrow = narrow  g1 = g1  g2 = g2  h1 = h1
    Nil = Nil  Zero = Zero  Host = Host
    IP4 = {a1, a2, a3}  IP6 = {b1}  Prefix = {wide, narrow, Host}
    Gw4 = {g1, g2}  Gw6 = {h1}  LinkLocalGw = {h1}
    OnLink <- MCOnLink
    Adapters <- MCAdapters
    MaxCalls = 2
    MaxLeases = 1
INVARIANTS
    AllOrNothing
    LeaseIsKept
CHECK_DEADLOCK FALSE
