SPECIFICATION Spec
CONSTANTS
    base = base  f1 = f1
    n0 = n0  n1 = n1  n2 = n2
    a1 = a1  a2 = a2  b1 = b1  g1 = g1  d1 = d1  r1 = r1
    Nil = Nil  Absent = Absent
    Files <- MCFiles  Base = base  Iface = {n0, n1, n2}
    Addr4 = {a1, a2}  Addr6 = {b1}  Gateways = {g1}  Servers = {d1}  Routes = {r1}
    AddressLists <- MCAddressLists  ServerLists <- MCServerLists
    RouteLists <- MCRouteLists
    Dirs <- MCDirs
    Retention = 1
    MaxCalls = 2
INVARIANT
    PrimaryStays
CHECK_DEADLOCK FALSE
