SPECIFICATION Spec
CONSTANTS
    f1 = f1  f2 = f2  f3 = f3  f4 = f4
    n0 = n0  n1 = n1
    a1 = a1  a2 = a2  g1 = g1  r1 = r1  d1 = d1  d2 = d2
    Nil = Nil  Absent = Absent
    Files <- MCFiles  FileOrder <- MCOrder
    Iface = {n0, n1}  NameOf <- MCNameOf
    Addresses = {a1, a2}  Gateways = {g1}  Servers = {d1, d2}  Routes = {r1}
    AddressLists <- MCAddressLists  ServerLists <- MCServerLists
    RouteLists <- MCRouteLists
    Dirs <- MCDirs
    Retention = 1
    MaxCalls = 2
INVARIANTS
    CallDoesItsPart
    OneFileAtRisk
CHECK_DEADLOCK FALSE
