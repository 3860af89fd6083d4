SPECIFICATION Spec
CONSTANTS
    f1 = f1  f2 = f2  f3 = f3
    eth0 = eth0  eth1 = eth1  lan = lan
    n0 = n0  n1 = n1
    a1 = a1  a2 = a2  g1 = g1  r1 = r1  d1 = d1
    Unset = Unset  Nil = Nil  Absent = Absent
    Files <- MCFiles  FileOrder <- MCOrder
    Key <- MCKey  Iface = {n0, n1}  NameOf <- MCNameOf
    Addresses = {a1, a2}  Gateways = {g1}  Routes = {r1}  Servers = {d1}
    Dirs <- MCDirs
    Retention = 1
    MaxCalls = 2
INVARIANTS
    SavedIsRead
    OneFileAtRisk
    OthersKept
    UntouchedFilesKept
    NoSpuriousError
CHECK_DEADLOCK FALSE
