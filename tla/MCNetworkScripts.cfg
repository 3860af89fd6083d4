SPECIFICATION Spec
CONSTANTS
    cfgCard = cfgCard  cfg0 = cfg0  alias0 = alias0  cfg1 = cfg1
    route40 = route40  route60 = route60  route41 = route41  route61 = route61
    e0 = e0  e1 = e1  a1 = a1  a2 = a2  a3 = a3  b1 = b1  b2 = b2
    g4 = g4  g6 = g6  s1 = s1  s2 = s2  r4 = r4  q4 = q4  r6 = r6
    Absent = Absent  Nil = Nil
    Files <- MCFiles  FileOrder <- MCOrder  Iface = {e0, e1}
    OwnerOf <- MCOwnerOf  Main <- MCMain  RouteFile <- MCRouteFile
    AddressKey <- MCAddressKey  ServerKey <- MCServerKey
    Addresses = {a1, a2, a3, b1, b2, s1, s2}
    AddressArgs <- MCAddressArgs  ServerArgs <- MCServerArgs  RouteArgs <- MCRouteArgs
    Dirs <- MCDirs
    Retention = 1
    MaxCalls = 2
INVARIANTS
    NothingIsLost
    NoSpuriousError
    ReadsBackAsAsked
CHECK_DEADLOCK FALSE
