SPECIFICATION Spec
CONSTANTS
    cloudcfg = cloudcfg  networkjson = networkjson  d1 = d1  d2 = d2
    eth0 = eth0  eth1 = eth1  n0 = n0  n1 = n1
    a1 = a1  a2 = a2  g1 = g1  g2 = g2  r1 = r1  r2 = r2  s1 = s1  s2 = s2
    Absent = Absent  Unset = Unset
    Files <- MCFiles  BaseFiles <- MCBaseFiles  DropIns <- MCDropIns
    Encapsulated = {networkjson}
    Key = {eth0, eth1}  Iface = {n0, n1}  NameOf <- MCNameOf
    Gateways = {g1, g2}  FamilyOf <- MCFamilyOf
    Routes = {r1, r2}  Hop <- MCHop  Reach <- MCReach  Servers = {s1, s2}
    AddrLists <- MCAddrLists  GatewaySets <- MCGatewaySets
    RouteSets <- MCRouteSets  ServerSets = {{s2}}
    Dirs <- MCDirs
    Retention = 1
    MaxCalls = 2
INVARIANTS
    SavedIsRead
    SectionsSurvive
    CallDoesItsPart
CHECK_DEADLOCK FALSE
