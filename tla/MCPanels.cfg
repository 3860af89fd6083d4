SPECIFICATION PanelsSpec
CONSTANTS
    a1 = a1  a2 = a2  a3 = a3  b1 = b1  b2 = b2
    s1 = s1  s2 = s2
    NoIP = NoIP
    IP4 = {a1, a2, a3}  IP6 = {b1, b2}
    Private = {a2}  Mapped = {a2}
    Sites = {s1, s2}
    PanelHosts <- MCPanelHosts
    MaxNotices = 3
INVARIANTS
    PanelsTypeOK
    SitesStayReachable
    OnlyAffectedMove
PROPERTIES
    ReleasedWhenEmpty
    AlwaysAMain
CHECK_DEADLOCK FALSE
