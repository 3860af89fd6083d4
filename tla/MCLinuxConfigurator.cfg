SPECIFICATION Spec
CONSTANTS
    a1 = a1  a2 = a2  a3 = a3  b1 = b1  b2 = b2  b3 = b3
    wide = wide  narrow = narrow
    g1 = g1  g2 = g2  h1 = h1
    Nil = Nil  Zero = Zero
    IP4 <- MCIP4  IP6 <- MCIP6  Prefix <- MCPrefix
    Gw4 <- MCGw4  Gw6 <- MCGw6  LinkLocalGw = {h1}
    OnLink <- MCOnLink
    NBackends = 2
    Panels = {p1}
    Options <- MCOptions
    Interfaces <- MCInterfaces
    MaxCalls = 2
INVARIANTS
    TypeOK
    FailurePersistsNothing
    PrimaryProtected
PROPERTIES
    PersistOnlyRuntime
    LinkReturnedDown
    PanelsFollowRuntime
    CallsReturn
    CallsAreAtomic
CHECK_DEADLOCK FALSE
