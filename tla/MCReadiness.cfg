SPECIFICATION WaitSpec
CONSTANT MaxStops = 2
INVARIANT
    BackendAsPromised
PROPERTY
    WaitEnds
CHECK_DEADLOCK FALSE
