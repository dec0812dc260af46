SPECIFICATION FairSpec
CONSTANTS
    t1 = t1
    t2 = t2
    a = a
    b = b
    None = None
    Plan <- MCPlan
    State = {"pair", "one", "other", "done"}
    Arms <- MCArms
    Width = 2
    Identity <- MCIdentity
    Edge <- MCEdge
    Starts <- MCStarts
    ByHand <- MCByHand
    Attempts <- MCAttempts
    Free = 1
    Backoffs <- MCBackoffs
    Longest = 2
    MaxNow = 1
    MaxUpsets <- MCUpsets
INVARIANTS
    RecordsAddUp
    SpawnsAreBounded
PROPERTIES
    ParkedIdentitiesRest
    ParkedAreRetried
CHECK_DEADLOCK FALSE
