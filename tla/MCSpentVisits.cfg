SPECIFICATION FairSpec
CONSTANTS
    t1 = t1
    t2 = t2
    a = a
    b = b
    None = None
    Plan <- MCPlan
    State = {"pair", "one", "other", "done"}
    Arms <- MCArms
    Width = 2
    Identity <- MCIdentity
    Edge <- MCEdge
    Starts <- MCSingle
    ByHand <- MCByHand
    Attempts <- MCTwoAttempts
    Free = 1
    Backoffs <- MCBackoffs
    Longest = 2
    MaxNow = 1
    MaxUpsets <- MCNoUpsets
PROPERTIES
    SpentVisitsHalt
CHECK_DEADLOCK FALSE
