SPECIFICATION FairSpec
CONSTANTS
    lead = lead
    guide = guide
    step = step
    ending = ending
    None = None
    Plan <- MCPlan
    Above <- MCAbove
    Prior <- MCPrior
    Start <- MCStart
    Routes <- MCRoutes
    Terminal = {"completed", "failed"}
    Failed = {"failed"}
    Gating = {"asking"}
    Supervising = {"leading", "guiding"}
    ChildScope = {"guiding"}
    TerminalEvent = {"guiding"}
    ByHand <- MCByHand
    TimeoutTo <- MCTimeoutTo
    Visits = 2
    Needs <- MCNeeds
    Concurrent = {"leading"}
    Outputs = {"leading", "working"}
    Parallel = 2
    Beside = {"claim"}
    MaxRuns = 1
    MaxCommands = 1
INVARIANTS
    NeverTogether
CHECK_DEADLOCK FALSE
