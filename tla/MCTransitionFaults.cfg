SPECIFICATION FairSpec
CONSTANTS
    parent = parent
    child = child
    other = other
    todo = todo
    work = work
    parked = parked
    done = done
    Proc = {p1, p2}
    Ticket = {child, other}
    State = {todo, work, parked, done}
    None = None
    PlanFile <- MCPlanFile
    Manifest <- MCManifest
    Ledger = "ledger"
    Fragment = Fragment
    Garbled = Garbled
    Ancestors <- MCAncestors
    Prior <- MCPrior
    Initial = todo
    Terminal = {done}
    Rules <- MCRules
    Passive = {todo}
    OnLeave <- LeavingTodo
    OnEnter <- EnteringWork
    Redirects <- IntoTheLoop
    VisitLimit <- MCVisitLimit
    Recovery = parked
    TravelLimit = 3
    Faults = {"claim", "restore", "write", "record", "spawn", "evidence", "crash"}
    MaxCommands = 3
INVARIANTS
    LinesArePaid
PROPERTIES
    HistoryIsKept
    EveryCommandReturns

