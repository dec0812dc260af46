SPECIFICATION TransitionSpec
CONSTANTS
    parent = parent
    child = child
    other = other
    todo = todo
    work = work
    parked = parked
    done = done
    Proc = {p1, p2}
    Ticket = {parent, child, other}
    State = {todo, work, parked, done}
    None = None
    PlanFile <- MCPlanFile
    Manifest <- MCManifest
    Ledger = "ledger"
    Fragment = Fragment
    Garbled = Garbled
    Ancestors <- MCAncestors
    Prior <- MCPrior
    Initial = todo
    Terminal = {done}
    Rules <- MCRules
    Passive = {todo}
    OnLeave <- LeavingWork
    OnEnter <- EnteringWork
    Redirects <- OutOfTheLoop
    VisitLimit <- MCVisitLimit
    Recovery = parked
    TravelLimit = 3
    Faults = {"claim"}
    MaxCommands = 3
INVARIANTS
    PlanTypeOK
    TerminalSubtree
    VisitLimitHolds
    VisitsMatchLedger
    ClaimsFollowPriors
PROPERTIES
    NoClaimStolen
    AtomicMoves
SYMMETRY Workers
