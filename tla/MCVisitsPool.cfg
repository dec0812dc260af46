SPECIFICATION VisitsSpec
CONSTANTS
    run1 = run1
    run2 = run2
    rootA = rootA
    rootB = rootB
    i1 = i1
    i2 = i2
    t1 = t1
    t2 = t2
    Run = {run1, run2}
    Item = {i1, i2}
    Root = {rootA, rootB}
    Ticket = {t1, t2}
    RootOf <- TwoRoots
    TicketOf <- Fanout
    Pooled = {run1, run2}
    Bounds <- MCBounds
    AppendsMayFail = TRUE
    Reservation = {r1, r2, r3, r4}
    SpendReserve = 2
    Currency = {usd}
    Allowances = {}
    Envelopes = {1}
    Reserves = {2}
    Amounts = {2}
    Days = {1}
    None = None
CHECK_DEADLOCK FALSE
INVARIANTS
    LiveClaimsAreOutstanding
