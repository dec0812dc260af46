SPECIFICATION LedgerSpec
CONSTANTS
    Reservation = {r1, r2, r3}
    Ticket = {t1}
    Root = {root1}
    Currency = {usd}
    Bounds <- MCBounds
    Allowances = {1, 3}
    Envelopes = {1}
    Reserves = {2}
    Amounts = {1, 3}
    Days = {1, 2}
    None = None
SYMMETRY Symmetry
INVARIANTS
    LifetimeNeverOverdrawn
    DayNeverOverdrawn
    TravelNeverOverdrawn
    DescendantsWithinEnvelope
PROPERTIES
    ConsumptionOnlyGrows
