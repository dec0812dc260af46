SPECIFICATION Spec
CONSTANTS
    MaxReceipts = 5
    None = None
INVARIANTS
    RemediesConverge
    FailureAloneIsNotDamage
    JournalNeverAhead
PROPERTY AppendOnlyLog
