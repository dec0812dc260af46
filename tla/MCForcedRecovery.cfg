SPECIFICATION Spec
CONSTANTS
    Command = {command}
    Operator = {alice, bob}
    LastRoot = 2
    LastFile = 2
    InitialFiles <- MCInitialFiles
    PairLength = 3
    MaxWrites = 3
    MaxVisits = 1
    MaxPreviews = 4
    MaxStops = 2
    MaxOutages = 1
    MaxEdits = 1
    None = None
INVARIANTS
    EvidenceDecides
    NoCommandBesideAMarker
    ReplaysWhatWasConfirmed
PROPERTIES
    HopsAreWhole
    CeremoniesEnd
CHECK_DEADLOCK FALSE
