SPECIFICATION Spec
CONSTANTS
    None = None
    r1 = r1
    r2 = r2
    r3 = r3
    r4 = r4
    Requests <- OfferRequests
    Calls <- OfferCalls
    Members = {m1, m2}
    MaxPerMember = 2
    Counts = {1, 2}
SYMMETRY Symmetry
INVARIANTS
    TypeOK
    DatesFollowStatus
    SelectedWasOffered
    LimitsHoldInTurn
    NothingOrphaned
PROPERTIES
    FirstAcceptanceStays
CHECK_DEADLOCK FALSE
