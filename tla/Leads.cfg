SPECIFICATION Spec
CONSTANTS
    None = None
    r1 = r1
    r2 = r2
    r3 = r3
    r4 = r4
    r5 = r5
    r6 = r6
    Requests <- ReviewRequests
    Calls <- ReviewCalls
    Leads = {l1, l2}
    Engagements = {e1, e2}
INVARIANTS
    LinkIsLastConversion
PROPERTIES
    OnlyOverlappingWritesLand
SYMMETRY Symmetry
CHECK_DEADLOCK FALSE
