SPECIFICATION Spec
CONSTANTS
    None = None
    Blank = Blank
    r1 = r1
    r2 = r2
    r3 = r3
    r4 = r4
    r5 = r5
    r6 = r6
    Requests <- LifeRequests
    Calls <- LifeCalls
    Dates = {d1}
    MaxIncarnation = 2
    Hours = {4000, 8000}
    Remarks = {text}
    Payments = {p1, p2}
    Instants = {t1, t2}
INVARIANTS
    TypeOK
    StampsMatchStatus
    AuditMatchesRow
    PaymentRecordedOnce
    ApprovalComesFirst
PROPERTIES
    ApprovalIsGuarded
SYMMETRY Symmetry
