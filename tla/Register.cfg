SPECIFICATION Spec
CONSTANTS
    None = None
    r1 = r1
    r2 = r2
    r3 = r3
    r4 = r4
    r5 = r5
    r6 = r6
    Requests <- RegisterRequests
    Calls <- RegisterCalls
    Members = {m1, m2}
INVARIANTS
    TrailExplainsRegister
    ApprovalsHadAuthority
    ApproversStayRegistered
SYMMETRY Symmetry
CHECK_DEADLOCK FALSE
