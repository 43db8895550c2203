SPECIFICATION Spec
CONSTANTS
    None = None
    r1 = r1
    r2 = r2
    r3 = r3
    r4 = r4
    Requests <- AnswerRequests
    Calls <- RemovalCalls
    Members = {m1}
    MaxPerMember = 1
    Counts = {1}
PROPERTY
    EndedStaysEnded
CHECK_DEADLOCK FALSE
