SPECIFICATION Spec
CONSTANTS
    None = None
    Blank = Blank
    r1 = r1
    r2 = r2
    r3 = r3
    r4 = r4
    r5 = r5
    r6 = r6
    Requests <- PayRequests
    Calls <- PayCalls
    Dates = {d1, d2}
    MaxIncarnation = 1
    Hours = {8000}
    Remarks = {text}
    Payments = {p1, p2}
    Instants = {t1}
PROPERTY
    PaymentsAreSafe
