SPECIFICATION Spec
CONSTANTS
    None = None
    Blank = Blank
    r1 = r1
    r2 = r2
    r3 = r3
    r4 = r4
    r5 = r5
    r6 = r6
    Requests <- BatchRequests
    Calls <- BatchCalls
    Dates = {d1, d2}
    MaxIncarnation = 2
    Hours = {8000}
    Remarks = {Blank, text}
    Payments = {p1}
    Instants = {t1}
INVARIANTS
    OneEntryPerDay
    DeletionRecordedOnce
