SPECIFICATION FairSpec
CONSTANTS
    None = None
    r1 = r1
    r2 = r2
    r3 = r3
    r4 = r4
    r5 = r5
    a1 = a1
    a2 = a2
    m1 = m1
    m2 = m2
    Requests <- FeedbackRequests
    Calls <- FeedbackCalls
    Caller <- FeedbackCaller
    Member <- FeedbackMember
    Assignments = {a1, a2}
    Tokens = {t1}
    MaxAttempts = 3
INVARIANTS
    LinkOpensItsRow
    LastAnswerStands
    ExperiencesAreOwn
PROPERTIES
    ExpiredIsFinal
    LinkEnds
CHECK_DEADLOCK FALSE
