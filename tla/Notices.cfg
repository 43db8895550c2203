SPECIFICATION Spec
CONSTANTS
    None = None
    r1 = r1
    p1 = p1
    p2 = p2
    p3 = p3
    Requests = {r1}
    Ops <- NoticeOps
    People = {p1, p2, p3}
    About <- NoticeAbout
    Talent = {p3}
    Templates <- NoticeTemplates
INVARIANTS
    OnlyManagersAreTold
    OneFailureOneNotice
PROPERTIES
    AnsweredAfterCommit
CHECK_DEADLOCK FALSE
