\* One request on one content of the database, for each topic.
SPECIFICATION Spec
CONSTANTS
    None = None
    Null = Null
    Refused = Refused
    Ignored = {"hidden"}
    Today = 146
INVARIANTS
    FlexiListIsReference
    FlexiViewsAgree
    NothingLeaks
    ListsAgree
    SelfServiceStaysOwn
    DutiesAreSeparate
    OffersAgree
    MembersAreKept
    HoursAddUp
\* A behaviour ends once its question is answered.
CHECK_DEADLOCK FALSE
