----------------------------- MODULE MCAnswers ------------------------------
(***************************************************************************)
(* The modules that have no state of their own: what the code computes     *)
(* from one content of the database and one request.  A behaviour fills    *)
(* the database, asks one question about it and stops; an invariant        *)
(* compares the answers.                                                   *)
(***************************************************************************)
EXTENDS Integers, Sequences, FiniteSets

CONSTANTS
    None,       \* no value
    Null,       \* an explicit null of a payload
    Refused,    \* an exception in place of an answer
    Ignored,    \* FLEXI_TALENT_IGNORED_PROJECT_IDS
    Today       \* the instant of a request for the dashboard

ASSUME TodayIsAnInstant == Today \in Int

\* A missing value and a refusal are no role, no status, no topic, no member or handle,
\* and no number; what is missing is not an empty set, and is not what is null.
ASSUME NoneIsNoAnswer ==
    /\ None \notin {"MEMBER", "ADMINISTRATOR", "MANAGER", "TM", "WEEKLY", "OPEN",
                   "dashboard", "board", "access", "offer", "members", "directory", "hours",
                   "PendingApproval", "Approved"}
    /\ {None, Refused} \intersect {"m1", "m2", "h1", "h2"} = {}
    /\ None \notin Int /\ Refused \notin Int /\ None \notin {Refused, Null, {}}
    /\ Null \notin Int \union {"WEEKLY"}

VARIABLES
    topic,      \* what is asked about
    db,         \* what is stored; None before it is filled
    query       \* the request; None before it is made
vars == <<topic, db, query>>

Flexi  == INSTANCE FlexiViews
Reads  == INSTANCE EngagementReads WITH TestProjects <- {"test"}, SkillNamed <- [n \in {"S"} |-> "s"]
Rules  == INSTANCE Access
Offers == INSTANCE OfferTerms
Plans  == INSTANCE AssignmentPlan
Hours  == INSTANCE TimesheetViews

(***************************************************************************)
(* The dashboard: four engagements and three assignments, whose dates      *)
(* include a 31st, a leap February, none, and one before its start.        *)
(***************************************************************************)
Date(m, d, h) == [m |-> m, d |-> d, h |-> h]
Timings == {<<None, None, None>>, <<Date(0, 31, 1), 1, None>>,
            <<Date(0, 31, 1), None, None>>, <<Date(1, 10, 0), 2, Date(2, 20, 0)>>}

Dashboard(id, title, status, project, required, months, weeks) ==
    [id |-> id, title |-> title, status |-> status, project |-> project,
     required |-> required, months |-> months, weeks |-> weeks]
DashboardEngagements == {
    Dashboard(1, 1, "ACTIVE", "p", 1, 3, None), Dashboard(2, 1, "CLOSED", "q", 2, None, 4),
    Dashboard(3, 2, "OPEN", "p", None, None, None),
    Dashboard(4, 3, "ACTIVE", "hidden", None, None, None)}

Assignment(id, member, handle, engagement, status, timing, updatedAt) ==
    [id |-> id, member |-> member, handle |-> handle, engagement |-> engagement,
     status |-> status, startDate |-> timing[1], months |-> timing[2],
     endDate |-> timing[3], updatedAt |-> updatedAt]
Dashboards == {[engagements |-> DashboardEngagements,
                assignments |-> {Assignment(1, 1, 2, e1, s1, t1, 120),
                                 Assignment(2, 1, 1, e2, s2, t2, 131),
                                 Assignment(3, 2, 2, 1, s3, t3, 131)}] :
    e1 \in {1, 2}, s1 \in {"ASSIGNED", "COMPLETED", "SELECTED"}, t1 \in Timings,
    e2 \in {2, 4}, s2 \in {"ASSIGNED", "COMPLETED"}, t2 \in Timings,
    s3 \in {"ASSIGNED", "COMPLETED"}, t3 \in Timings}
    \union {[engagements |-> DashboardEngagements,
             assignments |-> {Assignment(1, 1, 1, 3, "ASSIGNED", t, 120),
                              Assignment(2, 2, 1, 2, s, t, 120)}] :
        t \in Timings, s \in {"OFFER_REJECTED", "COMPLETED", "TERMINATED"}}
MemberQueries ==
    [bucket : {"total", "assigned", "completed"}, handle : {None, 2},
     sortBy : {"handle", "time"}, sortOrder : {"asc", "desc"}, page : {1, 2}, perPage : {1}]

(***************************************************************************)
(* The engagement lists: one engagement of every shape and a private one,  *)
(* their applications and assignments, and what may change between the     *)
(* detail's two readings.                                                  *)
(***************************************************************************)
Engagements == [id : {1}, isPrivate : BOOLEAN, status : {"OPEN", "ON_HOLD", "ACTIVE"},
                project : {"p", "test"}, countries : {{}, {"c"}, {"Any"}},
                timeZones : {{"z"}}, skills : {{}, {"s"}}, role : {"r"}, title : {"t"}]
PrivateEngagement ==
    [id |-> 2, isPrivate |-> TRUE, status |-> "OPEN", project |-> "p", countries |-> {"c"},
     timeZones |-> {"z"}, skills |-> {"s"}, role |-> None, title |-> "u"]
Applied(e, u) == [engagement |-> e, userId |-> u, status |-> "SUBMITTED"]
Held(i, e, m, s) == [id |-> i, engagement |-> e, memberId |-> m, status |-> s]
Boards == {[engagements |-> {e, PrivateEngagement}, applications |-> p, assignments |-> a] :
    e \in Engagements, p \in {{}, {Applied(1, "m1"), Applied(2, "m1"), Applied(1, "m2")}},
    a \in {{Held(2, 2, "m1", "ASSIGNED"), Held(3, 1, "m2", "ASSIGNED")},
           {Held(1, 1, "m1", "ASSIGNED"), Held(3, 1, "m2", "ASSIGNED")},
           {Held(1, 1, "m1", "COMPLETED"), Held(3, 2, "m2", "SELECTED")}}}

Unfiltered == [status |-> None, includePrivate |-> FALSE, appliedByMe |-> FALSE,
               countries |-> None, timeZones |-> None, projectId |-> None,
               projectIds |-> None, skills |-> None, search |-> None, role |-> None,
               excludeTestProjects |-> FALSE]
Facets == {Unfiltered, [Unfiltered EXCEPT !.countries = {"d"}, !.timeZones = {"z"}],
           [Unfiltered EXCEPT !.countries = {"c"}, !.skills = {"s"},
                              !.excludeTestProjects = TRUE],
           [Unfiltered EXCEPT !.search = "S", !.role = "r", !.projectIds = {"p"},
                              !.projectId = "test"],
           [Unfiltered EXCEPT !.skills = {"S"}]}
With(f, s, i, a) == [f EXCEPT !.status = s, !.includePrivate = i, !.appliedByMe = a]
Queries == {With(f, s, i, a) :
               f \in Facets, s \in {None, "ON_HOLD"}, i \in BOOLEAN, a \in BOOLEAN}
Person(roles, userId) == [kind |-> "human", roles |-> roles, userId |-> userId]
Readers == {[kind |-> "anonymous", roles |-> {}, userId |-> None],
            [kind |-> "machine", roles |-> {}, userId |-> None],
            Person({}, "m1"), Person({"TalentManager"}, "m1"), Person({}, None)}
Later(how) ==
    CASE how = "removed" -> [db EXCEPT !.engagements = {PrivateEngagement},
                                       !.assignments = {a \in @ : a.engagement = 2}]
      [] how = "published" ->
            [db EXCEPT !.engagements = {[e EXCEPT !.isPrivate = ~@] : e \in @}]
      [] how = "unassigned" ->
            [db EXCEPT !.assignments = {[a EXCEPT !.status = "TERMINATED"] : a \in @}]
      [] OTHER -> db

(***************************************************************************)
(* Who may call what: every set of roles, and no scope, one or all.        *)
(***************************************************************************)
Situations == [assignee : {"m1"}, assigned : BOOLEAN, creator : {"m1", "m2"},
               managers : SUBSET {"m1", "m2"}, applicant : {"m1", "m2"}]
ScopeSets == {{}, Rules!Scopes} \union {{s} : s \in Rules!Scopes}
Callers ==
    [kind : {"human"}, roles : SUBSET Rules!PrivilegedUserRoles, scopes : ScopeSets,
     userId : {None, "m1", "m2"}]
    \union [kind : {"machine"}, roles : {{}}, scopes : ScopeSets, userId : {None}]
    \union [kind : {"anonymous", "rejected"}, roles : {{}}, scopes : {{}}, userId : {None}]

(***************************************************************************)
(* Offers: rates and hours around their limits; an earlier row and a       *)
(* payload, whose hours, cycle or remaining fields may be null.  The       *)
(* fields that every path treats alike are set together.                   *)
(***************************************************************************)
Terms(rates, hours, cycles, rest) ==
    {[f \in Offers!Fields |->
        CASE f = "ratePerHour" -> r [] f = "standardHoursPerDay" -> h
          [] f = "agreementRate" -> a [] f = "paymentCycle" -> c
          [] f \in {"durationMonths", "totalHours", "source"} -> t
          [] OTHER -> IF t = Null THEN None ELSE t] :
     r \in rates, h \in hours, a \in rates, c \in cycles, t \in rest}
Rows == Terms({None, 1, 2}, {None, 1, 2}, {"WEEKLY", "MONTHLY"}, {None, "t"})
Payloads == Terms({None, 0, 2}, {None, 0, 2, Null}, {None, "WEEKLY", Null},
                  {None, "t", Null})

\* A refusal is no terms, and no edit.
OfferValues == Int \union {None, Null, "t", "WEEKLY", "MONTHLY"}
ASSUME RefusalIsNoOffer ==
    /\ Refused \notin [Offers!Fields -> OfferValues]
    /\ Refused \notin [terms : [Offers!Fields -> OfferValues], mail : BOOLEAN]

(***************************************************************************)
(* Edits of the members: up to three assignments of two members, and up to *)
(* three rows that name them.                                              *)
(***************************************************************************)
UpTo(n, S) == UNION {[1..k -> S] : k \in 0..n}
Members == {"m1", "m2"}
Assigned == UNION {{[i \in 1..k |-> [id |-> i, memberId |-> who[i], status |-> what[i]]] :
                      who \in [1..k -> Members],
                      what \in [1..k -> {"SELECTED", "ASSIGNED", "COMPLETED"}]} : k \in 0..3}
Directory == [m \in Members |-> IF m = "m1" THEN "h1" ELSE "h2"]
NamedRows == UpTo(2, [memberId : {None, "m1", "m2", "m3"},
                      memberHandle : {None, "h1", "h2", "h3"}])

(***************************************************************************)
(* The hours: a Friday, the weekend, a Monday of one assignment and the    *)
(* Friday of another, of which each is free, pending, approved together or *)
(* apart, paid, or reopened after it was paid.  The other assignment is    *)
(* of the same member, and ties with the first, or of one on a test        *)
(* project; its hours are of a week that five days do not divide.          *)
(***************************************************************************)
Entry(i, a, day, hours, state) ==
    [id |-> i, assignment |-> a, workDate |-> day, hours |-> hours,
     status |-> IF state[1] = "REOPENED" THEN "DRAFT" ELSE state[1],
     approvedAt |-> state[2], approvedBy |-> state[3], payment |-> state[4]]
EntryStates == {<<"SUBMITTED", None, None, None>>, <<"REOPENED", None, None, 1>>,
                <<"APPROVED", 1, 1, None>>, <<"APPROVED", 1, 2, None>>,
                <<"APPROVED", 1, 1, 1>>, None}
Logged(i, a, day, hours, state) ==
    IF state = None THEN {} ELSE {Entry(i, a, day, hours, state)}
Holder(i, handle, project, status, dates, perDay, perWeek) ==
    [id |-> i, title |-> 1, handle |-> handle, project |-> project, status |-> status,
     managers |-> {"m1"}, startDate |-> dates[1], endDate |-> dates[2],
     perDay |-> perDay, perWeek |-> perWeek, totalHours |-> 40]
Payment(i, a, status, installment, hours) ==
    [id |-> i, externalId |-> a, status |-> status, installment |-> installment,
     hours |-> hours]
Payments == {Payment(1, 1, "PAID", "RETURNED", 8), Payment(2, 1, "FAILED", "OWED", 4),
             Payment(3, 2, "CANCELLED", None, 8)}
Timecards ==
    {[entries |-> Logged(1, 1, 1, 1, s[1]) \union Logged(2, 1, 2, 2, s[2])
                     \union Logged(3, 1, 4, 4, s[3]) \union Logged(4, 2, 1, 8, s[4]),
      assignments |-> {Holder(1, 1, "p", t[1], dates, 8, None),
                       Holder(2, other[1], other[2], "ASSIGNED", <<None, None>>, None, 42)},
      payments |-> Payments, unread |-> t[2]] :
     s \in {s \in [1..4 -> EntryStates] : s[4] \in {None, <<"APPROVED", 1, 1, None>>}},
     t \in {<<"ASSIGNED", {}>>, <<"COMPLETED", {"list"}>>},
     dates \in {<<None, None>>, <<2, 3>>}, other \in {<<1, "ignored">>, <<2, "test">>}}
HourQueries ==
    {q \in [from : {1, None}, to : {4, None}, cut : {1, 3},
            status : Hours!RollupFilter \union {None},
            admin : BOOLEAN, projects : {{}, {"p", "ignored"}}, perPage : {1},
            turned : BOOLEAN] :
        /\ None \in {q.from, q.to} => q.cut = 1
        /\ q.turned => q.status = None}
Reviewer == [admin |-> query.admin, tm |-> ~query.admin, projects |-> query.projects,
             userId |-> "m1"]
HourQuery == [from |-> query.from, to |-> query.to, status |-> query.status,
              perPage |-> query.perPage, page |-> 1, engagement |-> None, assignee |-> None,
              excludeTestProjects |-> TRUE, manager |-> None]

\* The entries of a day in the order of their numbers; in a turned query all pages but
\* the first have them in the other order.
TieOrders == [p \in Nat \ {0} |->
                 [i \in 1..4 |-> IF query.turned /\ p > 1 THEN -i ELSE i]]

-----------------------------------------------------------------------------
Init == topic = None /\ db = None /\ query = None

Fill(what, contents) ==
    /\ topic = None
    /\ topic' = what
    /\ db' \in contents
    /\ UNCHANGED query

Ask(what, requests) ==
    /\ topic = what /\ query = None
    /\ query' \in requests
    /\ UNCHANGED <<topic, db>>

FillDashboard == Fill("dashboard", Dashboards)
FillBoard == Fill("board", Boards)
FillAccess == Fill("access", Situations)
FillOffer == Fill("offer", Rows)
FillMembers == Fill("members", Assigned)
FillDirectory == Fill("directory", {Directory})
FillHours == Fill("hours", Timecards)

AskDashboard == Ask("dashboard", MemberQueries)
AskBoard == Ask("board", [q : Queries, caller : Readers,
                          how : {"same", "removed", "published", "unassigned"}])
AskAccess == Ask("access", Callers)
AskOffer == Ask("offer", Payloads)
AskMembers == Ask("members", [members : UpTo(3, Members), required : {None, 1, 2}])
AskDirectory == Ask("directory", [details : NamedRows, required : {None, 1}])
AskHours == Ask("hours", HourQueries)

Next ==
    \/ FillDashboard \/ FillBoard \/ FillAccess \/ FillOffer \/ FillMembers
    \/ FillDirectory \/ FillHours \/ AskDashboard \/ AskBoard \/ AskAccess \/ AskOffer
    \/ AskMembers \/ AskDirectory \/ AskHours

Spec == Init /\ [][Next]_vars

Asked(what) == topic = what /\ query # None

-----------------------------------------------------------------------------
\* The Flexi Talent list that PostgreSQL filters, ranks, sorts and cuts is the one the
\* service's own comparison functions define, at every page, order and bucket.
FlexiListIsReference == Asked("dashboard") => Flexi!ListMatchesReference(db, query)

\* The Flexi views tell one story: the row a member has in the list, the member's
\* detail and the head of the history are about one assignment with the same days
\* left; the summaries count what the lists show, the buckets partition the members
\* and the engagements, and a search finds the same whichever way it is sorted.
FlexiViewsAgree ==
    topic = "dashboard" /\ query = None =>
        Flexi!MemberViewsAgree(db) /\ Flexi!BucketsAddUp(db)

\* Whatever a caller without a privilege asks of the engagement routes, and whatever
\* changes between the detail's two readings, the answers hold nothing of a private
\* engagement or of other members' assignments that is not the caller's to see.
NothingLeaks ==
    Asked("board") => Reads!NothingLeaks(db, Later(query.how), query.caller, query.q)

\* The lists of engagements tell one story: what a list shows can be opened, the
\* active list is a case of the public one, a facet only narrows.
ListsAgree ==
    Asked("board") /\ query.how = "same" => Reads!ListsAgree(db, query.caller, query.q)

\* A person without a role is served what is public, their own lists, and what they
\* are the assignee, a manager or the applicant of.
SelfServiceStaysOwn == Asked("access") => Rules!SelfServiceStaysOwn(query, db)

\* Nobody approves, reopens or pays their own hours, whatever roles they hold.
DutiesAreSeparate == Asked("access") => Rules!DutiesAreSeparate(query, db)

\* The engagement form and the approval of an application make the same offer of the
\* same payload, and a change of the terms a member is shown is mailed, once.
OffersAgree ==
    Asked("offer") => /\ Offers!OfferPathsAgree(db, query)
                      /\ Offers!ChangesAreMailedOnce(db, query)

\* An edit of the members gives every row of the payload its own assignment, leaves
\* the ended ones ended, and ends with one active assignment of each member named; a
\* new private engagement's members are known, distinct and within the limit,
\* whichever way the payload names them.
MembersAreKept ==
    /\ Asked("members") => Plans!PlanIsKept(db, query.members, query.required)
    /\ Asked("directory") => Plans!CreationIsKept(db, query.details, query.required)

\* The rows of the approved list share out what the payment summaries call payable
\* unless the database turned a tie between two pages, a period cut in two has the
\* hours of its parts up to a rounding, and a list narrowed to a status shows the rows
\* of that status.
HoursAddUp ==
    Asked("hours") =>
        /\ Hours!BacklogAddsUp(db, Reviewer, HourQuery, TieOrders)
        /\ {query.from, query.to} = {1, 4} => Hours!PeriodsAddUp(db, 1, 4, query.cut)
        /\ Hours!StatusesAgree(db, Reviewer, HourQuery)
=============================================================================
