----------------------------- MODULE FlexiViews -----------------------------
(***************************************************************************)
(* The Flexi Talent dashboard (engagements.service.ts): what its summaries, *)
(* lists, details and histories say of one content of the database.  The   *)
(* member list is computed in SQL; the detail, the history and the         *)
(* comparison functions the SQL is written after are TypeScript.  Both are *)
(* modelled here, each from its own text, so that they can be compared.    *)
(*                                                                         *)
(* Titles, handles and identifiers are numbers, ordered as the code orders *)
(* the strings.  A date is [m, d, h]: months since January 2024, the day,  *)
(* and whether it is before (0) or after (1) noon; an instant counts half  *)
(* days since the start of 2024.                                           *)
(***************************************************************************)
EXTENDS Integers, Sequences, FiniteSets

CONSTANTS
    None,       \* null
    Ignored,    \* FLEXI_TALENT_IGNORED_PROJECT_IDS
    Today       \* the instant of the request

Active == {"SELECTED", "ASSIGNED"}          \* ACTIVE_ASSIGNMENT_STATUSES
Assigned == {"ASSIGNED"}                    \* FLEXI_ASSIGNED_MEMBER_STATUSES
Completed == {"COMPLETED"}                  \* FLEXI_COMPLETED_MEMBER_STATUSES

StatusesOf(bucket) ==
    CASE bucket = "active" -> {"ACTIVE"}
      [] bucket = "closed" -> {"CLOSED"}
      [] OTHER             -> {"ACTIVE", "CLOSED"}

(***************************************************************************)
(* The calendar, and an assignment's end date in both languages.           *)
(***************************************************************************)
MonthLength(m) ==
    CASE m % 12 = 1 -> IF m = 1 THEN 29 ELSE 28
      [] m % 12 \in {3, 5, 8, 10} -> 30
      [] OTHER -> 31

\* The days of the months before.
MonthStart == [m \in 0..35 |->
    Cardinality({date \in (0..m - 1) \X (1..31) : date[2] <= MonthLength(date[1])})]

At(date) == 2 * (MonthStart[date.m] + date.d - 1) + date.h

Day(instant) == instant \div 2

\* setUTCMonth keeps the day of the month, and a day the target month does not
\* have overflows into the month after it.
ResolvedEnd(a) ==
    IF a.endDate # None THEN At(a.endDate)
    ELSE IF a.startDate = None \/ a.months = None THEN None
    ELSE At([a.startDate EXCEPT !.m = @ + a.months])

\* A mutant of SqlEnd: adding the interval to the date itself, which PostgreSQL
\* clamps to the last day of a shorter month.
SqlEndClamped(a) ==
    IF a.endDate # None THEN At(a.endDate)
    ELSE IF a.startDate = None \/ a.months = None THEN None
    ELSE LET m == a.startDate.m + a.months
             last == MonthLength(m) IN
         At([m |-> m, h |-> a.startDate.h,
             d |-> IF a.startDate.d > last THEN last ELSE a.startDate.d])

\* The same date as SQL computes it: the first of the target month, to which the
\* days and the time of day are added.
SqlEnd(a) ==
    IF a.endDate # None THEN At(a.endDate)
    ELSE IF a.startDate = None \/ a.months = None THEN None
    ELSE LET month == 2 * MonthStart[a.startDate.m + a.months] IN
         month + 2 * (a.startDate.d - 1) + a.startDate.h

DaysLeft(end) == IF end = None THEN None ELSE Day(end) - Day(Today)

CompletionTime(a) ==
    IF a.status = "OFFER_REJECTED" \/ ResolvedEnd(a) = None
    THEN a.updatedAt ELSE ResolvedEnd(a)

(***************************************************************************)
(* Engagements.                                                            *)
(***************************************************************************)
Shown(e, bucket) == e.project \notin Ignored /\ e.status \in StatusesOf(bucket)

\* What a search looks for: the projects are those the project service found for
\* the text, without the ignored ones.
Filters(bucket, search) ==
    [bucket |-> bucket, text |-> search.text,
     projects |-> IF search.text = None THEN {} ELSE search.projects \ Ignored]

\* The Prisma filter.
EngagementsIn(db, filters) ==
    {e \in db.engagements :
        /\ Shown(e, filters.bucket)
        /\ filters.text # None =>
               \/ e.title = filters.text
               \/ e.project \in filters.projects}

\* A mutant of SqlEngagementsIn: the title is looked at only without projects.
SqlEngagementsInEither(db, filters) ==
    LET named == {e \in db.engagements : e.title = filters.text}
        placed == {e \in db.engagements : e.project \in filters.projects}
        searched == IF filters.projects = {} THEN named ELSE placed
    IN  {e \in IF filters.text = None THEN db.engagements ELSE searched :
            e.project \notin Ignored /\ e.status \in StatusesOf(filters.bucket)}

\* The same filter as SQL states it.
SqlEngagementsIn(db, filters) ==
    LET named == {e \in db.engagements : e.title = filters.text}
        placed == {e \in db.engagements : e.project \in filters.projects}
        searched == IF filters.projects = {} THEN named ELSE named \union placed
    IN  {e \in IF filters.text = None THEN db.engagements ELSE searched :
            e.project \notin Ignored /\ e.status \in StatusesOf(filters.bucket)}

CurrentCount(db, e) ==
    Cardinality({a \in db.assignments : a.engagement = e.id /\ a.status \in Active})

EngagementRow(db, e) ==
    [id |-> e.id, count |-> CurrentCount(db, e), required |-> e.required]

\* ORDER BY: ascending puts null last and descending puts it first.
\* Texts are numbers here, ordered once: the database's collation and localeCompare are
\* taken to order titles, handles and ids alike, whatever order that is.
SqlLess(x, y, direction) ==
    IF direction = "asc" THEN x # None /\ (y = None \/ x < y)
    ELSE y # None /\ (x = None \/ x > y)

\* Rows ordered by their keys, each <<value, direction>>, the first that differs
\* deciding.
SqlBefore(keysX, keysY) ==
    \E i \in 1..Len(keysX) :
        /\ SqlLess(keysX[i][1], keysY[i][1], keysX[i][2])
        /\ \A j \in 1..(i - 1) : keysX[j] = keysY[j]

EngagementKeys(db, e, q) ==
    IF q.sortBy = "memberCount"
    THEN <<<<CurrentCount(db, e), q.sortOrder>>, <<e.title, "asc">>, <<e.id, "asc">>>>
    ELSE <<<<e.title, q.sortOrder>>, <<e.id, "asc">>>>

\* A sort: the place of a row is the number of those up to it.  An order is a set of
\* pairs.
Place(rows, order, x) == Cardinality({y \in rows : y = x \/ <<y, x>> \in order})

InOrder(rows, order) ==
    [n \in 1..Cardinality(rows) |-> CHOOSE x \in rows : Place(rows, order, x) = n]

FirstOf(rows, order) == CHOOSE x \in rows : \A y \in rows \ {x} : <<x, y>> \in order

\* OFFSET and LIMIT.
Page(rows, q) ==
    LET skip == (q.page - 1) * q.perPage
        last == IF Len(rows) < skip + q.perPage THEN Len(rows) ELSE skip + q.perPage
    IN  SubSeq(rows, skip + 1, last)

EngagementList(db, q) ==
    LET filters == Filters(q.bucket, q.search)
        counted == EngagementsIn(db, filters)
        listed == IF q.sortBy = "memberCount" THEN SqlEngagementsIn(db, filters)
                  ELSE counted
        order == {p \in listed \X listed :
                      SqlBefore(EngagementKeys(db, p[1], q), EngagementKeys(db, p[2], q))}
        page == Page(InOrder(listed, order), q)
    IN  [total |-> Cardinality(counted),
         rows |-> [i \in DOMAIN page |-> EngagementRow(db, page[i])]]

NoSearch == [text |-> None, projects |-> {}]

EngagementSummary(db) ==
    [bucket \in {"total", "active", "closed"} |->
        Cardinality(EngagementsIn(db, Filters(bucket, NoSearch)))]

DurationOf(months, e) ==
    IF months # None THEN <<months, "month">>
    ELSE IF e.months # None THEN <<e.months, "month">>
    ELSE IF e.weeks # None THEN <<e.weeks, "week">>
    ELSE None

AssignmentRow(a, e) ==
    [id |-> a.id, end |-> ResolvedEnd(a), daysLeft |-> DaysLeft(ResolvedEnd(a)),
     overdue |-> ResolvedEnd(a) # None /\ DaysLeft(ResolvedEnd(a)) < 0,
     duration |-> DurationOf(a.months, e)]

\* None of it stands for NotFoundException.
EngagementDetail(db, id) ==
    {[id |-> e.id, count |-> CurrentCount(db, e), required |-> e.required,
      duration |-> DurationOf(None, e),
      rows |-> {AssignmentRow(a, e) : a \in {b \in db.assignments : b.engagement = id}}] :
        e \in {f \in db.engagements : f.id = id /\ Shown(f, "total")}}

(***************************************************************************)
(* Members, in SQL.                                                        *)
(***************************************************************************)
EngagementOf(db, a) == CHOOSE e \in db.engagements : e.id = a.engagement

Qualifying(db) ==
    {a \in db.assignments : a.status \in Assigned \union Completed
                            /\ Shown(EngagementOf(db, a), "total")}

\* filtered_assignments and scored_assignments.
Scored(db, handle) ==
    {[id |-> a.id, member |-> a.member, handle |-> a.handle,
      title |-> EngagementOf(db, a).title,
      isCurrent |-> a.status \in Assigned,
      isCompletion |-> a.status \in Completed,
      end |-> SqlEnd(a), daysRemaining |-> DaysLeft(SqlEnd(a)),
      latest |-> IF SqlEnd(a) = None THEN a.updatedAt ELSE SqlEnd(a)] :
        a \in {b \in Qualifying(db) : handle \in {None, b.handle}}}

HasCurrent(scored, m) == \E s \in scored : s.member = m /\ s.isCurrent
HasCompletion(scored, m) == \E s \in scored : s.member = m /\ s.isCompletion

\* member_flags.
MembersIn(scored, bucket) ==
    {m \in {s.member : s \in scored} :
        CASE bucket = "assigned"  -> HasCurrent(scored, m)
          [] bucket = "completed" -> HasCompletion(scored, m) /\ ~HasCurrent(scored, m)
          [] OTHER -> HasCurrent(scored, m) \/ HasCompletion(scored, m)}

Ties(s) == <<<<s.title, "asc">>, <<s.handle, "asc">>, <<s.member, "asc">>, <<s.id, "asc">>>>

PrimaryKeys(s, current) ==
    <<<<IF current /\ s.isCurrent /\ s.end = None THEN 1 ELSE 0, "asc">>,
      <<IF current /\ s.isCurrent THEN s.end ELSE None, "asc">>,
      <<IF ~current /\ s.isCompletion THEN s.latest ELSE None, "desc">>>> \o Ties(s)

\* The row numbered one in the member's partition.
PrimaryRow(scored, m) ==
    LET current == HasCurrent(scored, m)
        candidates == {s \in scored : s.member = m /\
                          IF current THEN s.isCurrent ELSE s.isCompletion}
        order == {p \in candidates \X candidates :
                     SqlBefore(PrimaryKeys(p[1], current), PrimaryKeys(p[2], current))}
        first == FirstOf(candidates, order)
    IN  [member |-> m, assignment |-> first.id, handle |-> first.handle,
         title |-> first.title, current |-> current,
         days |-> IF current THEN first.daysRemaining ELSE None,
         completedAt |-> IF current THEN None ELSE first.latest]

Flip(direction) == IF direction = "desc" THEN "asc" ELSE "desc"

RowTies(r) ==
    <<<<r.title, "asc">>, <<r.handle, "asc">>, <<r.member, "asc">>, <<r.assignment, "asc">>>>

ListKeys(r, q) ==
    (IF q.sortBy = "handle" THEN <<<<r.handle, q.sortOrder>>>>
     ELSE <<<<IF q.bucket = "total" /\ ~r.current THEN 1 ELSE 0, "asc">>,
            <<IF r.current /\ r.days = None THEN 1 ELSE 0, "asc">>,
            <<IF r.current THEN r.days ELSE None, q.sortOrder>>,
            <<IF ~r.current /\ r.completedAt = None THEN 1 ELSE 0, "asc">>,
            <<IF ~r.current THEN r.completedAt ELSE None, Flip(q.sortOrder)>>>>)
    \o RowTies(r)

MemberList(db, q) ==
    LET scored == Scored(db, q.handle)
        members == MembersIn(scored, q.bucket)
        rows == {PrimaryRow(scored, m) : m \in members}
        order == {p \in rows \X rows : SqlBefore(ListKeys(p[1], q), ListKeys(p[2], q))}
    IN  [total |-> Cardinality(members), rows |-> Page(InOrder(rows, order), q)]

(***************************************************************************)
(* Members, in TypeScript.  A comparison returns a negative number, zero   *)
(* or a positive number; the first comparison that is not zero decides.    *)
(***************************************************************************)
FirstNonZero(comparisons) ==
    IF \A i \in DOMAIN comparisons : comparisons[i] = 0 THEN 0
    ELSE comparisons[CHOOSE i \in DOMAIN comparisons :
             comparisons[i] # 0 /\ \A j \in 1..(i - 1) : comparisons[j] = 0]

CompareAsc(x, y) ==
    CASE x = None /\ y = None -> 0
      [] x = None /\ y # None -> 1
      [] x # None /\ y = None -> -1
      [] OTHER -> x - y

CompareDesc(x, y) ==
    CASE x = None /\ y = None -> 0
      [] x = None /\ y # None -> 1
      [] x # None /\ y = None -> -1
      [] OTHER -> y - x

CompareTies(db, a, b) ==
    FirstNonZero(<<EngagementOf(db, a).title - EngagementOf(db, b).title,
                   a.handle - b.handle, a.member - b.member, a.id - b.id>>)

EndsBefore(db, a, b) ==
    FirstNonZero(<<CompareAsc(ResolvedEnd(a), ResolvedEnd(b)), CompareTies(db, a, b)>>) < 0

CompletedAfter(db, a, b) ==
    FirstNonZero(<<CompletionTime(b) - CompletionTime(a), CompareTies(db, a, b)>>) < 0

\* selectFlexiPrimaryAssignment; none, if there is neither.
Primary(db, rows) ==
    LET current == {a \in rows : a.status \in Assigned}
        done == {a \in rows : a.status \in Completed}
        next == FirstOf(current, {p \in current \X current : EndsBefore(db, p[1], p[2])})
        last == FirstOf(done, {p \in done \X done : CompletedAfter(db, p[1], p[2])})
    IN  IF current # {}
        THEN {[assignment |-> next, current |-> TRUE,
               days |-> DaysLeft(ResolvedEnd(next)), completedAt |-> None]}
        ELSE IF done # {}
        THEN {[assignment |-> last, current |-> FALSE,
               days |-> None, completedAt |-> CompletionTime(last)]}
        ELSE {}

RowsOf(db, m) == {a \in Qualifying(db) : a.member = m}

\* None of it stands for NotFoundException.
MemberDetail(db, m) ==
    {[member |-> m, assignment |-> primary.assignment.id,
      current |-> primary.current, end |-> ResolvedEnd(primary.assignment),
      days |-> DaysLeft(ResolvedEnd(primary.assignment)),
      duration |-> DurationOf(primary.assignment.months,
                              EngagementOf(db, primary.assignment))] :
        primary \in Primary(db, RowsOf(db, m))}

HistoryItem(db, a) ==
    [assignment |-> a.id, handle |-> a.handle, title |-> EngagementOf(db, a).title,
     current |-> a.status \in Assigned, end |-> ResolvedEnd(a),
     completedAt |-> IF a.status \in Assigned THEN None ELSE CompletionTime(a)]

HistoryBefore(x, y) ==
    IF x.current # y.current THEN x.current
    ELSE FirstNonZero(<<IF x.current THEN CompareAsc(x.end, y.end)
                        ELSE CompareDesc(x.completedAt, y.completedAt),
                        x.title - y.title, x.handle - y.handle,
                        x.assignment - y.assignment>>) < 0

MemberHistory(db, m) ==
    LET items == {HistoryItem(db, a) : a \in RowsOf(db, m)}
    IN  InOrder(items, {p \in items \X items : HistoryBefore(p[1], p[2])})

MemberSummary(db) ==
    LET rows == Qualifying(db)
        members == {a.member : a \in rows}
        current == {m \in members : \E a \in rows : a.member = m /\ a.status \in Assigned}
        done == {m \in members : \E a \in rows : a.member = m /\ a.status \in Completed}
    IN  [total |-> Cardinality(members), assigned |-> Cardinality(current),
         completed |-> Cardinality(done \ current)]

\* filterFlexiMemberGroupsByBucket over groupFlexiAssignmentsByMember.
InBucket(group, bucket) ==
    LET hasCurrent == \E a \in group : a.status \in Assigned
        hasCompletion == \E a \in group : a.status \in Completed
    IN  CASE bucket = "assigned"  -> hasCurrent
          [] bucket = "completed" -> hasCompletion /\ ~hasCurrent
          [] OTHER -> hasCurrent \/ hasCompletion

\* compareFlexiMemberRowsByTime.
CompareByTime(x, y, q) ==
    CASE q.bucket = "total" /\ x.current # y.current -> IF x.current THEN -1 ELSE 1
      [] ~(q.bucket = "total" /\ x.current # y.current) /\ x.current /\ y.current ->
            IF q.sortOrder = "desc" THEN CompareDesc(x.days, y.days)
            ELSE CompareAsc(x.days, y.days)
      [] OTHER ->
            IF q.sortOrder = "desc" THEN CompareAsc(x.completedAt, y.completedAt)
            ELSE CompareDesc(x.completedAt, y.completedAt)

\* compareFlexiMemberListRows.
ListedBefore(db, x, y, q) ==
    LET handles == x.assignment.handle - y.assignment.handle IN
    FirstNonZero(<<IF q.sortBy = "handle"
                   THEN IF q.sortOrder = "desc" THEN -handles ELSE handles
                   ELSE CompareByTime(x, y, q),
                   CompareTies(db, x.assignment, y.assignment)>>) < 0

\* What the list is meant to be: the rows grouped by member, the groups of the
\* bucket, the primary assignment of each, sorted and cut to the page.
ReferenceList(db, q) ==
    LET rows == {a \in Qualifying(db) : q.handle \in {None, a.handle}}
        group(m) == {a \in rows : a.member = m}
        members == {m \in {a.member : a \in rows} : InBucket(group(m), q.bucket)}
        listed == UNION {Primary(db, group(m)) : m \in members}
        order == {p \in listed \X listed : ListedBefore(db, p[1], p[2], q)}
        page == Page(InOrder(listed, order), q)
    IN  [i \in DOMAIN page |->
            [member |-> page[i].assignment.member, assignment |-> page[i].assignment.id,
             handle |-> page[i].assignment.handle,
             title |-> EngagementOf(db, page[i].assignment).title,
             current |-> page[i].current, days |-> page[i].days,
             completedAt |-> page[i].completedAt]]

(***************************************************************************)
(* What the views owe each other.                                          *)
(***************************************************************************)
\* The page SQL returns is the page the comparison functions describe.
ListMatchesReference(db, q) == MemberList(db, q).rows = ReferenceList(db, q)

RowsIn(page) == {page[i] : i \in DOMAIN page}

\* The row of a member in an unsearched list, the member's detail and the head of
\* the member's history name the same assignment with the same days left.
MemberViewsAgree(db) ==
    LET all == [bucket |-> "total", handle |-> None, sortBy |-> "handle",
                sortOrder |-> "asc", page |-> 1, perPage |-> Cardinality(db.assignments)]
        rows == RowsIn(MemberList(db, all).rows)
    IN  /\ \A m \in {a.member : a \in db.assignments} :
              MemberDetail(db, m) = {} <=> ~\E r \in rows : r.member = m
        /\ \A r \in rows : \A detail \in MemberDetail(db, r.member) :
              LET newest == Head(MemberHistory(db, r.member))
              IN  /\ r.assignment = detail.assignment
                  /\ r.assignment = newest.assignment
                  /\ r.current = detail.current /\ r.current = newest.current
                  /\ r.current => r.days = detail.days
                  /\ r.completedAt = newest.completedAt

\* The buckets partition the members and the engagements, and the summaries count
\* what the lists show, whichever way a list is sorted.
BucketsAddUp(db) ==
    LET members == [b \in {"total", "assigned", "completed"} |->
                       Cardinality(MembersIn(Scored(db, None), b))]
        list(bucket, search, by) == EngagementList(db,
            [bucket |-> bucket, search |-> search, sortBy |-> by,
             sortOrder |-> "desc", page |-> 1, perPage |-> Cardinality(db.engagements)])
    IN  /\ MemberSummary(db) = members
        /\ members["total"] = members["assigned"] + members["completed"]
        /\ EngagementSummary(db)["total"] =
              EngagementSummary(db)["active"] + EngagementSummary(db)["closed"]
        /\ \A bucket \in {"total", "active", "closed"} :
              list(bucket, NoSearch, "name").total = EngagementSummary(db)[bucket]
        /\ \A bucket \in {"total", "active", "closed"},
              search \in {NoSearch} \union [text : {1, 2}, projects : SUBSET {"p", "q"}] :
              LET byName == list(bucket, search, "name")
                  byCount == list(bucket, search, "memberCount")
              IN  /\ byCount.total = Len(byCount.rows)
                  /\ RowsIn(byCount.rows) = RowsIn(byName.rows)
                  /\ \A row \in RowsIn(byName.rows) :
                        \E detail \in EngagementDetail(db, row.id) :
                            detail.count = row.count
=============================================================================
