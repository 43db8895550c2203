--------------------------- MODULE TimesheetViews ---------------------------
(***************************************************************************)
(* What is read of the timesheets: the payment summary of an assignment    *)
(* and the list of assignees (timesheets.service.ts), the list of approved *)
(* and unpaid hours (approved-timesheets.service.ts), and the hours that   *)
(* finance has processed (finance.service.ts).                             *)
(*                                                                         *)
(* A database holds entries, assignments with what is shown of their       *)
(* engagement, and the payments finance knows.  Days are numbers, the      *)
(* first one a Friday; hours are hundredths of an hour, the smallest part  *)
(* that entries and assignments are stored with.  Names, rates and         *)
(* approval comments are carried along unchanged and are left out; a text  *)
(* filter is a set of matching values, or None.                            *)
(***************************************************************************)
EXTENDS Integers, Sequences, FiniteSets, FiniteSetsExt

CONSTANTS None, Refused

\* What a list of assignees can be narrowed to (timesheet-constants.ts).
RollupFilter == {"PendingApproval", "Approved"}

\* A sum of hours, counted hour by hour: each one belongs to its entry, payment or row.
HoursOf(things) == UNION {{x} \X (1 .. x.hours) : x \in things}
Hours(things) == Cardinality(HoursOf(things))

Ids(entries) == {e.id : e \in entries}

Of(db, a) == {e \in db.entries : e.assignment = a.id}

\* The workDate condition of every query; no bound is no condition.
InRange(entries, from, to) ==
    {e \in entries : /\ from # None => from <= e.workDate
                     /\ to # None => e.workDate <= to}

ValidRange(from, to) == from # None /\ to # None => from <= to

Approved(entries) == {e \in entries : e.status = "APPROVED"}

Unpaid(entries) == {e \in entries : e.payment = None}

(***************************************************************************)
(* The payment summary of one assignment.                                  *)
(***************************************************************************)
Weekday(day) == day % 7 \notin {2, 3}

\* In fifths of a hundredth: older assignments have the hours of a week of five days.
FifthsPerDay(a) == IF a.perDay # None THEN 5 * a.perDay
                   ELSE IF a.perWeek \notin {None, 0} THEN a.perWeek
                   ELSE None

\* The nearest hundredth.
Rounded(fifths) == (2 * fifths + 5) \div 10

\* Standard hours on the weekdays inside both the period and the assignment: the
\* product is rounded, not the hours of a day.
ExpectedHours(a, from, to) ==
    LET start == IF a.startDate = None THEN from ELSE Max({from, a.startDate})
        end == IF a.endDate = None THEN to ELSE Min({to, a.endDate})
    IN  IF None \in {from, to, FifthsPerDay(a)} \/ FifthsPerDay(a) = 0 THEN None
        ELSE IF start > end THEN None
        ELSE Rounded(FifthsPerDay(a) * Cardinality({d \in start .. end : Weekday(d)}))

\* What is payable has been approved and belongs to no payment; what is paid
\* counts whatever has become of the entry since.
PaymentSummary(db, a, viewer, from, to) ==
    LET entries == InRange(Of(db, a), from, to)
        approved == Approved(entries)
        payable == Unpaid(approved)
    IN  IF viewer = "Member" \/ ~ValidRange(from, to) THEN Refused
        ELSE [entryIds |-> Ids(payable),
              totalHours |-> Hours(payable),
              alreadyPaidEntryIds |-> Ids(approved \ payable),
              approvedHours |-> Hours(approved),
              paidHours |-> Hours(entries \ Unpaid(entries)),
              expectedHours |-> ExpectedHours(a, from, to)]

(***************************************************************************)
(* What finance has processed, and the hours left of an assignment, which  *)
(* the timesheet and the approved list compute each by itself.             *)
(***************************************************************************)
UnprocessedStatus == {"CANCELLED", "CREDITED", "FAILED", "RETURNED"}

\* The status of the first installment, if there is one, counts.
IsProcessed(p) == (IF p.installment # None THEN p.installment ELSE p.status)
                      \notin UnprocessedStatus

Processed(db, a) == {p \in db.payments : p.externalId = a.id /\ IsProcessed(p)}

\* Each view reads finance by itself; db.unread are those whose reading failed.
ProcessedHours(db, a, view) ==
    IF view \in db.unread THEN None
    ELSE Hours({p \in Processed(db, a) : p.hours # None /\ p.hours > 0})

\* resolveHoursLeft of the timesheet: not for the member.
TimesheetHoursLeft(db, a, viewer) ==
    LET processed == ProcessedHours(db, a, "timesheet")
    IN  IF viewer = "Member" \/ a.totalHours \in {None, 0} \/ processed = None THEN None
        ELSE a.totalHours - processed

\* resolveHoursLeft of the approved list.
ListHoursLeft(db, a) ==
    LET processed == ProcessedHours(db, a, "list")
    IN  IF a.totalHours \notin {None, 0} /\ processed # None THEN a.totalHours - processed
        ELSE None

(***************************************************************************)
(* The approved and unpaid hours, one row for each approval.               *)
(***************************************************************************)
AssignmentOf(db, e) == CHOOSE a \in db.assignments : a.id = e.assignment

\* The filters; projects is None for an administrator.
Listed(a, q, projects) ==
    /\ q.engagement # None => a.title \in q.engagement
    /\ q.assignee # None => a.handle \in q.assignee
    /\ projects # None => a.project \in projects
    /\ q.excludeTestProjects => a.project # "test"

\* A mutant of Backlog: what was paid stays in it.
BacklogWithPaid(db, q, projects) ==
    {e \in Approved(db.entries) : Listed(AssignmentOf(db, e), q, projects)}

Backlog(db, q, projects) ==
    {e \in Unpaid(Approved(db.entries)) : Listed(AssignmentOf(db, e), q, projects)}

\* Entries approved in one action share its time and its approver.
ApprovalKey(e) == <<e.assignment, e.approvedAt, e.approvedBy>>

GroupByApproval(entries) ==
    {{e \in entries : ApprovalKey(e) = key} : key \in {ApprovalKey(e) : e \in entries}}

FirstDay(group) == Min({e.workDate : e \in group})
LastDay(group) == Max({e.workDate : e \in group})

FirstEntry(group) == CHOOSE e \in group : e.workDate = FirstDay(group)

SortKey(db, group) ==
    LET a == AssignmentOf(db, FirstEntry(group)) IN <<a.title, a.handle, FirstDay(group)>>

\* The sort keeps approvals of one title, handle and first day in the order in which
\* this query of the database returned their first entries: order[id].  The query
\* sorts by day only, so that the next one may return them in another order.
Before(db, order, g, h) ==
    LET rank(group) == LET key == SortKey(db, group)
                       IN  <<key[1], key[2], key[3], order[FirstEntry(group).id]>>
        r == rank(g)
        s == rank(h)
    IN  \E i \in 1 .. 4 : r[i] < s[i] /\ \A j \in 1 .. i - 1 : r[j] = s[j]

\* The groups in that order: the place of a group is the number of those up to it.
Place(db, order, groups, group) ==
    Cardinality({g \in groups : g = group \/ Before(db, order, g, group)})

InOrder(db, order, groups) ==
    [n \in 1 .. Cardinality(groups) |->
        CHOOSE g \in groups : Place(db, order, groups, g) = n]

ToRow(db, group) ==
    LET a == AssignmentOf(db, CHOOSE e \in group : TRUE)
    IN  [assignmentId |-> a.id,
         hoursLeft |-> ListHoursLeft(db, a),
         workPeriodStart |-> FirstDay(group),
         workPeriodEnd |-> LastDay(group),
         hours |-> Hours(group),
         entryIds |-> Ids(group)]

Page(s, page, perPage) == SubSeq(s, (page - 1) * perPage + 1, Min({page * perPage, Len(s)}))

TotalPages(count, perPage) == (count + perPage - 1) \div perPage

\* A talent manager sees the projects they are a member of; none if that cannot
\* be found out.
FindApprovedTimesheets(db, caller, q, order) ==
    LET projects == IF caller.admin THEN None ELSE caller.projects
        groups == InOrder(db, order, GroupByApproval(Backlog(db, q, projects)))
        page == Page(groups, q.page, q.perPage)
    IN  IF ~caller.admin /\ ~caller.tm THEN Refused
        ELSE IF projects = {} THEN [data |-> <<>>, totalCount |-> 0, totalPages |-> 0]
        ELSE [data |-> [i \in DOMAIN page |-> ToRow(db, page[i])],
              totalCount |-> Len(groups),
              totalPages |-> TotalPages(Len(groups), q.perPage)]

(***************************************************************************)
(* The list of assignees.                                                  *)
(***************************************************************************)
Some(entries, status) == \E e \in entries : e.status = status

\* buildEngagementListWhere; the projects it leaves out are configured apart from
\* the test projects.
InEngagementList(db, a, caller, q) ==
    LET entries == InRange(Of(db, a), q.from, q.to)
    IN  /\ a.status = "ASSIGNED"
        /\ ~caller.admin /\ ~caller.tm => caller.userId \in a.managers
        /\ (caller.admin \/ caller.tm) /\ q.manager # None => a.managers \cap q.manager # {}
        /\ a.project # "ignored"
        /\ q.engagement # None => a.title \in q.engagement
        /\ q.assignee # None => a.handle \in q.assignee
        /\ q.status = "PendingApproval" => Some(entries, "SUBMITTED")
        /\ q.status = "Approved" => Some(entries, "APPROVED") /\ ~Some(entries, "SUBMITTED")
        /\ q.status = None /\ {q.from, q.to} # {None} => entries # {}

\* The rolled-up status is grouped by another query, over the same period.
ToRollupStatus(db, a, q) ==
    LET counted == {e \in InRange(Of(db, a), q.from, q.to) :
                        e.status \in {"SUBMITTED", "APPROVED"}}
    IN  IF Some(counted, "SUBMITTED") THEN "PendingApproval"
        ELSE IF Some(counted, "APPROVED") THEN "Approved"
        ELSE "NotSubmitted"

ToEngagementRow(db, a, caller, q) ==
    [assignmentId |-> a.id,
     pendingEntryCount |-> Cardinality({e \in InRange(Of(db, a), q.from, q.to) :
                                            e.status = "SUBMITTED"}),
     timesheetStatus |-> ToRollupStatus(db, a, q),
     viewerRole |-> IF caller.admin THEN "Administrator"
                    ELSE IF caller.tm THEN "Tm" ELSE "Manager"]

\* Every page together; the order is the database's.
FindEngagements(db, caller, q) ==
    IF ~caller.admin /\ ~caller.tm /\ caller.userId = None THEN Refused
    ELSE IF ~ValidRange(q.from, q.to) THEN Refused
    ELSE {ToEngagementRow(db, a, caller, q) :
              a \in {b \in db.assignments : InEngagementList(db, b, caller, q)}}

-----------------------------------------------------------------------------
OrZero(n) == IF n = None THEN 0 ELSE n

\* The whole approved list, a request for each page with the order of the query that
\* answered it: each row with its page and where it is on it.
AllRows(db, caller, q, orders) ==
    LET answer(p) == FindApprovedTimesheets(db, caller, [q EXCEPT !.page = p], orders[p])
        rows(p) == {[page |-> p, at |-> i, row |-> answer(p).data[i],
                     hours |-> answer(p).data[i].hours] : i \in DOMAIN answer(p).data}
    IN  UNION {rows(p) : p \in 1 .. answer(1).totalPages}

\* The pages fit together if the database kept one order, or none was needed.
InOneOrder(db, groups, orders, pages) ==
    \/ \A p \in 1 .. pages : orders[p] = orders[1]
    \/ \A g, h \in groups : SortKey(db, g) = SortKey(db, h) => g = h

\* The rows of the backlog share out the payable hours of every assignment: what
\* is paid row by row is what the summaries call payable, an entry is in one row of
\* one page, and the period of a row covers its entries.  Both ways to compute the
\* hours left agree when both could read finance.
BacklogAddsUp(db, caller, q, orders) ==
    LET projects == IF caller.admin THEN None ELSE caller.projects
        groups == GroupByApproval(Backlog(db, q, projects))
        rows == AllRows(db, caller, q, orders)
        of(a) == {r \in rows : r.row.assignmentId = a.id}
    IN  InOneOrder(db, groups, orders, TotalPages(Cardinality(groups), q.perPage)) =>
        \A a \in db.assignments :
            LET all == PaymentSummary(db, a, "Administrator", None, None)
                seen == Listed(a, q, projects)
            IN  /\ UNION {r.row.entryIds : r \in of(a)} = IF seen THEN all.entryIds ELSE {}
                /\ Hours(of(a)) = IF seen THEN all.totalHours ELSE 0
                /\ \A r \in of(a) :
                       /\ r.row.entryIds \subseteq
                              PaymentSummary(db, a, "Tm", r.row.workPeriodStart,
                                             r.row.workPeriodEnd).entryIds
                       /\ db.unread = {} =>
                              r.row.hoursLeft = TimesheetHoursLeft(db, a, "Administrator")

\* A period cut in two has the hours of its parts; the expected hours may be one
\* hundredth off, by the rounding of fifths, on an assignment without hours per day.
PeriodsAddUp(db, from, to, cut) ==
    \A a \in db.assignments :
        LET whole == PaymentSummary(db, a, "Manager", from, to)
            first == PaymentSummary(db, a, "Manager", from, cut)
            second == PaymentSummary(db, a, "Manager", cut + 1, to)
            gap(f) == OrZero(whole[f]) - (OrZero(first[f]) + OrZero(second[f]))
        IN  /\ \A f \in {"totalHours", "approvedHours", "paidHours"} : gap(f) = 0
            /\ gap("expectedHours") \in IF a.perDay = None THEN -1 .. 1 ELSE {0}

\* A list narrowed to a status shows the rows of that status that the list of the
\* same period shows without it, and only those.
StatusesAgree(db, caller, q) ==
    LET rows == FindEngagements(db, caller, q)
        every == FindEngagements(db, caller, [q EXCEPT !.status = None])
    IN  rows # Refused => \A s \in RollupFilter :
            q.status = s => rows = {r \in every : r.timesheetStatus = s}
=============================================================================
