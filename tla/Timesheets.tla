----------------------------- MODULE Timesheets -----------------------------
(***************************************************************************)
(* The timesheet of one assignment: the entry table, its audit trail and   *)
(* the API requests that change them (timesheets.service.ts).              *)
(*                                                                         *)
(* Every handler has the same two halves.  The Read action is              *)
(* resolveContext, the role and status guards and the findMany that runs   *)
(* OUTSIDE the transaction; it leaves the rows it saw in the request.  The *)
(* Commit action is the $transaction: all its writes and audit records, or *)
(* none.  Anything may happen to the table between the two.  Under READ    *)
(* COMMITTED a transaction keeps the row locks it takes until it commits,  *)
(* so its writes can be placed at its commit.  Only the approval decides   *)
(* on rows it has not locked, which it reads back between its update and   *)
(* its records: its transaction is three actions, and the rows its update  *)
(* took are locked against every other write from the first to the last.   *)
(* A request that is refused before its transaction changes nothing: it    *)
(* simply has no Read step.                                                *)
(***************************************************************************)
EXTENDS Naturals, Sequences, FiniteSets

CONSTANTS
    Requests,       \* API calls; each request is issued at most once
    Calls,          \* Calls[r]: the <<operation, viewer role>> pairs r may be
    Dates,          \* work dates
    MaxIncarnation, \* bound: how often one work date's entry may be created
    Hours,          \* hours that parseHours lets through, in thousandths
    Remarks,        \* trimmed remarks, Blank for none
    Blank,
    Payments,       \* payment references
    Instants,       \* readings of the millisecond clock; two may coincide
    None            \* SQL NULL

Operation == {"upsert", "submit", "delete", "approve", "reopen", "linkPayment"}
ViewerRole == {"MEMBER", "MANAGER", "TM", "ADMINISTRATOR"}
Status == {"DRAFT", "SUBMITTED", "APPROVED"}

\* parseHours admits up to 24 hours.
DayHours == {h \in Nat : h <= 24000}

ASSUME ConstantsAssumption ==
    /\ Calls \in [Requests -> SUBSET (Operation \X ViewerRole)]
    /\ MaxIncarnation \in Nat
    /\ Hours # {} /\ Hours \subseteq DayHours
    /\ Remarks # {}

ASSUME NoneAssumption ==
    /\ None \notin Requests \union Payments \union Instants
    /\ None \notin Status \union Operation
    /\ None \notin DayHours

VARIABLES
    live,        \* ids of the rows in EngagementTimesheetEntry
    incarnation, \* how many entries each work date has had
    rows,        \* the row of every id; meaningful for live ids only
    audit,       \* entry-scoped audit records, oldest first
    deletions,   \* engagement-scoped DELETED audit records
    requests,    \* the state of every API call
    assigned     \* the assignment's status is ASSIGNED

vars == <<live, incarnation, rows, audit, deletions, requests, assigned>>

-----------------------------------------------------------------------------
(* Data *)

\* An entry's nanoid, which is never reused: the date it was created for, and
\* which of that date's entries it is.
EntryIds == Dates \X (1 .. MaxIncarnation)
DateOf(id) == id[1]
Issued(id) == id[2] <= incarnation[DateOf(id)]

\* The two fields a member claims, as a request sends them.
Claim == [hours: Hours, remarks: Remarks]

\* The DECIMAL(5,2) column keeps hundredths of an hour, rounding half up.
Column(hours) == ((hours + 5) \div 10) * 10
StoredHours == {Column(h) : h \in Hours}
Stored(claim) == [hours |-> Column(claim.hours), remarks |-> claim.remarks]

\* The same two fields as a row holds them.
Value == [hours: StoredHours, remarks: Remarks]

Row == [value: Value,
        status: Status,
        submittedBy: Requests \union {None},
        approvedBy: Requests \union {None},
        approvedAt: Instants \union {None},
        reopened: BOOLEAN,
        paid: Payments \union {None}]

Draft(claim) == [value |-> Stored(claim), status |-> "DRAFT",
                 submittedBy |-> None, approvedBy |-> None,
                 approvedAt |-> None, reopened |-> FALSE, paid |-> None]

\* previousValues.status, updatedValues.status, updatedValues.hoursWorked and
\* updatedValues.paidPaymentReference; None where the record omits the field.
AuditAction == {"CREATED", "UPDATED", "UNSUBMITTED", "ADMIN_OVERRIDE",
                "SUBMITTED", "APPROVED", "REOPENED", "PAYMENT_LINKED"}
AuditRecord == [action: AuditAction,
                actor: Requests,
                from: Status \union {None},
                to: Status \union {None},
                hours: StoredHours \union {None},
                payment: Payments \union {None}]

DeletionRecord == [entry: EntryIds, actor: Requests, value: Value]

\* An upsert body: parseUpsertEntries refuses a date named twice, so the body
\* is a function of the date.
Payload == UNION {[D -> Claim] : D \in SUBSET Dates}

\* What a handler keeps of the rows it read.
Seen == [status: Status, value: Value]
Snapshot == UNION {[I -> Seen] : I \in SUBSET EntryIds}

\* taken and echoes are an approval's: the rows its update took, and those of
\* others that it read back as approved at its own instant.
Request == [phase: {"new", "read", "find", "record", "done"},
            op: Operation \union {None},
            role: ViewerRole \union {None},
            reason: BOOLEAN,
            payload: Payload,
            seen: Snapshot,
            at: Instants \union {None},
            payment: Payments \union {None},
            taken: SUBSET EntryIds,
            echoes: SUBSET EntryIds]

\* No payload, or no rows read.
Empty == [x \in {} |-> x]

Idle(phase) == [phase |-> phase, op |-> None, role |-> None, reason |-> FALSE,
                payload |-> Empty, seen |-> Empty, at |-> None,
                payment |-> None, taken |-> {}, echoes |-> {}]

TypeOK ==
    /\ live \subseteq EntryIds
    /\ incarnation \in [Dates -> 0 .. MaxIncarnation]
    /\ rows \in [EntryIds -> Row]
    /\ audit \in [EntryIds -> Seq(AuditRecord)]
    /\ deletions \subseteq DeletionRecord
    /\ requests \in [Requests -> Request]
    /\ assigned \in BOOLEAN

-----------------------------------------------------------------------------
(* The first half of a handler: authorise, read, check *)

\* loadEntriesForAction and the findMany of an upsert: the rows named, as they
\* are now.
Load(ids) == [id \in ids |-> [status |-> rows[id].status,
                              value |-> rows[id].value]]

\* The entry ids of an action: at least one, each a row of this assignment.
Selection == (SUBSET live) \ {{}}

\* upsert, submit and delete: not for managers and talent managers, and for
\* the member only while the assignment is ASSIGNED.
MayEdit(role) ==
    /\ role \notin {"MANAGER", "TM"}
    /\ role = "MEMBER" => assigned

\* An override reason counts only from an administrator.
Reasons(role) == IF role = "ADMINISTRATOR" THEN BOOLEAN ELSE {FALSE}

\* submit and approve: an administrator must give an override reason.
ReasonGiven(role, reason) == role = "ADMINISTRATOR" => reason

\* Request r is now in the middle of handler op.
Proceed(r, op, role, reason, payload, seen, at, payment) ==
    /\ requests[r].phase = "new"
    /\ <<op, role>> \in Calls[r]
    /\ requests' = [requests EXCEPT ![r] =
            [phase |-> "read", op |-> op, role |-> role, reason |-> reason,
             payload |-> payload, seen |-> seen, at |-> at,
             payment |-> payment, taken |-> {}, echoes |-> {}]]
    /\ UNCHANGED <<live, incarnation, rows, audit, deletions, assigned>>

\* The entries of an upsert that differ from what was read of them: the others
\* are skipped.  The comparison is with the value sent, before the column
\* rounds it.
Edited(payload, seen) ==
    {id \in DOMAIN seen : seen[id].value # payload[DateOf(id)]}

\* An approved entry may only be edited by an administrator with a reason; the
\* handler finds out inside its transaction, but from the rows it read before.
UpsertRead(r) ==
    \E role \in ViewerRole : \E reason \in Reasons(role), payload \in Payload :
        LET seen == Load({id \in live : DateOf(id) \in DOMAIN payload})
        IN  /\ DOMAIN payload # {}
            /\ MayEdit(role)
            /\ \A id \in Edited(payload, seen) :
                  seen[id].status = "APPROVED" =>
                      role = "ADMINISTRATOR" /\ reason
            /\ Proceed(r, "upsert", role, reason, payload, seen, None, None)

SubmitRead(r) ==
    \E role \in ViewerRole : \E reason \in Reasons(role), ids \in Selection :
        /\ MayEdit(role)
        /\ ReasonGiven(role, reason)
        /\ \A id \in ids : /\ rows[id].status = "DRAFT"
                           /\ rows[id].value.remarks # Blank
        /\ Proceed(r, "submit", role, reason, Empty, Load(ids), None, None)

DeleteRead(r) ==
    \E role \in ViewerRole, ids \in Selection :
        /\ MayEdit(role)
        /\ \A id \in ids : /\ rows[id].status = "DRAFT"
                           /\ rows[id].paid = None
        /\ Proceed(r, "delete", role, FALSE, Empty, Load(ids), None, None)

\* The clock is read for approvedAt after the load and before the transaction.
ApproveRead(r) ==
    \E role \in ViewerRole : \E reason \in Reasons(role), ids \in Selection,
                               at \in Instants :
        /\ role # "MEMBER"
        /\ ReasonGiven(role, reason)
        /\ Proceed(r, "approve", role, reason, Empty, Load(ids), at, None)

ReopenRead(r) ==
    \E role \in ViewerRole, ids \in Selection :
        /\ role = "ADMINISTRATOR"
        /\ \A id \in ids : rows[id].status = "APPROVED"
        /\ Proceed(r, "reopen", role, TRUE, Empty, Load(ids), None, None)

\* Mutant: the status check before the transaction is missing.
PayableAnyStatus(id) == rows[id].paid = None

Payable(id) == /\ rows[id].status = "APPROVED"
               /\ rows[id].paid = None

LinkPaymentRead(r) ==
    \E role \in ViewerRole, ids \in Selection, payment \in Payments :
        /\ role # "MEMBER"
        /\ \A id \in ids : Payable(id)
        /\ Proceed(r, "linkPayment", role, FALSE, Empty, Load(ids), None,
                   payment)

-----------------------------------------------------------------------------
(* The second half: the transaction *)

\* Request r is in handler op and has yet to run its transaction.
Committing(r, op) == /\ requests[r].phase = "read"
                     /\ requests[r].op = op

\* No other transaction holds the lock of one of these rows.
Unlocked(r, ids) == \A s \in Requests \ {r} : requests[s].taken \intersect ids = {}

\* Of a request that is over only the clock reading is kept.
Finish(r) ==
    requests' = [requests EXCEPT ![r] = [Idle("done") EXCEPT
                                            !.at = requests[r].at]]

Audit(action, actor, from, to, hours, payment) ==
    [action |-> action, actor |-> actor, from |-> from, to |-> to,
     hours |-> hours, payment |-> payment]

\* The trail once records, a function of the entry, have been written.
Recorded(records) ==
    [id \in EntryIds |-> IF id \in DOMAIN records
                         THEN Append(audit[id], records[id])
                         ELSE audit[id]]

\* The dates of an upsert for which no entry was read, and the ids they get.
NewDates(q) == {d \in DOMAIN q.payload :
                    \A id \in DOMAIN q.seen : DateOf(id) # d}

\* Mutant: the id of the date's last entry is handed out again.
NewIdsReused(q) == {<<d, incarnation[d]>> : d \in NewDates(q)}

NewIds(q) == {<<d, incarnation[d] + 1>> : d \in NewDates(q)}

\* A member's edit of an entry read as submitted sends it back to draft.
ResetsToDraft(q, id) == /\ q.seen[id].status = "SUBMITTED"
                        /\ q.role # "ADMINISTRATOR"

\* Mutant: the reset clears the submission and forgets the status.
RewriteKeepingStatus(q, id) ==
    LET edited == [rows[id] EXCEPT !.value = Stored(q.payload[DateOf(id)])]
    IN  IF ResetsToDraft(q, id) THEN [edited EXCEPT !.submittedBy = None]
                                ELSE edited

\* An update by id: it does not ask what the row has become since the read.
Rewrite(q, id) ==
    LET edited == [rows[id] EXCEPT !.value = Stored(q.payload[DateOf(id)])]
    IN  IF ResetsToDraft(q, id)
        THEN [edited EXCEPT !.status = "DRAFT", !.submittedBy = None]
        ELSE edited

EditAction(q, id) ==
    CASE q.seen[id].status = "APPROVED" -> "ADMIN_OVERRIDE"
      [] ResetsToDraft(q, id) -> "UNSUBMITTED"
      [] OTHER -> "UPDATED"

\* Mutant: the record repeats the status that was read.
UpsertAuditOfRead(r, q, id) ==
    IF id \in NewIds(q)
    THEN Audit("CREATED", r, None, "DRAFT",
               Column(q.payload[DateOf(id)].hours), None)
    ELSE Audit(EditAction(q, id), r, q.seen[id].status, q.seen[id].status,
               Rewrite(q, id).value.hours, None)

\* updatedValues come from the row the update returned, previousValues from
\* the read before the transaction.
UpsertAudit(r, q, id) ==
    IF id \in NewIds(q)
    THEN Audit("CREATED", r, None, "DRAFT",
               Column(q.payload[DateOf(id)].hours), None)
    ELSE LET row == Rewrite(q, id)
         IN  Audit(EditAction(q, id), r, q.seen[id].status, row.status,
                   row.value.hours, None)

\* Mutant: no unique index on (assignment, work date).
DayFreeAlways(d) == TRUE

DayFree(d) == \A id \in live : DateOf(id) # d

\* A create fails on the unique index over (assignment, work date), an update
\* on a row deleted since; either way the whole transaction is rolled back.
UpsertCommit(r) ==
    LET q == requests[r]
        new == NewIds(q)
        edited == Edited(q.payload, q.seen)
    IN  /\ Committing(r, "upsert")
        /\ \A d \in NewDates(q) : /\ incarnation[d] < MaxIncarnation
                                  /\ DayFree(d)
        /\ edited \subseteq live
        /\ Unlocked(r, edited)
        /\ live' = live \union new
        /\ incarnation' = [d \in Dates |-> IF d \in NewDates(q)
                                           THEN incarnation[d] + 1
                                           ELSE incarnation[d]]
        /\ rows' = [id \in EntryIds |->
                       CASE id \in new -> Draft(q.payload[DateOf(id)])
                         [] id \in edited -> Rewrite(q, id)
                         [] OTHER -> rows[id]]
        /\ audit' = Recorded([id \in new \union edited |->
                                 UpsertAudit(r, q, id)])
        /\ Finish(r)
        /\ UNCHANGED <<deletions, assigned>>

\* Updates by id, whatever status the rows have by now.
SubmitCommit(r) ==
    LET q == requests[r]
        ids == DOMAIN q.seen
    IN  /\ Committing(r, "submit")
        /\ ids \subseteq live
        /\ Unlocked(r, ids)
        /\ rows' = [id \in EntryIds |->
                       IF id \in ids
                       THEN [rows[id] EXCEPT !.status = "SUBMITTED",
                                             !.submittedBy = r]
                       ELSE rows[id]]
        /\ audit' = Recorded([id \in ids |->
                       Audit("SUBMITTED", r, q.seen[id].status, "SUBMITTED",
                             rows[id].value.hours, None)])
        /\ Finish(r)
        /\ UNCHANGED <<live, incarnation, deletions, assigned>>

\* Mutants: the delete does not insist on matching every entry; the delete is
\* guarded on the status alone.
DeletableGone(id) == id \in live => /\ rows[id].status = "DRAFT"
                                   /\ rows[id].paid = None
DeletablePaid(id) == id \in live /\ rows[id].status = "DRAFT"

Deletable(id) == /\ id \in live
                 /\ rows[id].status = "DRAFT"
                 /\ rows[id].paid = None

\* A guarded delete that must match every entry.  The records of an entry go
\* with it; the DELETED record, with the values read, stays.
DeleteCommit(r) ==
    LET q == requests[r]
        ids == DOMAIN q.seen
    IN  /\ Committing(r, "delete")
        /\ \A id \in ids : Deletable(id)
        /\ live' = live \ ids
        /\ audit' = [id \in EntryIds |-> IF id \in ids THEN <<>>
                                                       ELSE audit[id]]
        /\ deletions' = deletions \union
              {[entry |-> id, actor |-> r, value |-> q.seen[id].value]
                  : id \in ids}
        /\ Finish(r)
        /\ UNCHANGED <<incarnation, rows, assigned>>

\* Mutant: the update loses its guard on the status.
ApprovableAny(id) == TRUE

Approvable(id) == rows[id].status = "SUBMITTED"

\* The approval's update, guarded on SUBMITTED: it waits for the rows another
\* approval has taken, and takes those that match.
ApproveUpdate(r) ==
    LET taken == {id \in DOMAIN requests[r].seen \intersect live : Approvable(id)}
    IN  /\ Committing(r, "approve")
        /\ Unlocked(r, taken)
        /\ requests' = [requests EXCEPT ![r].phase = "find", ![r].taken = taken]
        /\ UNCHANGED <<live, incarnation, rows, audit, deletions, assigned>>

\* Every entry named is read back.  Those APPROVED with this request's
\* timestamp are its own, and whatever another request approved in the same
\* millisecond; of the latter it holds no lock.
ApproveFind(r) ==
    LET q == requests[r]
        echoes == {id \in (DOMAIN q.seen \intersect live) \ q.taken :
                      /\ rows[id].status = "APPROVED"
                      /\ rows[id].approvedAt = q.at}
    IN  /\ q.phase = "find"
        /\ requests' = [requests EXCEPT ![r].phase = "record",
                                        ![r].echoes = echoes]
        /\ UNCHANGED <<live, incarnation, rows, audit, deletions, assigned>>

\* A record for every entry so found, and the commit.  A record of an entry
\* deleted meanwhile fails on its foreign key.
ApproveCommit(r) ==
    LET q == requests[r]
        approved == q.taken \union q.echoes
    IN  /\ q.phase = "record"
        /\ approved \subseteq live
        /\ rows' = [id \in EntryIds |->
                       IF id \in q.taken
                       THEN [rows[id] EXCEPT !.status = "APPROVED",
                                             !.approvedBy = r,
                                             !.approvedAt = q.at]
                       ELSE rows[id]]
        /\ audit' = Recorded([id \in approved |->
                       Audit("APPROVED", r, "SUBMITTED", "APPROVED", None,
                             None)])
        /\ Finish(r)
        /\ UNCHANGED <<live, incarnation, deletions, assigned>>

\* Updates by id again: the approval fields are cleared, a payment is not.
ReopenCommit(r) ==
    LET q == requests[r]
        ids == DOMAIN q.seen
    IN  /\ Committing(r, "reopen")
        /\ ids \subseteq live
        /\ Unlocked(r, ids)
        /\ rows' = [id \in EntryIds |->
                       IF id \in ids
                       THEN [rows[id] EXCEPT !.status = "DRAFT",
                                             !.reopened = TRUE,
                                             !.approvedBy = None,
                                             !.approvedAt = None]
                       ELSE rows[id]]
        /\ audit' = Recorded([id \in ids |->
                       Audit("REOPENED", r, q.seen[id].status, "DRAFT",
                             rows[id].value.hours, None)])
        /\ Finish(r)
        /\ UNCHANGED <<live, incarnation, deletions, assigned>>

\* Mutant: the update by id alone, trusting the check before the transaction.
LinkableAny(id) == id \in live

Linkable(id) == id \in live /\ rows[id].paid = None

\* Each update is guarded on the reference being unset, not on the status; the
\* hours audited are those read before the transaction.
LinkPaymentCommit(r) ==
    LET q == requests[r]
        ids == DOMAIN q.seen
    IN  /\ Committing(r, "linkPayment")
        /\ \A id \in ids : Linkable(id)
        /\ Unlocked(r, ids)
        /\ rows' = [id \in EntryIds |->
                       IF id \in ids
                       THEN [rows[id] EXCEPT !.paid = q.payment]
                       ELSE rows[id]]
        /\ audit' = Recorded([id \in ids |->
                       Audit("PAYMENT_LINKED", r, None, None,
                             q.seen[id].value.hours, q.payment)])
        /\ Finish(r)
        /\ UNCHANGED <<live, incarnation, deletions, assigned>>

\* The transaction is rolled back: one of its statements was refused, or the
\* process or the connection was lost.
Abort(r) ==
    /\ requests[r].phase \in {"read", "find", "record"}
    /\ Finish(r)
    /\ UNCHANGED <<live, incarnation, rows, audit, deletions, assigned>>

\* The engagement API moves the assignment into or out of ASSIGNED.
AssignmentStatusChange ==
    /\ assigned' = ~assigned
    /\ UNCHANGED <<live, incarnation, rows, audit, deletions, requests>>

-----------------------------------------------------------------------------

Init ==
    /\ live = {}
    /\ incarnation = [d \in Dates |-> 0]
    /\ rows = [id \in EntryIds |-> Draft(CHOOSE claim \in Claim : TRUE)]
    /\ audit = [id \in EntryIds |-> <<>>]
    /\ deletions = {}
    /\ requests = [r \in Requests |-> Idle("new")]
    /\ assigned = TRUE

Read(r) == \/ UpsertRead(r) \/ SubmitRead(r) \/ DeleteRead(r)
           \/ ApproveRead(r) \/ ReopenRead(r) \/ LinkPaymentRead(r)

Approving(r) == ApproveUpdate(r) \/ ApproveFind(r)

Commit(r) == \/ UpsertCommit(r) \/ SubmitCommit(r) \/ DeleteCommit(r)
             \/ ApproveCommit(r) \/ ReopenCommit(r) \/ LinkPaymentCommit(r)

Next == \/ \E r \in Requests : Read(r) \/ Approving(r) \/ Commit(r) \/ Abort(r)
        \/ AssignmentStatusChange

Spec == Init /\ [][Next]_vars

-----------------------------------------------------------------------------
(* What the table and the trail promise *)

\* An id is handed out once, and leaves nothing behind when its entry goes: no
\* records and no payment.
IdsAreFresh ==
    /\ \A id \in live : Issued(id)
    /\ \A id \in EntryIds \ live : audit[id] = <<>> /\ rows[id].paid = None

\* A request in progress holds what its guards let through.
Checked(q) ==
    /\ \A id \in DOMAIN q.seen : Issued(id)
    /\ q.op = "upsert" =>
          \A id \in DOMAIN q.seen : DateOf(id) \in DOMAIN q.payload
    /\ q.op = "approve" => q.at \in Instants
    /\ q.op = "linkPayment" => q.payment \in Payments
    /\ q.op \in {"reopen", "linkPayment"} =>
          \A id \in DOMAIN q.seen : q.seen[id].status = "APPROVED"
    /\ q.phase \in {"find", "record"} => q.op = "approve"
RequestsAreChecked == \A r \in Requests : Checked(requests[r])

\* What an approval has taken stays submitted until it commits, and nobody else
\* has taken it.
TakenIsHeld ==
    \A r \in Requests :
        /\ \A id \in requests[r].taken : id \in live /\ rows[id].status = "SUBMITTED"
        /\ Unlocked(r, requests[r].taken)

\* The part of the inductive invariant that every proof below builds on.
Foundation == TypeOK /\ IdsAreFresh /\ RequestsAreChecked /\ TakenIsHeld

\* An assignment has at most one entry for a work date, however many requests
\* create that day at once (unique index, create inside the transaction).
OneEntryPerDay ==
    \A id, other \in live : DateOf(id) = DateOf(other) => id = other

\* Every submitted or approved row still says who submitted it, and every
\* approved row who approved it and when, although edits, submissions and
\* reopenings overwrite rows they read earlier.
StampsMatchStatus ==
    \A id \in live :
        /\ rows[id].status # "DRAFT" => rows[id].submittedBy # None
        /\ rows[id].status = "APPROVED" => /\ rows[id].approvedBy # None
                                           /\ rows[id].approvedAt # None

\* The records of a trail that satisfy a description of their fields.
Records(id, actions) == {k \in DOMAIN audit[id] : audit[id][k].action \in actions}
RowRecords(id) == {k \in DOMAIN audit[id] : audit[id][k].to # None}
HourRecords(id) == {k \in RowRecords(id) : audit[id][k].hours # None}
Newest(K, k) == k \in K /\ \A j \in K : j <= k

\* An approval's record that repeats an earlier one of another request at the
\* same millisecond.
Echo(id, k) ==
    /\ k \in Records(id, {"APPROVED"})
    /\ \E j \in Records(id, {"APPROVED"}) :
          /\ j < k
          /\ audit[id][j].actor # audit[id][k].actor
          /\ requests[audit[id][j].actor].at = requests[audit[id][k].actor].at

\* The trail accounts for the row: its newest status and hours are the row's,
\* except that echoes of an approval may come after the record of the status;
\* and it holds a reopening exactly if the row is marked reopened.  (No write
\* escapes the trail, "in both directions", whatever the writer had read.)
AuditMatchesRow ==
    \A id \in live :
        /\ \E k \in RowRecords(id) :
              /\ audit[id][k].to = rows[id].status
              /\ \A j \in RowRecords(id) : j > k => Echo(id, j)
        /\ \E k \in DOMAIN audit[id] :
              /\ Newest(HourRecords(id), k)
              /\ audit[id][k].hours = rows[id].value.hours
        /\ rows[id].reopened <=> Records(id, {"REOPENED"}) # {}

\* An entry is paid exactly if its trail holds one payment record, and it is
\* the payment that record names: no entry is consumed by two payments.
PaymentRecordedOnce ==
    \A id \in live :
        \/ rows[id].paid = None /\ Records(id, {"PAYMENT_LINKED"}) = {}
        \/ /\ rows[id].paid # None
           /\ \E k \in DOMAIN audit[id] :
                 /\ Records(id, {"PAYMENT_LINKED"}) = {k}
                 /\ audit[id][k].payment = rows[id].paid

\* Nothing is reopened, overridden or paid that nobody approved: an approval
\* comes before every such record of the trail, even when the entry has left
\* APPROVED by the time the record is written.
ApprovalComesFirst ==
    \A id \in live :
        \A k \in Records(id, {"REOPENED", "ADMIN_OVERRIDE", "PAYMENT_LINKED"}) :
            \E j \in Records(id, {"APPROVED"}) : j < k

\* An entry that was created and is gone has exactly one DELETED record and no
\* others; an entry that is there, or never was, has none: racing deletes of
\* overlapping selections do not both record the deletion.
DeletionRecordedOnce ==
    \A id \in EntryIds :
        LET records == {d \in deletions : d.entry = id}
        IN  IF id \notin live /\ Issued(id)
            THEN audit[id] = <<>> /\ \E d \in records : records = {d}
            ELSE records = {}

\* Approval is reached only from SUBMITTED, and an approved entry keeps its
\* approver and time until it leaves APPROVED: two managers approving the same
\* entry do not overwrite each other.
ApprovalIsGuarded ==
    [][\A id \in live :
         rows'[id].status = "APPROVED" =>
             \/ rows[id].status = "SUBMITTED"
             \/ /\ rows[id].status = "APPROVED"
                /\ rows'[id].approvedBy = rows[id].approvedBy
                /\ rows'[id].approvedAt = rows[id].approvedAt]_vars

-----------------------------------------------------------------------------
(* What the documents say and the interleavings break *)

\* The request whose handler takes this step.
Writer(r) == requests[r].phase # "done" /\ requests'[r].phase = "done"

\* "An approved entry is frozen for the member and the manager alike. Only an
\* administrator can change it, and only with a reason".
ApprovedIsFrozen ==
    [][\A id \in live :
         rows[id].status = "APPROVED" /\ rows'[id].value # rows[id].value =>
             \E r \in Requests : /\ Writer(r)
                                 /\ requests[r].role = "ADMINISTRATOR"
                                 /\ requests[r].reason]_vars
=============================================================================
