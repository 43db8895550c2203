# Engagements API: a TLA+ model of its engine room

The Engagements API is a NestJS service over PostgreSQL (Prisma, READ COMMITTED)
that runs an engagement from opportunity to paid hours: members apply, are
selected and offered an assignment, accept it, log hours on a timesheet, submit
them; managers approve; finance pays. Several replicas run at once and there is
no lock, version column or queue in the service: nearly every handler reads
with plain queries, decides, and only then opens a transaction. What the
handlers promise therefore has to survive anything that commits between the
read and the write. This project models that gap, what the transactions do
inside it, what is told to the world afterwards, and what the read side makes
of the rows.

Paths below are relative to the repository (`src/` is its source directory).

## 1. Inventory

| Component | State | Operations | Modelled in |
|---|---|---|---|
| Timesheets (`src/timesheets/timesheets.service.ts`, audit, access) | `EngagementTimesheetEntry`, `EngagementTimesheetAudit` | upsert, submit, delete, approve, reopen, link payment | `Timesheets`, `TimesheetLedger`, `TimesheetLocks` |
| Timesheet views, approved hours (`approved-timesheets.service.ts`) | none (reads) | payment summary, list of assignees, backlog of approved hours, hours processed by finance | `TimesheetViews` |
| Events and emails (`timesheet-events`, `timesheet-email`, the offer, response and decision emails) | none (posts after commit, swallows failures) | emit, send | `Notices` |
| Engagement managers (`src/engagements/managers`) | `EngagementManager` (soft delete), audit | assign, remove, list, audit | `EngagementManagers` |
| Engagements and assignments (`src/engagements/engagements.service.ts`) | `Engagement`, `EngagementAssignment` | create, update, remove, remove assignment, set assignment status, accept/reject offer, assign members | `Assignments`, `AssignmentPlan`, `OfferTerms` |
| Engagement reads (same service and its controller) | none (reads) | public, private and own lists, detail, Flexi Talent dashboard | `EngagementReads`, `FlexiViews` |
| Applications (`src/applications`) | `EngagementApplication` | create, approve, update status (two writes), reads | `Assignments`, `OfferTerms` |
| Engagement leads (`src/engagement-leads`) | `EngagementLead`, notes | intake, status, notes, mark converted | `Leads` |
| Feedback, member experience | `EngagementFeedback`, `MemberExperience` | add, one-time link, anonymous submission; create, update | `Feedback` |
| Auth, guards (`src/auth`, the controllers' checks) | none | JWT to user, roles, scopes | `Access` |
| Integrations | none but caches and tokens | event bus, members, projects, skills, finance, emails | the outcomes their callers tell apart |
| DB service, config, migrations, generated client, deploy | none | connect, bootstrap | not modelled |

How they interact: approving an application creates an assignment; accepting
its offer moves it to ASSIGNED, which is what lets its member write to the
timesheet; an `EngagementManager` row gives the authority to approve and to
link payments; feedback and experiences hang on an assignment, which no handler
deletes; every commit is followed by notices. They share nothing but the database,
and most handlers touch the rows of one component inside a transaction after
reading the rows of another outside it.

Hard behaviours, component by component (the full list, at its lines, is
`hazards` in `PROJECT.json`):

* **Timesheets**: read, check, then write by id; guarded writes where two
  approvals, payments or deletions race; a millisecond timestamp used as an
  identity; a trail that must agree with rows other handlers rewrite; a
  DECIMAL(5,2) column compared with an unrounded input; one transaction over
  many rows, locked in different orders by different handlers.
* **Notices**: posted one by one after the commit, to people looked up while
  they change, each of which may fail, and lost with the process.
* **Engagement managers**: check-then-act grant and removal of a soft-deleted
  row; authority revoked while an approval is in progress.
* **Assignments**: an offer answered while it is withdrawn; the first-acceptance
  date; the number of members an engagement may have; a plan computed from a
  snapshot of the assignments; a deletion decided on a count; one offer computed
  by two pieces of code.
* **Applications**: assignment and status written in two steps, with a call to
  another service between them.
* **Leads**: conversion racing a status change. **Feedback**: a secret that is
  drawn until it is free, and checked before it is used.
* **Reads and rules**: a list in SQL and the functions it was written after;
  a detail decided on two readings; a person with several roles at once.

What makes each component correct: timesheet rows and their trail agree,
payments consume approved entries once and for good, a day has one entry; only
a current manager approves; an assignment's dates follow its status and its
first acceptance date stays; the member count is respected; a selected
application has its assignment; a converted lead is closed to whoever comes
later; a secret leads to one row and expires; one failure costs one notice; the
lists, details and sums of one database agree, and show nobody what is not
theirs.

## 2. Modules

| Module | Kind |
|---|---|
| `Timesheets`, `EngagementManagers`, `Assignments`, `Leads`, `Feedback`, `Notices`, `TimesheetLocks` | state machines: one action per handler, split where something may come between |
| `PaymentLedger`, refined by `Timesheets` through `TimesheetLedger` | what whoever pays is promised |
| `TimesheetCommits`, refined by `TimesheetLocks` | a batch as one step: what `Timesheets` takes for granted of a transaction |
| `AssignmentPlan`, `OfferTerms`, `EngagementReads`, `FlexiViews`, `TimesheetViews`, `Access` | operators without state, each from its own text in the source |
| `MC...` | instances for the model checker; `MCAnswers` is the state machine that asks the stateless modules one question of one database |
| `...Proofs` | theorems |

What is left to do: the lead list and its filters; general theorems about the
parts of the stateless modules that no property mentions (the pages of a list,
the order of a history beyond its head).

## 3. Timesheets

`Timesheets.tla` is the timesheet of ONE assignment: the queries and updates of
the service are all scoped by assignment, so two timesheets do not interact.

| Specification | Code |
|---|---|
| `rows`, `live` | `EngagementTimesheetEntry`; `rows[id]` keeps its last content after the row is gone, for properties to look at |
| `incarnation`, `EntryIds` | the ids `nanoid()` hands out: an id is the work date and which of that date's entries it is |
| `audit` | `EngagementTimesheetAudit` rows with a `timesheetEntryId`; deleted with the entry (cascade) |
| `deletions` | audit rows with an `engagementId` and action DELETED |
| `assigned` | `EngagementAssignment.status = ASSIGNED` |
| `requests` | the local variables of every handler in progress: role, payload, rows read, timestamp |
| `UpsertRead` ... `LinkPaymentRead` | everything before `$transaction`: `resolveContext`, role and status guards, `findMany` |
| `UpsertCommit` ... `LinkPaymentCommit` | the `$transaction` |
| `ApproveUpdate`, `ApproveFind`, `ApproveCommit` | the three parts of an approval's: the guarded `updateMany`, the `findMany` of every entry named, and the records with the commit |
| `Abort` | a transaction rolled back: a refused statement, a timeout, a lost process or connection |
| `AssignmentStatusChange` | the engagements API changes the assignment's status |

Abstractions, and why they keep the behaviour:

* A transaction but the approval's is one step. Under READ COMMITTED it keeps its
  row locks until it commits, and its writes either go by id or have their guard
  evaluated on the locked row, so what it wrote can be placed at its commit.
  `TimesheetLocks` takes that apart (below).
* An approval reads back what it updated and tells its own entries by the status
  and the millisecond, so it also finds what another request approved in that
  millisecond (`echoes`), of which it holds no lock. Between that reading and its
  records such an entry may be reopened, edited or deleted. Nobody else can write
  what it updated itself (`taken`, `Unlocked`).
* The role lookup, the entry read and the clock reading of a handler are one
  step: nothing they return is compared with one another. A stale role is
  covered, as the role is kept and used after the read.
* `overrideReason` is given or not; handles, comments, `updatedBy` and paging
  are left out. Hours are thousandths of an hour so that the rounding of the
  DECIMAL(5,2) column is visible; `parseHours` admits 0 to 24 hours.
* A request refused before its transaction changes nothing and has no step. An
  upsert that would be refused for an approved entry inside its transaction is
  rolled back whole, so its refusal is a guard of the read as well.
* Events and emails follow the commit and change nothing here (`Notices`).

`TimesheetLedger.tla` maps that state to `PaymentLedger.tla`, which knows
entries, approvals and payments only. An upsert that creates entries is the
ledger's `Log`, an approval its `Endorse`, a deletion its `Discard`, a linked
payment its `Pay`; every other step is a stutter.

`TimesheetLocks.tla` is a transaction statement by statement: `rest[t]` is what
is left of its rows in the order it takes them, `holder` the row locks. A submission, a
reopening and a payment loop over the entries in the order of their work dates
(`loadEntriesForAction`); an upsert follows the payload, and an approval or a
deletion is one statement whose order is the database's (`Orders`). A row that is
held is waited for; one that does not match is passed over by an approval or a
deletion (`PassOver`) and fails an update by id or a payment (`FailUpdate`).
`BreakDeadlock` is PostgreSQL failing one transaction of a circle; `Conflict` is
a deletion that counted too few rows. Reduced to what the order of statements
can disturb: an entry is its status and whether it is paid, or no row, and a
transaction is its kind and its selection. Rows created in the transaction are
nobody else's to wait for and are left out (two creations of one day meet in the
unique index, in `Timesheets`).

`TimesheetViews.tla` reads the same rows: the payment summary of an assignment
(`PaymentSummary`, with expected, approved and paid hours), the backlog of
approved and unpaid hours grouped by approval, the list of assignees with its
rolled-up status, and the hours finance has processed. Days are numbers, the first
one a Friday, and hours are hundredths of an hour. A sum of hours is the number of
its hundredths, each a pair of its entry and which of the entry's it is
(`HoursOf`), and a sort gives each group the number of those that do not come after
it (`Place`); both say what the code's loops compute without recursion, which the
prover could not follow. What the code computes with care, the model has:

* Expected hours of an assignment with hours per week are a fifth of them per
  weekday, and only the product is rounded (`FifthsPerDay`, `Rounded`). The two
  parts of a period may therefore have a hundredth more or less than the whole.
* Each view reads finance by itself (`unread` are the views whose reading failed):
  the hours left of the approved list and of the timesheet agree if both could read.
* The backlog is sorted by title, handle and first day. Groups that tie stay in the
  order in which the query returned their first entries, and the query sorts by
  work date only; so the order of ties is a parameter of each request
  (`order`). If the database turns a tie between two pages, a row may be on both or
  on neither: without its premise `InOneOrder`, `HoursAddUp` is violated.

`docs/TIMESHEET_API.md:249-251` describes another list of assignees ("an assignment
that is still active or one that already has entries", "otherwise `Approved`"). The
code lists assignments that are ASSIGNED, and an assignee with neither submitted
nor approved entries is NotSubmitted; the model is the code's.

## 4. Engagement managers

`EngagementManagers.tla` is the register of ONE engagement, and the approvals
made on its timesheets with a manager's authority.

| Specification | Code |
|---|---|
| `register` | `EngagementManager`: one row per member (unique index), soft-deleted; `removedBy` stands for `removedAt` and `removedBy`, which are set and cleared together |
| `trail` | `EngagementTimesheetAudit` rows with MANAGER_ASSIGNED and MANAGER_REMOVED; its order is the order of commits |
| `AssignRead`, `RemoveRead` | the checks of `assign` and `remove` up to `$transaction` |
| `AssignCommit`, `RemoveCommit` | their transactions: create or update by id, and the record |
| `ApproveRead`, `Approve` | the role lookup of a timesheet handler (`isEngagementManager`) and the transaction that trusts it |
| `AssignmentCreated`, `EngagementRemoved` | the engagements API: the first assignment, and the deletion that is only possible without one (foreign key) |
| `checkedAt` | a history variable: the length of the trail at the role lookup; no request reads it |

Left out: handles, names, the invitation email, and the membership and status
check of the new manager, which refuse a request before it reads. A refused
caller has no step.

## 5. Assignments and applications

`Assignments.tla` is ONE engagement with its assignments and applications.

| Specification | Code |
|---|---|
| `rows` | `EngagementAssignment`; no handler deletes a row. An id is a member and which of the member's assignments it is (`nanoid()`) |
| `Row.acceptedAt`, `Row.legacy` | the date, named by the request whose clock reading it is; and that the row was ASSIGNED before the column was there, for which the date is null (`src/prisma/schema.prisma:210`, no migration fills it) |
| `Unrivalled` | the partial unique index on engagement and member over SELECTED and ASSIGNED rows (`src/prisma/migrations/20260429070000_drop_stale_assignment_member_uniques`): a write that would make a second active row of a member fails, and its request is rolled back (`Abort`) |
| `applications` | each member's `EngagementApplication.status`. Three values stand for six: UNDER_REVIEW, SHORTLISTED and ACCEPTED are handled as REJECTED is, but for an email |
| `required`, `exists` | `Engagement.requiredMemberCount`, and that the row is there |
| `AnswerRead`, `SetStatusRead`, `RemoveRead`, then `WriteRow` | `acceptAssignmentOffer` and `rejectAssignmentOffer`, `updateAssignmentStatus`, `removeAssignment`: find, check, update by id |
| `AssignMembersRead`, `ResizeRead`, then `PlanCommit` | an update of the engagement that lists members, or only changes the count |
| `AssignMemberRead`, `AssignMemberLookup`, then `PlanCommit` | an update that names one member: the lookups run inside the transaction, and nothing they find is locked |
| `ApplyRead`, `ApplyCommit` | a new application; the unique index has the last word |
| `DecideRead`, `SelectLookup` or `UnassignLookup`, `PlanCommit` or `WriteRow`, `WriteApplication` | `updateStatus` and `approve`: the assignment first, the application's status last |
| `DeleteRead`, `DeleteCommit` | the deletion, refused while there are assignments; applications go with it (cascade) |
| `Abort` | a refused statement, a failing email between the two writes of a decision, a lost process |
| `overlapped`, `revived` | history variables: some request began during another; an ended row was set active |

Abstractions, and why they keep the behaviour:

* Reading inside a transaction is a step apart from its writes, because READ
  COMMITTED locks nothing that is only read. The consecutive queries of the
  single-member path (the member's active row, the number of active rows) are
  one step, and so is the second read of `removeAssignment` with the first.
* `planAssignmentMutation` is abstracted to its outcome: a listed member keeps
  one active row or is offered one, and every other active row ends. Which of
  its active rows a member keeps is left open; the details that are rewritten
  in kept and ended rows are left out.
* `findFirst` picks one of a member's active rows by its date; the model takes any.
  By the index there is one at most, so they agree.
* Creation is the initial state: a private engagement starts with the members
  it was created with, or with some of them accepted before acceptances were dated.
  Terms, rates and work dates of an assignment, emails and
  events are left out: no guard of a handler modelled here reads them.
* The engagement's own status is left out. Only a new application reads it (it
  must be OPEN), an update may set any status at any time, and nothing that
  happens to assignments depends on it: the check is a refusal that may come or
  not.

`AssignmentPlan.tla` is what one such request computes: the members that ids,
handles or detail rows name (`MembersOfDetails`, `MembersOfArrays`), and the plan
`planAssignmentMutation` makes of them and of the assignments there are, which
row of the payload goes to which row of the table, what is created and what is
ended; a payload that names nobody plans nothing. `OfferTerms.tla` has the terms
of the offers that come of it: the two normalisations, the two weekly rates, the
row each path writes, and whom it mails. The k-th of a member's rows takes the k-th assignment in the queue the code
builds for that member (`Place`, `Turn`), which is what its shifting of arrays
comes to.

## 6. Leads, feedback and notices

`Leads.tla`: `leads` is the table, `StatusRead`/`NoteRead`/`ConvertRead` find an
open lead, the commits update it by id. `links` and `witnesses` are history:
the engagements a lead was converted into, and who was at work on it when it
became CONVERTED. `updateStatus` may itself set CONVERTED, without an
engagement, and a status or a note decided before a conversion may land after
it and reopen the lead; the properties say how far that damage goes.

`Feedback.tla`: every statement is a step. A link is drawn (`DrawFresh`,
`DrawTaken`) until its secret is free or the attempts are used up; a submission
checks the link (`SubmitRead`) and then writes (`SubmitWrite`); `Expire` is the
clock passing the date. Text and ratings are named by the request that gave
them. A member experience is found by its own id under the assignment of the
path. A rating that is not sent stays, and a null clears it (`Given`, `Rating`):
`@IsOptional` lets both through and the update writes what is not undefined. No
handler deletes an assignment, so neither does the model. A service
account whose token names no user can never create an experience, since the
caller must be the member; that is how the code reads and what the model does.

`Notices.tla`: one call goes through `post` (the event), `find` (the
recipients) and `mail` (the parallel posts) for each kind of its script
(`Scripts`), and is answered. `sent` and `failed` record what became of each
notice. Contents are left out, and so is the bus behind a successful post.
An engagement update compares the mail it sends with the row read before its
transaction; which notices that makes is left open in `Scripts`.

## 7. Reads and rules

`EngagementReads.tla` goes from the controller's checks to the rows returned:
`List`, `ActiveList`, `MyAssignments` and `Detail`, the last one with both of
its readings of the database. `FlexiViews.tla` has the dashboard twice, as the
service has it: the member list in SQL (`Sql...`), the detail, the history and
the comparison functions in TypeScript, on one calendar with months of unequal
length and assignments that end at noon. `ORDER BY` is the first key that differs
(`SqlBefore`), a comparison function the first difference that is not zero
(`FirstNonZero`), and a sorted list has each row at its `Place`. Titles, handles and
ids have one order in the model: that the database's collation and `localeCompare`
order them alike is assumed, not shown. Months are those
of three years, and the ignored projects and the instant of the request are
constants. `Access.tla` composes middleware,
guard, controller and service checks; the operator of a handler is the set of
those among them that serve a caller.

What reading the code for them showed, and the models have:

* The global prefix keeps the middleware's list of public paths from ever
  matching, so a token that does not verify is refused on public routes too.
  `ScopesGuard` is used by no route.
* A member-scoped private list shows engagements the caller merely applied to or
  is no longer assigned to; opening one of them is refused with 401. A public
  engagement ON_HOLD can be opened by id although lists hide it.
  `my-assignments` returns whole records, past the serializer of the others, and
  finds skills by the ids it is sent only, where the other lists resolve names
  (`SkillsOf`).
* A talent manager is documented as read-only on timesheets
  (`src/timesheets/timesheet-access.service.ts:47`) and may approve, and link payments.
  An administrator who is the assignee is a Member on that timesheet, while the
  list of assignees still calls the caller Administrator.
* `applications.findAll` filters nothing for a person whose token has no user
  id; the role ProjectManager narrows the list to the caller's own projects.
* Two lists of test projects are configured apart (`TIMESHEET_IGNORED_PROJECT_IDS`
  and `TEST_PROJECT_IDS`), and the timesheet views use one each.
* An engagement edit without a payment cycle resets it to WEEKLY, the approval of
  an application keeps it; with a null one the edit does the same, and the approval
  writes it to a column that is not nullable and fails (`CannotBeStored`).
  A legacy `agreementRate` alone leaves rate and hours as they were.

## 8. What the runs show

| Run | Question | Bounds | Distinct states |
|---|---|---|---|
| `life` | Do row and trail agree through a whole life, with a race at every stage? | 1 date, 2 incarnations, 6 requests, 2 hour values, 2 payments, 2 clock readings | 297 536 |
| `batch` | Are days unique and deletions recorded once, whatever batches overlap? | 2 dates, 2 incarnations, 4 requests, remarks blank or not | 46 300 |
| `pay` | Do the handlers implement the payment ledger? | 2 dates, 6 requests, 2 payments | 14 386 |
| `register` | Do the rows of managers, the trail and the approvals agree? | 2 members, 6 requests | 275 018 |
| `assignments` | Do dates, offers and applications agree in every interleaving, and the limit without one? | 2 members, 2 assignments each, offered or accepted before dates were kept, 4 requests, 1 or 2 required members | 187 130 |
| `locks` | Do statements under row locks add up to one step, and do those that follow the work dates keep nobody waiting? | 2 entries in any status, paid or not, 3 transactions of one to three kinds, every order | 172 738 |
| `notices` | Is nobody told who should not be, does one failure cost one notice, is the caller answered? | 3 people, 1 call of any kind, 2 templates missing | 56 662 |
| `leads` | What remains of a conversion that raced? | 2 leads, 2 engagements, 6 requests | 31 439 |
| `feedback` | Does a link lead to one row, last answer standing, and end? Are experiences their member's own? | 2 assignments, 5 requests, 1 secret, 3 draws, ratings given, null or absent | 39 840 |
| `answers` | Do the read side and the rules agree with themselves and with each other? | see `MCAnswers.tla` | 843 558 |

Workloads (the `MC` modules) only say which endpoint (and role) a request may
have; bodies, selections, payment references, timestamps and the order of all
steps are free.

Why the bounds are enough. One date is enough for row-and-trail agreement
because every commit treats each row of its batch alike and independently; two
dates are what a partial batch and an overlap need, and two rows what a
deadlock needs. Two incarnations are what a stale id needs to meet a recreated
day. Two members are what a race for one place needs, and two assignments for
each what a stale id of an ended assignment needs beside its successor; the
bound is the guard marked `bound` in `PlanCommit`. Four requests are an
application, two decisions that race, and one of everything else. One secret
makes every second draw collide, and three draws, as the code has them, use all
attempts. Calls share nothing in `Notices` but the register of managers, which
changes by itself, so one call is enough. Clock readings, payment references,
members, leads and engagements are compared for equality only, so permuting
them is a symmetry; no run with a liveness property uses one.

`answers` fills a database, asks one question and stops, so that each of its
nine properties is a claim about every database and question of a bounded set:
months of 31, 30 and 29 days, end dates stored or computed, ties in every sort
key, pages of one row; an engagement of every shape beside a private one, skills by id
and by name, and the changes that may come between two readings; every set of roles
with no scope, one or all; rates and hours at zero, absent, null and equal to the
old ones; up to three assignments of two members and up to three rows that name them;
hours on both sides of a weekend, paid, reopened, approved together and apart, ties
that turn between pages, a finance that one view cannot read.

In the timesheet runs there is no deadlock to allow for: the assignment's status
can always change. The others do stop, when every request has been issued and
has ended, so they do not check for deadlock; `OrderedEnd`, `LinkEnds` and
`AnsweredAfterCommit` say what must not stop before.

Two more runs each look at one sentence of the repository about the code and
find an interleaving that contradicts it (`findings` in `PROJECT.json` quotes
them):

| Run | What happens |
|---|---|
| `edit_after_approval` | an edit decided on a draft rewrites an entry approved meanwhile |
| `answer_after_removal` | an acceptance read before a removal makes the terminated assignment ASSIGNED |

What remains true in their presence is what the passing runs check: the trail
tells what happened even when a stale write did it, and an assignment revived
by a stale answer still has its dates.

Stale reads with smaller consequences are in the models and have no run of
their own: a member's late write lands after the assignment left ASSIGNED; a
submission does not see an edit made since its read; a DELETED record holds the
values read before the transaction; a payment checked against an approved entry
lands after it was reopened; two approvals with one timestamp both record the
same approval, the later possibly after the entry was reopened, so that
`AuditMatchesRow` excepts such an `Echo` and nothing else; three-decimal hours never equal
the rounded column, so sending them again is a change; two removals of one
manager both succeed, the later overwriting who removed the manager; two overlapping acceptances overwrite the
first acceptance date. The member count can be exceeded when two selections
overlap; `LimitsHoldInTurn` says when it cannot.

## 9. Fairness

Three specifications assume some, each weak fairness of single calls:

* `Feedback` (`FairSpec`): `Continue(r)`. A request under way awaits a statement
  of the database, which answers it, well or badly, and the runtime resumes the
  caller. The draws of a link are bounded by the code, not by fairness:
  collisions may go on for ever. `Abort` and `Expire` are never promised.
* `Notices`: `Send(r)`. Every lookup and post settles, but which way is
  free, so no delivery is ever promised. The service sets no timeout of its own
  on them, so this leaves out a peer that accepts a connection and keeps it open
  for ever: such a peer would hold the answer back as long. `Crash` is
  possible at any time, which is why `AnsweredAfterCommit` excepts a lost
  process.
* `TimesheetLocks`: `Continue(t)`. A statement whose row is free runs. Neither
  that PostgreSQL breaks a deadlock nor that a transaction times out is assumed:
  `OrderedEnd` says that the code's own order is enough for every transaction to end,
  unless one that does not follow it is in a circle.

The other modules promise safety only; their handlers never wait for one another.

## 10. Proofs

All theorems hold for every number of requests, dates, values, members and
payments, and any workload. The assumptions are the named ones of the modules:
`ConstantsAssumption` and `CallsAssumption` type the constants (hours between 0
and 24, known endpoints), `BoundsAssumption`, `EntriesAssumption` and
`AttemptsAssumption` bound ids, counts and draws by naturals and make members
and entries finitely many, `PeopleAssumption` keeps people apart from the topic of the bus, and `NoneAssumption` says that NULL is
no value.

**Timesheets.** An invariant about one entry can be disturbed by a step in few
ways. `EntryStep` proves the list: an entry is kept, born,
gone, rewritten, submitted, approved, reopened or paid, each with the record it
adds to the trail. Every other proof goes through that list.

* `FoundationHolds`, `TypeCorrect`: `Foundation` is
  inductive. It adds to the types that an id is handed out once and leaves
  nothing behind (`IdsAreFresh`), and that a request in progress holds what its
  guards let through (`Checked`). Both are needed: a commit uses ids and values
  read at another time, and only `Checked` says where they came from.
* `DaysAreUnique`, `StampsHold`, `ApprovalGuarded`, `PaymentsRecordedOnce`.
* `ApprovalFirst`: a payment is decided from a read, so the invariant is
  strengthened by `ApprovalKnown`: whoever has *seen* an entry APPROVED knows
  of an APPROVED record in a trail that only grows.
* `TrailMatchesRow`: the record a step adds `Tells`
  what the step made of the row, and what it is silent about was left alone. The
  record of an approval that another request made in the same millisecond tells
  nothing new: it is an `Echo` of a record that is on the trail already, because
  whoever approved the entry has committed its record with it.
* `DeletionsRecordedOnce`: an id is recorded as
  deleted only when it was issued and is not live, and is not issued again.
* `PaymentsSafe`: the refinement. Initial states map to initial states and each
  handler's step to the ledger's step or a stutter, under the invariants above.

**Engagement managers.** `Inductive` carries what an approval relies on
(`Authorised`: a grant without a removal before the role check, a row, an
assignment that keeps the engagement from being deleted) from the role check to
the approval and beyond. `RegisterTyped`, `RegisterExplained`, `ApproversHadAuthority` and
`ApproversStay` follow.

**Notices.** `Inductive` is the types and six statements about each call
(`Sound`). A call under way is at a kind of its script, has dealt with that kind's
event before it looks anybody up, and whoever must hear and neither has nor was
given up is still due (`AtKind`); who is due a submission was a manager since the
commit (`DueToManagers`); the managers of the moment are between those who were
so all the time and those who ever were (`Between`), which the lookup needs because the
register changes under the call; a call that has not committed has sent nothing
(`Unsent`). The last two are the properties themselves, and `Enter`, which goes
to the next kind, keeps what was said of the kinds behind it. From it
`NoticesTyped`, `ManagersAreTold`, `FailuresStayApart`.

**Assignments.** `Inductive` adds to the invariants what each request relies on
(`Sound`): the row it will write exists and, if it makes it ASSIGNED without a
date, has a date; a decision that goes on to write SELECTED leaves an
assignment behind. It survives the steps of others because rows never disappear
and dates are never taken back (`Grows`). `InTurn` adds that without overlap one
request at a time is in progress, so what it read is still so. From these:
`AssignmentsTyped`, `DatesFollow`, `SelectionsOffered`,
`DeletionsOrphanNothing`, `AcceptanceStays`. `LimitsHold` needs more: what a request
has counted. That a member has one active assignment (`Sole`) holds always, by the
index. `Prepared` says of a request that is about to write a plan that the
assignments the plan leaves and those it makes fit the limit; `Within` says that
without overlap and without a revival this holds of every request, because all
others are at rest (`InTurn`), and the limit itself with it. The count of active
assignments is at most the count of members by the injection that takes an
assignment to its member, for which the members must be finitely many.

**Leads.** `Inductive` adds to the types that a request at work on a lead holds
an existing one and that a lead not taken in has no links. `LastConversionLinks` says
that only a conversion writes the engagement; `ConvertedIsClosed` that whoever changes a
converted lead is a witness of its conversion, because it found the lead open.

**Feedback.** `Inductive` adds that a request that has not ended has written
nothing (`Unspent`), so that a row found once is never made anew; what a
submission or a revision found stays true, and a
submission whose link expires is among those under way then (`Sound`); a row
keeps the secret returned for it, and whoever wrote to it has ended (`Known`).
From these and the unique column: `FeedbackTyped`, `LinksAreTheirOwn`,
`LastAnswersStand`, `MembersWriteTheirOwn`, `ExpiryIsFinal`.

**Locks.** `Inductive` has three parts: the rows a running transaction has
written are held by it and fit what it does, and what it selected is either
held, passed over or still to come (`Busy`); one that is not running holds
nothing (`Free`); one that follows the work dates holds only rows before those
it wants (`InTurn`). From the first two, `BatchesAreAtomic`: every step of the
statements is a step of `TimesheetCommits` or a stutter, since a committed row
was locked, and therefore unchanged, from its check to the commit. From the
third, `SortedIsFree`: in a circle of transactions that follow the dates, the
one that waits for the earliest row holds a still earlier one that another
waits for.

**Answers.** The modules without a state are proved about twice. Each part of a
property is first a theorem about its operators for every database, caller and
query of the right shape, however many rows, people and pages there are; `Posed`,
an invariant of `MCAnswers`, then says that what the model asks has that
shape, and the theorem becomes one of the specification.

* *Access.* `EveryCallersDuties`, `EveryPersonsOwn`: a caller is admitted by one
  of the groups of handlers, and each group is followed to its checks.
* *Offers.* `EveryOfferAgrees`, `EveryChangeIsMailed`: the fields one by one, a null
  payment cycle apart.
* *Lists and details.* `EveryAnswerIsTight` (for any two readings of the database)
  and `EveryListAgrees`.
* *Plans.* `EveryPlanIsKept`, `EveryCreationIsKept`. The places in a member's
  queue are 1 to n, each once, because a row's place counts the rows that
  do not come after it in a total order; so a row of the payload and
  an assignment meet once, at most one active assignment of a member is left, and
  the limit was held against exactly that many. A payload that names nobody is a
  case by itself.
* *Hours.* `EveryBacklogAddsUp`, `EveryPeriodAddsUp`, `EveryStatusAgrees`. The
  groups of the backlog are disjoint; under one order of the query their places are
  1 to n, and a place lies on one page (`FitTogether`): rows and groups correspond
  one to one, and so do the hours of either side. If no two groups tie, every order
  is that one (`OneOrderSuffices`). The entries of the two parts of a period are
  disjoint, and so are its weekdays; two roundings are together a hundredth at
  most from the rounding of the sum. The tables are finite, an assignment has one
  entry a day (the unique index), hours are naturals.
* *Dashboard.* `EveryListIsReference`, `EveryMemberIsOne`, `EveryBucketAddsUp`.
  The two end dates are equal because an instant is the start of its month plus
  the rest; the keys of `ORDER BY` decide as the comparison functions do, key by
  key, null by null; both are total orders with the identifier as their last
  key, so each row has one place; the member's primary by the comparisons and the row
  SQL picks correspond one to one and keep the order, so the pages cut from
  them are equal. `IsDashboard` asks for finite tables, unique ids, an engagement
  for every assignment, titles, handles and ids that are ordered as numbers are,
  and dates within the model's three years.

From these, in every state of the model: `DutiesAreKept`, `SelfServiceIsKept`,
`OffersAreKept`, `NothingIsLeaked`, `ListsAreOne`, `MembersStayKept`,
`HoursStayTrue`, `ListsStayReference` and `ViewsStayOne`. They assume that null
and a refusal are none of the values answered (`NoneIsNoAnswer`,
`RefusalIsNoOffer`) and that the request is made at an instant
(`TodayIsAnInstant`).

What has no theorem: no invariant and no refinement of a passing run. Only
model-checked are the three properties that say something must happen,
`OrderedEnd`, `LinkEnds` and `AnsweredAfterCommit`, which need liveness under
fairness and ENABLED, out of the prover's reach; and the two sentences the code
does not keep, `ApprovedIsFrozen` and `EndedStaysEnded`, whose runs show
counterexamples.

## 11. Not modelled

* The list of leads and the prefill of an engagement form from a lead; the view
  of one timesheet and of its trail, the list of managers, feedback and
  experiences: reads that return rows as they are stored.
* The date of an assignment's last payment, which the lists of assignments show; it
  is read from finance apart from the hours.
* Names, rates, addresses and skills fetched from other services to decorate
  answers, the lookups of time zones and skills, and the HTTP clients with
  their tokens and caches. Where a caller depends on their failure, the failure
  is a step or an outcome.
* The validation and trimming of request bodies (DTOs), except where a handler
  decides on its outcome.
* The fields of an engagement no handler decides on; its own status, which an
  update may set to anything at any time.
* Database connection, configuration, bootstrap, migrations, generated client
  and deployment, which have no behaviour beyond the schema.
