---------------------------- MODULE Assignments ----------------------------
(***************************************************************************)
(* The assignments of one engagement and the applications that lead to     *)
(* them: selection, offer, acceptance, removal, and the updates that       *)
(* install members (engagements.service.ts, applications.service.ts).      *)
(*                                                                         *)
(* A request reads in one step, decides what it will write, and writes in  *)
(* another; nothing it read is locked, whether the read is outside or      *)
(* inside its transaction.  Refused requests change nothing and have no    *)
(* step.                                                                   *)
(***************************************************************************)
EXTENDS Naturals, FiniteSets

CONSTANTS
    Requests,     \* API calls; each is issued at most once
    Calls,        \* Calls[r]: the operations r may be
    Members,      \* members who apply or are assigned
    MaxPerMember, \* bound: assignments a member may get over time
    Counts,       \* values of requiredMemberCount
    None          \* SQL NULL, or not given

Operation == {"answer", "setStatus", "remove", "assignMembers", "assignMember",
              "resize", "apply", "decide", "delete"}

ASSUME CallsAssumption == Calls \in [Requests -> SUBSET Operation]
ASSUME BoundsAssumption == MaxPerMember \in Nat /\ Counts \subseteq Nat \ {0}
                           /\ IsFiniteSet(Members)

VARIABLES
    exists,       \* the engagement has not been deleted
    required,     \* its requiredMemberCount
    rows,         \* the EngagementAssignment table; no row is ever deleted
    applications, \* each member's application status, or None
    requests,     \* the state of every API call
    overlapped,   \* history: a request began while another was in progress
    revived       \* history: a status was set that made an ended row active

vars == <<exists, required, rows, applications, requests, overlapped, revived>>

-----------------------------------------------------------------------------
(* Data *)

\* nanoid() never repeats: an id is a member and which of the member's
\* assignments it is.
Ids == Members \X (1..MaxPerMember)

ActiveStatus == {"SELECTED", "ASSIGNED"}
FinalStatus == {"OFFER_REJECTED", "COMPLETED", "TERMINATED"}
Status == ActiveStatus \union FinalStatus

\* UNDER_REVIEW, SHORTLISTED and ACCEPTED are treated like REJECTED, except for
\* an email.
ApplicationStatus == {"SUBMITTED", "SELECTED", "REJECTED"}

\* acceptedAt is the clock reading of some request: the request stands for it.
\* A legacy row was accepted before acceptance dates were recorded, and none was
\* backfilled.
Row == [status: Status, acceptedAt: Requests \union {None}, ended: BOOLEAN,
        legacy: BOOLEAN]

Offer == [status |-> "SELECTED", acceptedAt |-> None, ended |-> FALSE,
          legacy |-> FALSE]

AcceptedBefore == [status |-> "ASSIGNED", acceptedAt |-> None, ended |-> FALSE,
                   legacy |-> TRUE]

\* The acceptance is dated, unless it is older than the dates.
Dated(row) == row.acceptedAt # None \/ row.legacy

\* What an update by id sets; endDate goes with the status.
Data == [status: Status, accepts: BOOLEAN]
Termination == [status |-> "TERMINATED", accepts |-> FALSE]

\* A request is at a phase named for what it does next, with what it needs:
\* the row it writes and how, the members it offers assignments, the rows it
\* terminates, the count it sets (limit: the count it checks against).
Phase == {"new", "write", "lookup", "plan", "select", "unassign",
          "application", "apply", "delete", "done"}
Request == [phase: Phase,
            op: Operation \union {None},
            member: Members \union {None},
            decision: ApplicationStatus \union {None},
            id: Ids \union {None},
            data: Data \union {None},
            offers: SUBSET Members,
            ends: SUBSET Ids,
            count: Counts \union {None},
            limit: Counts \union {None}]

ASSUME NoneAssumption ==
    None \notin Requests \union Operation \union Members \union Ids \union Row
                \union Data \union Counts \union ApplicationStatus

Idle(phase) ==
    [phase |-> phase, op |-> None, member |-> None, decision |-> None,
     id |-> None, data |-> None, offers |-> {}, ends |-> {},
     count |-> None, limit |-> None]

TypeOK ==
    /\ exists \in BOOLEAN
    /\ required \in Counts \union {None}
    /\ rows \in [Ids -> Row \union {None}]
    /\ applications \in [Members -> ApplicationStatus \union {None}]
    /\ requests \in [Requests -> Request]
    /\ overlapped \in BOOLEAN /\ revived \in BOOLEAN

-----------------------------------------------------------------------------
(* Reads *)

Present(id) == rows[id] # None
Active(id) == Present(id) /\ rows[id].status \in ActiveStatus
ActiveIds == {id \in Ids : Active(id)}
ActiveOf(m) == {id \in ActiveIds : id[1] = m}

\* An engagement without requiredMemberCount takes any number.
Fits(n, limit) == limit # None => n <= limit

\* Mutant: zero stands for a count that is not given.
OrNone(count, default) == IF count = None THEN 0 ELSE count

\* A count that is not given leaves the engagement's own.
Or(count, default) == IF count = None THEN default ELSE count

InProgress(r) == requests[r].phase \notin {"new", "done"}

Become(r, request) == requests' = [requests EXCEPT ![r] = request]

Begin(r, op, request) ==
    /\ requests[r].phase = "new"
    /\ op \in Calls[r]
    /\ exists
    /\ Become(r, [request EXCEPT !.op = op])
    /\ overlapped' = (overlapped \/ \E s \in Requests : InProgress(s))
    /\ UNCHANGED <<exists, required, rows, applications, revived>>

Writing(id, data) == [Idle("write") EXCEPT !.id = id, !.data = data]

\* Mutant: every acceptance records its date.
EveryAcceptance(row, status) == status = "ASSIGNED"

\* A date is recorded by the acceptance of a row that had none.
FirstAcceptance(row, status) == status = "ASSIGNED" /\ row.acceptedAt = None

\* The member answers an offer.
AnswerRead(r) ==
    \E id \in Ids, status \in {"ASSIGNED", "OFFER_REJECTED"} :
        /\ Present(id) /\ rows[id].status = "SELECTED"
        /\ Begin(r, "answer", Writing(id,
               [status |-> status,
                accepts |-> FirstAcceptance(rows[id], status)]))

\* An administrator sets any status, whatever the status was.
SetStatusRead(r) ==
    \E id \in Ids, status \in Status :
        /\ Present(id)
        /\ Begin(r, "setStatus", Writing(id,
               [status |-> status,
                accepts |-> /\ rows[id].status # "ASSIGNED"
                            /\ FirstAcceptance(rows[id], status)]))

RemoveRead(r) ==
    \E id \in ActiveIds : Begin(r, "remove", Writing(id, Termination))

\* An update that lists members: each keeps one active row or is offered one,
\* and every other active row ends.  Repeating a member only rewrites the
\* details of ended rows.
AssignMembersRead(r) ==
    \E S \in SUBSET Members \ {{}}, K \in SUBSET ActiveIds,
       count \in Counts \union {None} :
        /\ \A id \in K : id[1] \in S
        /\ \A m \in S : ActiveOf(m) # {} =>
              \E id \in ActiveOf(m) : K \intersect ActiveOf(m) = {id}
        /\ Fits(Cardinality(S), Or(count, required))
        /\ Begin(r, "assignMembers",
               [Idle("plan") EXCEPT !.offers = {m \in S : ActiveOf(m) = {}},
                                    !.ends = ActiveIds \ K,
                                    !.count = count])

\* An update that names no member changes the count only.
ResizeRead(r) ==
    \E count \in Counts :
        /\ Fits(Cardinality(ActiveIds), count)
        /\ Begin(r, "resize", [Idle("plan") EXCEPT !.count = count])

\* An update that names one member looks the member up later.
AssignMemberRead(r) ==
    \E m \in Members, count \in Counts \union {None} :
        /\ Fits(Cardinality(ActiveIds), count)
        /\ Begin(r, "assignMember",
               [Idle("lookup") EXCEPT !.member = m, !.count = count,
                                      !.limit = Or(count, required)])

\* One application of a member; the unique index has the last word.
ApplyRead(r) ==
    \E m \in Members :
        /\ applications[m] = None
        /\ Begin(r, "apply", [Idle("apply") EXCEPT !.member = m])

\* A status for an application: selecting brings an assignment, leaving SELECTED
\* ends it, and the status itself is written last.
DecideRead(r) ==
    \E m \in Members, status \in ApplicationStatus :
        LET was == applications[m] = "SELECTED"
            is == status = "SELECTED"
            next == CASE is /\ ~was -> "select"
                      [] was /\ ~is -> "unassign"
                      [] OTHER      -> "application"
        IN  /\ applications[m] # None
            /\ Begin(r, "decide",
                   [Idle(next) EXCEPT !.member = m, !.decision = status])

\* Only an engagement that never had an assignment is deleted.
DeleteRead(r) ==
    /\ \A id \in Ids : ~Present(id)
    /\ Begin(r, "delete", Idle("delete"))

-----------------------------------------------------------------------------
(* Lookups of a transaction *)

Tables == <<exists, required, rows, applications>>

At(r, phase) == requests[r].phase = phase

Continue(r, request) ==
    Become(r, request) /\ UNCHANGED <<Tables, overlapped, revived>>

\* Mutant: the new member is not counted.
LookupOffByOne(r, limit, found) ==
    LET q == requests[r]
    IN  /\ exists
        /\ \/ /\ ActiveOf(q.member) # {}
              /\ Continue(r, [q EXCEPT !.phase = found])
           \/ /\ ActiveOf(q.member) = {}
              /\ Fits(Cardinality(ActiveIds), limit)
              /\ Continue(r, [q EXCEPT !.phase = "plan",
                                       !.offers = {q.member}])

\* The member's row is kept, or one is offered if there is room.
Lookup(r, limit, found) ==
    LET q == requests[r]
    IN  /\ exists
        /\ \/ /\ ActiveOf(q.member) # {}
              /\ Continue(r, [q EXCEPT !.phase = found])
           \/ /\ ActiveOf(q.member) = {}
              /\ Fits(Cardinality(ActiveIds) + 1, limit)
              /\ Continue(r, [q EXCEPT !.phase = "plan",
                                       !.offers = {q.member}])

AssignMemberLookup(r) == /\ At(r, "lookup")
                         /\ Lookup(r, requests[r].limit, "plan")

\* Mutant: the application is selected although there is no room.
SelectLookupLenient(r) ==
    /\ At(r, "select")
    /\ \/ Lookup(r, required, "application")
       \/ /\ ~Fits(Cardinality(ActiveIds) + 1, required)
          /\ Continue(r, [requests[r] EXCEPT !.phase = "application"])

SelectLookup(r) == At(r, "select") /\ Lookup(r, required, "application")

\* The application has no active assignment to end, or one of them is ended.
UnassignLookup(r) ==
    LET q == requests[r]
        ids == ActiveOf(q.member)
    IN  /\ At(r, "unassign")
        /\ \/ ids = {} /\ Continue(r, [q EXCEPT !.phase = "application"])
           \/ \E id \in ids :
                 Continue(r, [q EXCEPT !.phase = "write", !.id = id,
                                       !.data = Termination])

-----------------------------------------------------------------------------
(* Writes *)

\* A decision still has its application to write.
AfterWrite(r) ==
    Become(r, IF requests[r].op = "decide"
              THEN [requests[r] EXCEPT !.phase = "application"]
              ELSE Idle("done"))

\* Mutant: the date is written on every update.
WrittenAnew(row, data, r) ==
    [status     |-> data.status,
     acceptedAt |-> IF data.accepts THEN r ELSE None,
     ended      |-> row.ended \/ data.status \in {"COMPLETED", "TERMINATED"},
     legacy     |-> row.legacy]

Written(row, data, r) ==
    [status     |-> data.status,
     acceptedAt |-> IF data.accepts THEN r ELSE row.acceptedAt,
     ended      |-> row.ended \/ data.status \in {"COMPLETED", "TERMINATED"},
     legacy     |-> row.legacy]

\* The partial unique index: no other row of the member is active.
Unrivalled(id) == ActiveOf(id[1]) \subseteq {id}

\* An update by id, of a row that may have changed since it was read.  Making a
\* second row of a member active fails.
WriteRow(r) ==
    LET q == requests[r]
    IN  /\ At(r, "write")
        /\ q.data.status \in ActiveStatus => Unrivalled(q.id)
        /\ rows' = [rows EXCEPT ![q.id] = Written(@, q.data, r)]
        /\ revived' = \/ revived
                      \/ ~Active(q.id) /\ q.data.status \in ActiveStatus
        /\ AfterWrite(r)
        /\ UNCHANGED <<exists, required, applications, overlapped>>

\* The next assignment of a member.
NewId(m, id) == /\ id[1] = m
                /\ ~Present(id)
                /\ \A k \in 1..(id[2] - 1) : Present(<<m, k>>)

\* Offers are created, rows that were active when read end, the count is set.  A
\* deleted engagement takes no assignment (foreign key), and the index refuses an
\* offer to a member who has got an active one, to be ended here or not: offers
\* come first.
PlanCommit(r) ==
    LET q == requests[r]
    IN  /\ At(r, "plan")
        /\ exists
        /\ \A m \in q.offers : \E id \in Ids : /\ NewId(m, id)  \* bound
                                               /\ Unrivalled(id)
        /\ rows' = [id \in Ids |->
              IF id \in q.ends THEN Written(rows[id], Termination, r)
              ELSE IF \E m \in q.offers : NewId(m, id) THEN Offer
              ELSE rows[id]]
        /\ required' = Or(q.count, required)
        /\ AfterWrite(r)
        /\ UNCHANGED <<exists, applications, overlapped, revived>>

WriteApplication(r) ==
    LET q == requests[r]
    IN  /\ At(r, "application")
        /\ applications[q.member] # None
        /\ applications' = [applications EXCEPT ![q.member] = q.decision]
        /\ Become(r, Idle("done"))
        /\ UNCHANGED <<exists, required, rows, overlapped, revived>>

ApplyCommit(r) ==
    LET m == requests[r].member
    IN  /\ At(r, "apply")
        /\ exists
        /\ applications[m] = None
        /\ applications' = [applications EXCEPT ![m] = "SUBMITTED"]
        /\ Become(r, Idle("done"))
        /\ UNCHANGED <<exists, required, rows, overlapped, revived>>

\* Mutant: assignments do not restrict a deletion.
DeletableAlways == exists

\* The foreign key restricts what the count has allowed.
Deletable == exists /\ \A id \in Ids : ~Present(id)

DeleteCommit(r) ==
    /\ At(r, "delete")
    /\ Deletable
    /\ exists' = FALSE
    /\ applications' = [m \in Members |-> None]
    /\ Become(r, Idle("done"))
    /\ UNCHANGED <<required, rows, overlapped, revived>>

\* A refused statement, a failed call of another service between two writes, or
\* a lost process: what is committed stays.
Abort(r) == InProgress(r) /\ Continue(r, Idle("done"))

-----------------------------------------------------------------------------

\* A new engagement has the members it was created with, if it is private; an old
\* one may have members who accepted before acceptance dates were recorded.
Init ==
    /\ exists = TRUE
    /\ required \in Counts \union {None}
    /\ \E S \in SUBSET Members : \E old \in SUBSET S :
          /\ Fits(Cardinality(S), required)
          /\ rows = [id \in Ids |-> IF id[2] # 1 \/ id[1] \notin S THEN None
                                    ELSE IF id[1] \in old THEN AcceptedBefore
                                    ELSE Offer]
    /\ applications = [m \in Members |-> None]
    /\ requests = [r \in Requests |-> Idle("new")]
    /\ overlapped = FALSE
    /\ revived = FALSE

Read(r) == \/ AnswerRead(r) \/ SetStatusRead(r) \/ RemoveRead(r)
           \/ AssignMembersRead(r) \/ AssignMemberRead(r) \/ ResizeRead(r)
           \/ ApplyRead(r) \/ DecideRead(r) \/ DeleteRead(r)
Look(r) == AssignMemberLookup(r) \/ SelectLookup(r) \/ UnassignLookup(r)
Write(r) == \/ WriteRow(r) \/ PlanCommit(r) \/ WriteApplication(r)
            \/ ApplyCommit(r) \/ DeleteCommit(r)

Next == \E r \in Requests : Read(r) \/ Look(r) \/ Write(r) \/ Abort(r)

Spec == Init /\ [][Next]_vars

-----------------------------------------------------------------------------
(* What the assignments promise *)

\* The dates follow the status through every race: who is ASSIGNED has a first
\* acceptance date, unless the row is older than the dates, and what is COMPLETED
\* or TERMINATED has an end, although both are decided from a row that may have
\* changed before they are written.
DatesFollowStatus ==
    \A id \in Ids : Present(id) =>
        /\ rows[id].status = "ASSIGNED" => Dated(rows[id])
        /\ rows[id].status \in {"COMPLETED", "TERMINATED"} => rows[id].ended

\* A selected application has an assignment of its member, whichever of the two
\* writes failed and whatever happened between them; the assignment may have
\* ended since.
SelectedWasOffered ==
    \A m \in Members : applications[m] = "SELECTED" =>
        \E id \in Ids : id[1] = m /\ Present(id)

\* A member never has two active assignments.  As long as requests come one at a
\* time and no ended assignment is revived by hand, the engagement has no more of
\* them than it requires, failures between two writes included.
LimitsHoldInTurn ==
    /\ \A m \in Members : \A i, j \in ActiveOf(m) : i = j
    /\ ~overlapped /\ ~revived => Fits(Cardinality(ActiveIds), required)

\* A deleted engagement leaves nothing behind: an assignment offered, or an
\* application made, while it is being deleted keeps it or is refused.
NothingOrphaned ==
    ~exists => /\ \A id \in Ids : ~Present(id)
               /\ \A m \in Members : applications[m] = None

AcceptanceKept == \A id \in Ids : Present(id) /\ rows[id].acceptedAt # None =>
                      rows'[id].acceptedAt = rows[id].acceptedAt

\* The first acceptance date stays, through terminations, revivals and further
\* acceptances, as long as requests come one at a time.
FirstAcceptanceStays == [][~overlapped' => AcceptanceKept]_vars

-----------------------------------------------------------------------------
(* What the documents say and the interleavings break *)

\* OFFER_REJECTED, COMPLETED and TERMINATED lead nowhere in the documented flow:
\* an assignment that has ended does not become active again.
EndedStaysEnded ==
    [][\A id \in Ids : Present(id) /\ ~Active(id) =>
         rows'[id].status \in FinalStatus]_vars
=============================================================================
