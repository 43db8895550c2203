------------------------- MODULE EngagementManagers -------------------------
(***************************************************************************)
(* The managers of one engagement: the register of who may approve its     *)
(* timesheets, the engagement-scoped audit trail, and the requests that    *)
(* grant, remove and use that authority (engagement-managers.service.ts,   *)
(* timesheet-access.service.ts).                                           *)
(*                                                                         *)
(* Like a timesheet handler, each request reads the register in one step   *)
(* and writes in a transaction, another step.  Callers who may not manage  *)
(* managers, and members who are inactive, are refused before they read:   *)
(* they have no step here.                                                 *)
(***************************************************************************)
EXTENDS Naturals, Sequences

CONSTANTS
    Requests,   \* API calls; each is issued at most once
    Calls,      \* Calls[r]: the operations r may be
    Members,    \* user ids that may be made manager
    None        \* SQL NULL, or no row

Operation == {"assign", "remove", "approve"}
Action == {"MANAGER_ASSIGNED", "MANAGER_REMOVED"}

ASSUME CallsAssumption == Calls \in [Requests -> SUBSET Operation]

VARIABLES
    exists,    \* the engagement has not been deleted
    staffed,   \* it has an assignment, so a timesheet to approve
    register,  \* each member's EngagementManager row, or None
    trail,     \* engagement-scoped manager records, oldest first
    approvals, \* approvals made with a manager's authority
    requests   \* the state of every API call

vars == <<exists, staffed, register, trail, approvals, requests>>

-----------------------------------------------------------------------------
(* Data *)

\* (engagementId, managerUserId) is unique: a member has one row or none.
\* createdBy and removedBy name the request that set them; removedAt is set
\* and cleared together with removedBy.
Row == [createdBy: Requests, removedBy: Requests \union {None}]

ASSUME NoneAssumption ==
    None \notin Requests \union Operation \union Members \union Row

Record == [action: Action, manager: Members, actor: Requests]

\* checkedAt is the length of the trail when the authority was looked up; no
\* request ever reads it.
Approval == [by: Members, checkedAt: Nat]

Request == [phase: {"new", "read", "done"},
            op: Operation \union {None},
            manager: Members \union {None},
            seen: Row \union {None},
            checkedAt: Nat]

Idle(phase) == [phase |-> phase, op |-> None, manager |-> None, seen |-> None,
                checkedAt |-> 0]

TypeOK ==
    /\ exists \in BOOLEAN /\ staffed \in BOOLEAN
    /\ register \in [Members -> Row \union {None}]
    /\ trail \in Seq(Record)
    /\ approvals \subseteq Approval
    /\ requests \in [Requests -> Request]

-----------------------------------------------------------------------------
(* Reads *)

\* removedAt IS NULL is the authority: a row that was removed gives none.
IsCurrent(row) == row # None /\ row.removedBy = None

\* Mutant: any row gives authority.
IsEngagementManagerEver(m) == register[m] # None

IsEngagementManager(m) == IsCurrent(register[m])

Proceed(r, op, m) ==
    /\ requests[r].phase = "new"
    /\ op \in Calls[r]
    /\ exists
    /\ requests' = [requests EXCEPT ![r] =
            [phase |-> "read", op |-> op, manager |-> m, seen |-> register[m],
             checkedAt |-> Len(trail)]]
    /\ UNCHANGED <<exists, staffed, register, trail, approvals>>

\* A current manager is a duplicate; a removed one is granted again.
AssignRead(r) ==
    \E m \in Members : ~IsCurrent(register[m]) /\ Proceed(r, "assign", m)

RemoveRead(r) ==
    \E m \in Members : IsCurrent(register[m]) /\ Proceed(r, "remove", m)

\* A manager asks to approve an entry of some assignment: the role is looked up
\* once, when the request begins.
ApproveRead(r) ==
    \E m \in Members :
        /\ staffed
        /\ IsEngagementManager(m)
        /\ Proceed(r, "approve", m)

-----------------------------------------------------------------------------
(* Transactions *)

Committing(r, op) == /\ requests[r].phase = "read"
                     /\ requests[r].op = op

Finish(r) == requests' = [requests EXCEPT ![r] = Idle("done")]

Note(action, r) ==
    trail' = Append(trail, [action |-> action, actor |-> r,
                            manager |-> requests[r].manager])

\* Mutant: a grant of a row that exists leaves it removed.
GrantedKeepingRemoval(row, r) ==
    IF row = None THEN [createdBy |-> r, removedBy |-> None]
                  ELSE [row EXCEPT !.createdBy = r]

Granted(row, r) == [createdBy |-> r, removedBy |-> None]

\* Mutant: the row is deleted.
RemovedHard(row, r) == None

Removed(row, r) == [row EXCEPT !.removedBy = r]

\* The create fails if a row has appeared since the read (unique index), or if
\* the engagement has gone; the update goes by id to the row that was read.
AssignCommit(r) ==
    LET q == requests[r]
        m == q.manager
    IN  /\ Committing(r, "assign")
        /\ exists
        /\ q.seen = None <=> register[m] = None
        /\ register' = [register EXCEPT ![m] = Granted(@, r)]
        /\ Note("MANAGER_ASSIGNED", r)
        /\ Finish(r)
        /\ UNCHANGED <<exists, staffed, approvals>>

\* An update by id: the row may have been removed, or granted again, since.
RemoveCommit(r) ==
    LET m == requests[r].manager
    IN  /\ Committing(r, "remove")
        /\ register[m] # None
        /\ register' = [register EXCEPT ![m] = Removed(@, r)]
        /\ Note("MANAGER_REMOVED", r)
        /\ Finish(r)
        /\ UNCHANGED <<exists, staffed, approvals>>

\* The approval lands on the authority found at the start.
Approve(r) ==
    LET q == requests[r]
    IN  /\ Committing(r, "approve")
        /\ approvals' = approvals \union
              {[by |-> q.manager, checkedAt |-> q.checkedAt]}
        /\ Finish(r)
        /\ UNCHANGED <<exists, staffed, register, trail>>

\* A refused statement, or a lost process or connection.
Abort(r) ==
    /\ requests[r].phase = "read"
    /\ Finish(r)
    /\ UNCHANGED <<exists, staffed, register, trail, approvals>>

-----------------------------------------------------------------------------
(* The engagement *)

\* An application is selected, or members are assigned; assignments stay.
AssignmentCreated ==
    /\ exists
    /\ staffed' = TRUE
    /\ UNCHANGED <<exists, register, trail, approvals, requests>>

\* Mutant: the removal does not ask for assignments.
RemovableAlways == exists

Removable == exists /\ ~staffed

\* An engagement without assignments is deleted; rows and trail go with it.
EngagementRemoved ==
    /\ Removable
    /\ exists' = FALSE
    /\ register' = [m \in Members |-> None]
    /\ trail' = <<>>
    /\ UNCHANGED <<staffed, approvals, requests>>

Init ==
    /\ exists = TRUE
    /\ staffed = FALSE
    /\ register = [m \in Members |-> None]
    /\ trail = <<>>
    /\ approvals = {}
    /\ requests = [r \in Requests |-> Idle("new")]

Step(r) == \/ AssignRead(r) \/ RemoveRead(r) \/ ApproveRead(r)
           \/ AssignCommit(r) \/ RemoveCommit(r) \/ Approve(r) \/ Abort(r)

Next == (\E r \in Requests : Step(r)) \/ AssignmentCreated \/ EngagementRemoved

Spec == Init /\ [][Next]_vars

-----------------------------------------------------------------------------
(* What the register and its trail promise *)

\* The records of a trail about member m, and the newest of a set of them.
About(m, actions) == {k \in DOMAIN trail : /\ trail[k].manager = m
                                           /\ trail[k].action \in actions}
Newest(K, k) == k \in K /\ \A j \in K : j <= k

\* The trail explains every row, whichever stale reads its writers had: a member
\* is a current manager exactly if the newest record is a grant, and the row
\* names the actors of the newest grant and, if removed, the newest removal.
TrailExplainsRegister ==
    \A m \in Members :
        IF register[m] = None THEN About(m, Action) = {}
        ELSE \E k, g \in DOMAIN trail :
                /\ Newest(About(m, Action), k)
                /\ Newest(About(m, {"MANAGER_ASSIGNED"}), g)
                /\ register[m].createdBy = trail[g].actor
                /\ register[m].removedBy =
                      IF k = g THEN None ELSE trail[k].actor

\* When the trail had n records, m had been granted authority and not removed
\* since.
HadAuthority(m, n) ==
    \E k \in About(m, {"MANAGER_ASSIGNED"}) :
        /\ k <= n
        /\ \A j \in About(m, {"MANAGER_REMOVED"}) : j < k \/ j > n

\* Every approval was asked for by someone who, at that moment, had authority: a
\* removal "takes effect on the manager's next request", though not on one that
\* is already past its role check.
ApprovalsHadAuthority == \A a \in approvals : HadAuthority(a.by, a.checkedAt)

\* Approvals keep their attribution: whatever becomes of the manager, of the
\* grants and of the engagement, the row that names the approver stays.
ApproversStayRegistered ==
    \A a \in approvals : exists /\ register[a.by] # None

\* The inductive invariant: what an approval relies on holds from its role check
\* on, before it lands and after.
Authorised(m, n) ==
    /\ staffed /\ register[m] # None
    /\ n <= Len(trail) /\ HadAuthority(m, n)
Checked(q) ==
    q.phase = "read" =>
        /\ q.manager \in Members
        /\ q.op = "approve" => Authorised(q.manager, q.checkedAt)
Inductive ==
    /\ TypeOK
    /\ staffed => exists
    /\ TrailExplainsRegister
    /\ \A r \in Requests : Checked(requests[r])
    /\ \A a \in approvals : Authorised(a.by, a.checkedAt)
=============================================================================
