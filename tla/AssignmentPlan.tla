--------------------------- MODULE AssignmentPlan ---------------------------
(***************************************************************************)
(* Who is assigned when a private engagement is created or edited          *)
(* (engagements.service.ts create and update): the members a payload names *)
(* are looked up, matched to the assignments there are, and the            *)
(* engagement's limit is applied.  One request with what it read; requests *)
(* that overlap are Assignments'.                                          *)
(*                                                                         *)
(* directory maps a member id to the handle.  A row of a payload is        *)
(* [memberId, memberHandle], None where absent; an assignment is           *)
(* [id, memberId, status]; both come in sequences.                         *)
(***************************************************************************)
EXTENDS Integers, Sequences, FiniteSets, SequencesExt

CONSTANTS None, Refused

Active == {"SELECTED", "ASSIGNED"}      \* ACTIVE_ASSIGNMENT_STATUSES

(***************************************************************************)
(* Members.                                                                *)
(***************************************************************************)
\* resolveAssignmentDetails: the member id, where id and handle are of one member.
\* A handle that is not looked up is kept as it was typed.
Member(directory, row) ==
    LET found == {m \in DOMAIN directory :
                     /\ row.memberId \in {None, m}
                     /\ row.memberHandle \in {None, directory[m]}}
    IN  IF (row.memberId = None /\ row.memberHandle = None) \/ found = {} THEN Refused
        ELSE CHOOSE m \in found : TRUE

\* resolveAssignmentDetailsList: the members in the order of the rows.
MembersOfDetails(directory, rows, allowDuplicateMembers) ==
    LET members == [i \in DOMAIN rows |-> Member(directory, rows[i])] IN
    IF \/ Refused \in ToSet(members)
       \/ ~allowDuplicateMembers /\ ~IsInjective(members)
    THEN Refused ELSE members

\* resolveMultipleAssignmentDetails: ids and handles that are paired by position;
\* duplicates are looked for before the members are known.
MembersOfArrays(directory, ids, handles, allowDuplicateMembers) ==
    LET longer == IF Len(ids) > Len(handles) THEN Len(ids) ELSE Len(handles)
        at(seq, i) == IF i \in DOMAIN seq THEN seq[i] ELSE None
        members == [i \in 1..longer |->
            Member(directory, [memberId |-> at(ids, i), memberHandle |-> at(handles, i)])]
    IN  IF \/ Len(ids) # Len(handles) /\ ids # <<>> /\ handles # <<>>
           \/ ~allowDuplicateMembers /\ ~(IsInjective(ids) /\ IsInjective(handles))
           \/ Refused \in ToSet(members)
        THEN Refused ELSE members

(***************************************************************************)
(* Creation.                                                               *)
(***************************************************************************)
\* The members of a new engagement; a public one has none.  A single id or handle
\* is an array of one.
CreatedMembers(directory, isPrivate, details, ids, handles, required) ==
    LET members == CASE ~isPrivate -> <<>>
                     [] isPrivate /\ details # <<>> ->
                           MembersOfDetails(directory, details, FALSE)
                     [] OTHER -> MembersOfArrays(directory, ids, handles, FALSE)
    IN  IF members = Refused THEN Refused
        ELSE IF required # None /\ Len(members) > required THEN Refused
        ELSE members

(***************************************************************************)
(* Edits: planAssignmentMutation.                                          *)
(***************************************************************************)
\* A member's assignments that are active, or that have ended, by their positions, and
\* the rows of the payload that name the member.
RowsOf(existing, m, active) ==
    {k \in DOMAIN existing : existing[k].memberId = m /\ (existing[k].status \in Active) = active}

Positions(members, m) == {i \in DOMAIN members : members[i] = m}

\* Each of these is a queue in the order of the positions.
Place(queue, i) == Cardinality({j \in queue : j <= i})

\* A mutant of ToTerminal: rows of the past are filled before active ones.
ToTerminalFirst(existing, members, m) ==
    LET past == Cardinality(RowsOf(existing, m, FALSE))
        rows == Cardinality(Positions(members, m))
    IN  IF past < rows THEN past ELSE rows

\* How many rows of a member go to assignments that have ended: those that the
\* active ones, or the one to be made, leave over.
ToTerminal(existing, members, m) ==
    LET past == Cardinality(RowsOf(existing, m, FALSE))
        active == Cardinality(RowsOf(existing, m, TRUE))
        over == Cardinality(Positions(members, m)) - (IF active = 0 THEN 1 ELSE active)
    IN  IF over <= 0 THEN 0 ELSE IF past < over THEN past ELSE over

\* When it is an assignment's turn to take a row of its member: as many of the ended ones
\* as rows are left over for them, then the active ones.  None is never.
Turn(existing, members, k) ==
    LET m == existing[k].memberId
        ended == ToTerminal(existing, members, m)
        place == Place(RowsOf(existing, m, existing[k].status \in Active), k)
    IN  IF existing[k].status \in Active THEN ended + place
        ELSE IF place <= ended THEN place ELSE None

\* <<assignment, row>> by position, for each row that is an assignment's in its turn.
Matches(existing, members) ==
    {u \in (DOMAIN existing) \X (DOMAIN members) :
        /\ existing[u[1]].memberId = members[u[2]]
        /\ Turn(existing, members, u[1]) = Place(Positions(members, members[u[2]]), u[2])}

\* <<assignment id, row>> for each update.
Updates(existing, members) == {<<existing[u[1]].id, u[2]>> : u \in Matches(existing, members)}

\* The rows that become new assignments.
Creations(existing, members) ==
    DOMAIN members \ {u[2] : u \in Updates(existing, members)}

\* The active assignments no row went to.
Terminations(existing, members) ==
    {a.id : a \in {b \in ToSet(existing) : b.status \in Active}}
        \ {u[1] : u \in Updates(existing, members)}

\* activeAssignmentCountByMemberId.
ActiveCount(existing, members, m) ==
    Cardinality(Positions(members, m)) - ToTerminal(existing, members, m)

ActiveOf(existing) == {a \in existing : a.status \in Active}

\* A payload that names nobody plans nothing: the assignments stay and are counted.
\* required is the limit that is in force; without names it is the payload's own.
Plan(existing, members, required) ==
    LET named == ToSet(members)
        counts == [m \in named |-> ActiveCount(existing, members, m)]
        total == IF members = <<>> THEN Cardinality(ActiveOf(ToSet(existing)))
                 ELSE Cardinality({p \in named \X DOMAIN members : p[2] <= counts[p[1]]})
    IN  IF (\E m \in named : counts[m] > 1) \/ (required # None /\ total > required)
        THEN Refused
        ELSE [updates |-> Updates(existing, members),
              creations |-> Creations(existing, members),
              terminations |-> IF members = <<>> THEN {} ELSE Terminations(existing, members),
              active |-> total]

\* The transaction.  A new assignment is numbered on.
Executed(existing, members, plan) ==
    {[a EXCEPT !.status = IF a.id \in plan.terminations THEN "TERMINATED" ELSE @] :
        a \in ToSet(existing)}
    \union {[id |-> Len(existing) + i, memberId |-> members[i], status |-> "SELECTED"] :
               i \in plan.creations}

(***************************************************************************)
(* What a plan owes.                                                       *)
(***************************************************************************)
\* After an edit with the rows of members, each row of the payload has reached exactly
\* one assignment, of its member, and no assignment took two; what had ended stays
\* ended; each member named has exactly one active assignment and nobody else has
\* one, and where nobody is named nothing changes; and the number of the active ones is
\* the number the limit was held against.
PlanIsKept(existing, members, required) ==
    LET plan == Plan(existing, members, required)
        after == Executed(existing, members, plan)
        active == ActiveOf(after)
    IN  plan # Refused =>
            /\ \A i \in DOMAIN members :
                  Cardinality({u \in plan.updates : u[2] = i}) +
                  Cardinality({i} \intersect plan.creations) = 1
            /\ \A u, v \in plan.updates : u[1] = v[1] => u = v
            /\ \A u \in plan.updates : \E a \in ToSet(existing) :
                  a.id = u[1] /\ a.memberId = members[u[2]]
            /\ \A a \in ToSet(existing) : a.status \notin Active => a \in after
            /\ IF members = <<>> THEN after = ToSet(existing)
               ELSE \A m \in {a.memberId : a \in after} \union ToSet(members) :
                        Cardinality({a \in active : a.memberId = m}) =
                            IF m \in ToSet(members) THEN 1 ELSE 0
            /\ Cardinality(active) = plan.active
            /\ required # None => Cardinality(active) <= required

\* A new engagement's members are in the directory, nobody is assigned twice however
\* they were named, and rows and arrays that name the same people assign the same.
CreationIsKept(directory, details, required) ==
    LET arrays(rows) == [ids |-> [i \in DOMAIN rows |-> rows[i].memberId],
                         handles |-> [i \in DOMAIN rows |-> rows[i].memberHandle]]
        byRows == CreatedMembers(directory, TRUE, details, <<>>, <<>>, required)
        paired == \A i \in DOMAIN details :
                     details[i].memberId # None /\ details[i].memberHandle # None
        byArrays == CreatedMembers(directory, TRUE, <<>>, arrays(details).ids,
                                   arrays(details).handles, required)
    IN  /\ byRows # Refused => /\ IsInjective(byRows)
                               /\ ToSet(byRows) \subseteq DOMAIN directory
                               /\ required # None => Len(byRows) <= required
        /\ paired => byRows = byArrays
=============================================================================
