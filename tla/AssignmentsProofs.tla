------------------------- MODULE AssignmentsProofs -------------------------
(***************************************************************************)
(* The safety of Assignments for any number of requests, members and       *)
(* assignments.  Rows never disappear and dates are never taken back, so   *)
(* what a request found out about a row it writes later stays true enough: *)
(* Sound says what that is.  What a request counted stays true only as     *)
(* long as requests come one at a time: Prepared says what it counted.     *)
(***************************************************************************)
EXTENDS Assignments, FiniteSetTheorems, TLAPS

\* Member m has, or had, an assignment in the table.
Offered(m, table) == \E id \in Ids : id[1] = m /\ table[id] # None

\* What a request relies on when it goes on.
Sound(q, table) ==
    /\ q.phase = "write" =>
          /\ q.id \in Ids /\ table[q.id] # None
          /\ q.data \in Data
          /\ q.data.status = "ASSIGNED" /\ ~q.data.accepts =>
                Dated(table[q.id])
          /\ q.op = "decide" => q.id[1] = q.member
    /\ q.phase = "plan" =>
          /\ \A id \in q.ends : table[id] # None
          /\ q.op = "decide" => q.offers = {q.member}
    /\ q.phase \in {"lookup", "select", "unassign", "apply"} \/ q.op = "decide" =>
          q.member \in Members
    /\ q.phase \in {"lookup", "select"} => q.ends = {}
    /\ q.phase = "lookup" => q.op # "decide"
    /\ q.phase \in {"select", "unassign", "application"} => q.op = "decide"
    /\ q.op = "decide" => q.decision \in ApplicationStatus
    /\ q.phase = "unassign" => q.decision # "SELECTED"
    /\ q.phase = "application" /\ q.decision = "SELECTED" =>
          Offered(q.member, table)

\* The row it would date has no date.
Fresh(q, table) ==
    q.phase = "write" /\ q.data.accepts => table[q.id].acceptedAt = None

\* One at a time: what was read is still so.
InTurn ==
    ~overlapped =>
        /\ \A r, s \in Requests : InProgress(r) /\ InProgress(s) => r = s
        /\ \A r \in Requests : Fresh(requests[r], rows)

Inductive ==
    /\ TypeOK
    /\ DatesFollowStatus
    /\ SelectedWasOffered
    /\ NothingOrphaned
    /\ \A r \in Requests : Sound(requests[r], rows)
    /\ InTurn

-----------------------------------------------------------------------------
(* What requests rely on survives the steps of others *)

\* The table keeps its rows, and rows keep their having a date.
Grows(table, next) ==
    \A id \in Ids : table[id] # None =>
        /\ next[id] # None
        /\ Dated(table[id]) => Dated(next[id])

LEMMA SoundStays ==
    ASSUME NEW q \in Request, NEW table, NEW next, Sound(q, table),
           Grows(table, next)
    PROVE  Sound(q, next)
  <1>1. q.ends \subseteq Ids
    BY DEF Request
  <1>2. \A m : Offered(m, table) => Offered(m, next)
    BY DEF Offered, Grows
  <1>3. QED
    BY <1>1, <1>2 DEF Sound, Grows

\* A request that has not begun, or is done, relies on nothing.
LEMMA IdleFacts ==
    ASSUME NEW phase \in Phase
    PROVE  /\ Idle(phase) \in Request
           /\ Idle(phase).phase = phase /\ Idle(phase).op = None
           /\ Idle(phase).ends = {}
  BY DEF Idle, Request

LEMMA IdleIsSound ==
    ASSUME NEW phase \in {"new", "done"}, NEW table
    PROVE  Sound(Idle(phase), table) /\ Fresh(Idle(phase), table)
  <1>1. phase \in Phase
    BY DEF Phase
  <1>2. Idle(phase).phase = phase /\ Idle(phase).op = None
    BY <1>1, IdleFacts
  <1>3. None # "decide"
    BY NoneAssumption DEF Operation
  <1>4. QED
    BY <1>2, <1>3 DEF Sound, Fresh

\* One request goes on to q, and the tables change.
Step(r, q) ==
    /\ requests' = [requests EXCEPT ![r] = q]
    /\ q \in Request
    /\ Sound(q, rows')
    /\ Grows(rows, rows')

LEMMA RequestsStep ==
    ASSUME Inductive, NEW r \in Requests, NEW q, Step(r, q)
    PROVE  /\ requests' \in [Requests -> Request]
           /\ requests'[r] = q
           /\ \A s \in Requests : s # r => requests'[s] = requests[s]
           /\ \A s \in Requests : Sound(requests'[s], rows')
  <1>1. requests \in [Requests -> Request]
    BY DEF Inductive, TypeOK
  <1>2. requests' \in [Requests -> Request] /\ requests'[r] = q
    BY <1>1 DEF Step
  <1>3. \A s \in Requests : s # r => requests'[s] = requests[s]
    BY <1>1 DEF Step
  <1>4. ASSUME NEW s \in Requests, s # r
        PROVE  Sound(requests'[s], rows')
    <2>1. requests[s] \in Request /\ Sound(requests[s], rows)
      BY <1>1 DEF Inductive
    <2>2. Sound(requests[s], rows')
      BY <2>1, SoundStays DEF Step
    <2>3. QED
      BY <1>3, <1>4, <2>2
  <1>5. QED
    BY <1>2, <1>3, <1>4 DEF Step

-----------------------------------------------------------------------------
(* A request begins *)

LEMMA BeginStep ==
    ASSUME Inductive, NEW r \in Requests, NEW op \in Operation,
           NEW request, NEW q \in Request, q = [request EXCEPT !.op = op],
           Begin(r, op, request), Sound(q, rows), Fresh(q, rows)
    PROVE  Inductive'
  <1>1. Step(r, q)
    BY DEF Begin, Become, Step, Grows
  <1>2. /\ requests' \in [Requests -> Request] /\ requests'[r] = q
        /\ \A s \in Requests : s # r => requests'[s] = requests[s]
        /\ \A s \in Requests : Sound(requests'[s], rows')
    BY <1>1, RequestsStep
  <1>3. TypeOK'
    BY <1>2 DEF Inductive, TypeOK, Begin
  <1>4. DatesFollowStatus' /\ SelectedWasOffered' /\ NothingOrphaned'
    BY DEF Inductive, Begin, DatesFollowStatus, SelectedWasOffered,
       NothingOrphaned, Present
  <1>5. InTurn'
    <2> SUFFICES ASSUME ~overlapped' PROVE InTurn'
      BY DEF InTurn
    <2>1. ~overlapped /\ \A s \in Requests : ~InProgress(s)
      BY DEF Begin
    <2>2. \A s \in Requests : s # r => ~InProgress(s)'
      BY <1>2, <2>1 DEF InProgress
    <2>3. \A s \in Requests : Fresh(requests'[s], rows')
      BY <1>2, <2>1 DEF Begin, InTurn, Inductive
    <2>4. QED
      BY <2>2, <2>3 DEF InTurn
  <1>6. QED
    BY <1>2, <1>3, <1>4, <1>5 DEF Inductive

\* Rows are rows, or not there.
LEMMA RowType ==
    ASSUME TypeOK, NEW id \in Ids, Present(id)
    PROVE  /\ rows[id] \in Row
           /\ rows[id].status \in Status
           /\ rows[id].acceptedAt \in Requests \union {None}
           /\ rows[id].ended \in BOOLEAN /\ rows[id].legacy \in BOOLEAN
  <1>1. rows[id] \in Row
    BY DEF TypeOK, Present
  <1>2. QED
    BY <1>1 DEF Row

\* Answers, statuses and removals begin by choosing a row and what to write.
LEMMA WritingStep ==
    ASSUME Inductive, NEW r \in Requests, NEW op \in Operation,
           NEW id \in Ids, Present(id), NEW data \in Data, op # "decide",
           data.status = "ASSIGNED" /\ ~data.accepts => Dated(rows[id]),
           data.accepts => rows[id].acceptedAt = None,
           Begin(r, op, Writing(id, data))
    PROVE  Inductive'
  <1>1. Idle("write") \in Request /\ Idle("write").phase = "write"
    BY IdleFacts DEF Phase
  <1>2. PICK q : q = [Writing(id, data) EXCEPT !.op = op]
    OBVIOUS
  <1>3. /\ q \in Request /\ q.phase = "write" /\ q.op = op
        /\ q.id = id /\ q.data = data
    BY <1>1, <1>2 DEF Writing, Request
  <1>4. Sound(q, rows) /\ Fresh(q, rows)
    BY <1>3 DEF Sound, Fresh, Present
  <1>5. QED
    BY <1>2, <1>3, <1>4, BeginStep

\* The terms of an answer or a status are data.
LEMMA DataType ==
    ASSUME NEW status \in Status, NEW accepts \in BOOLEAN
    PROVE  LET data == [status |-> status, accepts |-> accepts]
           IN  data \in Data /\ data.status = status /\ data.accepts = accepts
  BY DEF Data

LEMMA TerminationType ==
    /\ Termination \in Data
    /\ Termination.status = "TERMINATED" /\ ~Termination.accepts
  BY DEF Termination, Data, Status, FinalStatus

LEMMA AnswerReadStep ==
    ASSUME Inductive, NEW r \in Requests, AnswerRead(r)
    PROVE  Inductive'
  <1>1. PICK id \in Ids, status \in {"ASSIGNED", "OFFER_REJECTED"} :
           /\ Present(id)
           /\ Begin(r, "answer", Writing(id,
                 [status |-> status,
                  accepts |-> FirstAcceptance(rows[id], status)]))
    BY DEF AnswerRead
  <1>2. PICK accepts \in BOOLEAN : accepts = FirstAcceptance(rows[id], status)
    BY DEF FirstAcceptance
  <1>3. PICK data : data = [status |-> status, accepts |-> accepts]
    OBVIOUS
  <1>4. data \in Data /\ data.status = status /\ data.accepts = accepts
    BY <1>3, DataType DEF Status, ActiveStatus, FinalStatus
  <1>5. /\ data.status = "ASSIGNED" /\ ~data.accepts => Dated(rows[id])
        /\ data.accepts => rows[id].acceptedAt = None
    BY <1>2, <1>4 DEF FirstAcceptance, Dated
  <1>6. Begin(r, "answer", Writing(id, data))
    BY <1>1, <1>2, <1>3
  <1>7. QED
    BY <1>1, <1>4, <1>5, <1>6, WritingStep DEF Operation

LEMMA SetStatusReadStep ==
    ASSUME Inductive, NEW r \in Requests, SetStatusRead(r)
    PROVE  Inductive'
  <1>1. PICK id \in Ids, status \in Status :
           /\ Present(id)
           /\ Begin(r, "setStatus", Writing(id,
                 [status |-> status,
                  accepts |-> /\ rows[id].status # "ASSIGNED"
                              /\ FirstAcceptance(rows[id], status)]))
    BY DEF SetStatusRead
  <1>2. PICK accepts \in BOOLEAN :
           accepts = (/\ rows[id].status # "ASSIGNED"
                      /\ FirstAcceptance(rows[id], status))
    BY DEF FirstAcceptance
  <1>3. PICK data : data = [status |-> status, accepts |-> accepts]
    OBVIOUS
  <1>4. data \in Data /\ data.status = status /\ data.accepts = accepts
    BY <1>3, DataType
  <1>5. rows[id].status = "ASSIGNED" => Dated(rows[id])
    BY <1>1 DEF Inductive, DatesFollowStatus
  <1>6. /\ data.status = "ASSIGNED" /\ ~data.accepts => Dated(rows[id])
        /\ data.accepts => rows[id].acceptedAt = None
    BY <1>2, <1>4, <1>5 DEF FirstAcceptance, Dated
  <1>7. Begin(r, "setStatus", Writing(id, data))
    BY <1>1, <1>2, <1>3
  <1>8. QED
    BY <1>1, <1>4, <1>6, <1>7, WritingStep DEF Operation

LEMMA RemoveReadStep ==
    ASSUME Inductive, NEW r \in Requests, RemoveRead(r)
    PROVE  Inductive'
  <1>1. PICK id \in ActiveIds : Begin(r, "remove", Writing(id, Termination))
    BY DEF RemoveRead
  <1>2. id \in Ids /\ Present(id)
    BY DEF ActiveIds, Active
  <1>3. QED
    BY <1>1, <1>2, TerminationType, WritingStep DEF Operation

\* The remaining reads: each leaves a request that is sound.
LEMMA AssignMembersReadStep ==
    ASSUME Inductive, NEW r \in Requests, AssignMembersRead(r)
    PROVE  Inductive'
  <1>1. PICK S \in SUBSET Members, K \in SUBSET ActiveIds,
             count \in Counts \union {None} :
           Begin(r, "assignMembers",
               [Idle("plan") EXCEPT !.offers = {m \in S : ActiveOf(m) = {}},
                                    !.ends = ActiveIds \ K,
                                    !.count = count])
    BY DEF AssignMembersRead
  <1>2. PICK offers \in SUBSET Members : offers = {m \in S : ActiveOf(m) = {}}
    OBVIOUS
  <1>3. PICK ends \in SUBSET Ids :
           ends = ActiveIds \ K /\ \A id \in ends : rows[id] # None
    BY DEF ActiveIds, Active, Present
  <1>4. PICK request : request = [Idle("plan") EXCEPT !.offers = offers,
                                                      !.ends = ends,
                                                      !.count = count]
    OBVIOUS
  <1>5. PICK q : q = [request EXCEPT !.op = "assignMembers"]
    OBVIOUS
  <1>6. Idle("plan") \in Request /\ Idle("plan").phase = "plan"
    BY IdleFacts DEF Phase
  <1>7. /\ q \in Request /\ q.phase = "plan" /\ q.op = "assignMembers"
        /\ q.ends = ends
    <2>1. request \in Request /\ request.phase = "plan" /\ request.ends = ends
      BY <1>4, <1>6 DEF Request
    <2>2. "assignMembers" \in Operation
      BY DEF Operation
    <2>3. QED
      BY <1>5, <2>1, <2>2 DEF Request
  <1>8. Sound(q, rows) /\ Fresh(q, rows)
    BY <1>3, <1>7 DEF Sound, Fresh
  <1>9. Begin(r, "assignMembers", request)
    BY <1>1, <1>2, <1>3, <1>4
  <1>10. QED
    BY <1>5, <1>7, <1>8, <1>9, BeginStep DEF Operation

LEMMA ResizeReadStep ==
    ASSUME Inductive, NEW r \in Requests, ResizeRead(r)
    PROVE  Inductive'
  <1>1. PICK count \in Counts :
           Begin(r, "resize", [Idle("plan") EXCEPT !.count = count])
    BY DEF ResizeRead
  <1>2. PICK request : request = [Idle("plan") EXCEPT !.count = count]
    OBVIOUS
  <1>3. PICK q : q = [request EXCEPT !.op = "resize"]
    OBVIOUS
  <1>4. Idle("plan") \in Request /\ Idle("plan").phase = "plan"
    BY IdleFacts DEF Phase
  <1>5. /\ q \in Request /\ q.phase = "plan" /\ q.op = "resize" /\ q.ends = {}
    BY <1>2, <1>3, <1>4 DEF Request, Operation, Idle
  <1>6. Sound(q, rows) /\ Fresh(q, rows)
    BY <1>5 DEF Sound, Fresh
  <1>7. QED
    BY <1>1, <1>2, <1>3, <1>5, <1>6, BeginStep DEF Operation

LEMMA AssignMemberReadStep ==
    ASSUME Inductive, NEW r \in Requests, AssignMemberRead(r)
    PROVE  Inductive'
  <1>1. PICK m \in Members, count \in Counts \union {None} :
           Begin(r, "assignMember",
               [Idle("lookup") EXCEPT !.member = m, !.count = count,
                                      !.limit = Or(count, required)])
    BY DEF AssignMemberRead
  <1>2. PICK limit \in Counts \union {None} : limit = Or(count, required)
    BY DEF Or, Inductive, TypeOK
  <1>3. PICK request : request = [Idle("lookup") EXCEPT !.member = m,
                                    !.count = count, !.limit = limit]
    OBVIOUS
  <1>4. PICK q : q = [request EXCEPT !.op = "assignMember"]
    OBVIOUS
  <1>5. /\ Idle("lookup") \in Request /\ Idle("lookup").phase = "lookup"
        /\ Idle("lookup").ends = {}
    BY IdleFacts DEF Phase
  <1>6. /\ q \in Request /\ q.phase = "lookup" /\ q.op = "assignMember"
        /\ q.member = m /\ q.ends = {}
    BY <1>3, <1>4, <1>5 DEF Request, Operation
  <1>7. Sound(q, rows) /\ Fresh(q, rows)
    BY <1>6 DEF Sound, Fresh
  <1>8. QED
    BY <1>1, <1>2, <1>3, <1>4, <1>6, <1>7, BeginStep DEF Operation

LEMMA ApplyReadStep ==
    ASSUME Inductive, NEW r \in Requests, ApplyRead(r)
    PROVE  Inductive'
  <1>1. PICK m \in Members :
           Begin(r, "apply", [Idle("apply") EXCEPT !.member = m])
    BY DEF ApplyRead
  <1>2. PICK request : request = [Idle("apply") EXCEPT !.member = m]
    OBVIOUS
  <1>3. PICK q : q = [request EXCEPT !.op = "apply"]
    OBVIOUS
  <1>4. Idle("apply") \in Request /\ Idle("apply").phase = "apply"
    BY IdleFacts DEF Phase
  <1>5. /\ q \in Request /\ q.phase = "apply" /\ q.op = "apply"
        /\ q.member = m
    BY <1>2, <1>3, <1>4 DEF Request, Operation
  <1>6. Sound(q, rows) /\ Fresh(q, rows)
    BY <1>5 DEF Sound, Fresh
  <1>7. QED
    BY <1>1, <1>2, <1>3, <1>5, <1>6, BeginStep DEF Operation

\* A decision that would select again finds the assignment there.
LEMMA DecideReadStep ==
    ASSUME Inductive, NEW r \in Requests, DecideRead(r)
    PROVE  Inductive'
  <1>1. PICK m \in Members, status \in ApplicationStatus,
             next \in {"select", "unassign", "application"} :
           /\ next = "unassign" => status # "SELECTED"
           /\ next = "application" /\ status = "SELECTED" =>
                 applications[m] = "SELECTED"
           /\ Begin(r, "decide",
                 [Idle(next) EXCEPT !.member = m, !.decision = status])
    <2>1. PICK m \in Members, status \in ApplicationStatus :
             LET was == applications[m] = "SELECTED"
                 is == status = "SELECTED"
                 next == CASE is /\ ~was -> "select"
                           [] was /\ ~is -> "unassign"
                           [] OTHER      -> "application"
             IN  Begin(r, "decide",
                    [Idle(next) EXCEPT !.member = m, !.decision = status])
      BY DEF DecideRead
    <2>2. CASE status = "SELECTED" /\ applications[m] # "SELECTED"
      BY <2>1, <2>2
    <2>3. CASE applications[m] = "SELECTED" /\ status # "SELECTED"
      BY <2>1, <2>3
    <2>4. CASE status = "SELECTED" <=> applications[m] = "SELECTED"
      BY <2>1, <2>4
    <2>5. QED
      BY <2>2, <2>3, <2>4
  <1>2. applications[m] = "SELECTED" => Offered(m, rows)
    BY DEF Inductive, SelectedWasOffered, Offered, Present
  <1>3. PICK request : request = [Idle(next) EXCEPT !.member = m,
                                                    !.decision = status]
    OBVIOUS
  <1>4. PICK q : q = [request EXCEPT !.op = "decide"]
    OBVIOUS
  <1>5. /\ Idle(next) \in Request /\ Idle(next).phase = next
        /\ Idle(next).ends = {}
    BY <1>1, IdleFacts DEF Phase
  <1>6. /\ q \in Request /\ q.phase = next /\ q.op = "decide"
        /\ q.member = m /\ q.decision = status /\ q.ends = {}
    BY <1>3, <1>4, <1>5 DEF Request, Operation
  <1>7. Sound(q, rows) /\ Fresh(q, rows)
    BY <1>1, <1>2, <1>6 DEF Sound, Fresh
  <1>8. QED
    BY <1>1, <1>3, <1>4, <1>6, <1>7, BeginStep DEF Operation

LEMMA DeleteReadStep ==
    ASSUME Inductive, NEW r \in Requests, DeleteRead(r)
    PROVE  Inductive'
  <1>1. Begin(r, "delete", Idle("delete"))
    BY DEF DeleteRead
  <1>2. PICK q : q = [Idle("delete") EXCEPT !.op = "delete"]
    OBVIOUS
  <1>3. Idle("delete") \in Request /\ Idle("delete").phase = "delete"
    BY IdleFacts DEF Phase
  <1>4. q \in Request /\ q.phase = "delete" /\ q.op = "delete"
    BY <1>2, <1>3 DEF Request, Operation
  <1>5. Sound(q, rows) /\ Fresh(q, rows)
    BY <1>4 DEF Sound, Fresh
  <1>6. QED
    BY <1>1, <1>2, <1>4, <1>5, BeginStep DEF Operation

-----------------------------------------------------------------------------
(* A request goes on, or gives up *)

LEMMA ContinueStep ==
    ASSUME Inductive, NEW r \in Requests, InProgress(r), NEW q \in Request,
           Continue(r, q), Sound(q, rows), Fresh(q, rows)
    PROVE  Inductive'
  <1>1. Step(r, q)
    BY DEF Continue, Tables, Become, Step, Grows
  <1>2. /\ requests' \in [Requests -> Request] /\ requests'[r] = q
        /\ \A s \in Requests : s # r => requests'[s] = requests[s]
        /\ \A s \in Requests : Sound(requests'[s], rows')
    BY <1>1, RequestsStep
  <1>3. UNCHANGED <<exists, required, rows, applications, overlapped, revived>>
    BY DEF Continue, Tables
  <1>4. TypeOK'
    BY <1>2, <1>3 DEF Inductive, TypeOK
  <1>5. DatesFollowStatus' /\ SelectedWasOffered' /\ NothingOrphaned'
    BY <1>3 DEF Inductive, DatesFollowStatus, SelectedWasOffered,
       NothingOrphaned, Present
  <1>6. InTurn'
    <2> SUFFICES ASSUME ~overlapped' PROVE InTurn'
      BY DEF InTurn
    <2>1. \A s \in Requests : InProgress(s)' => InProgress(s)
      BY <1>2 DEF InProgress
    <2>2. \A s \in Requests : Fresh(requests'[s], rows')
      BY <1>2, <1>3 DEF InTurn, Inductive
    <2>3. QED
      BY <1>3, <2>1, <2>2 DEF InTurn, Inductive
  <1>7. QED
    BY <1>2, <1>4, <1>5, <1>6 DEF Inductive

LEMMA AbortStep ==
    ASSUME Inductive, NEW r \in Requests, Abort(r)
    PROVE  Inductive'
  <1>1. PICK q : q = Idle("done")
    OBVIOUS
  <1>2. q \in Request /\ Sound(q, rows) /\ Fresh(q, rows)
    BY <1>1, IdleFacts, IdleIsSound DEF Phase
  <1>3. QED
    BY <1>1, <1>2, ContinueStep DEF Abort

\* A lookup keeps the operation, the member and the decision.
LEMMA LookupStep ==
    ASSUME Inductive, NEW r \in Requests, NEW limit, NEW found,
           \/ At(r, "lookup") /\ found = "plan"
           \/ At(r, "select") /\ found = "application",
           Lookup(r, limit, found)
    PROVE  Inductive'
  <1>1. PICK p \in Request : p = requests[r]
    BY DEF Inductive, TypeOK
  <1>2. Sound(p, rows)
    BY <1>1 DEF Inductive
  <1>3. p.phase \in {"lookup", "select"} /\ InProgress(r)
    BY <1>1 DEF At, InProgress
  <1>4. p.member \in Members
    BY <1>2, <1>3 DEF Sound
  <1>5. CASE /\ ActiveOf(p.member) # {}
             /\ Continue(r, [p EXCEPT !.phase = found])
    <2>1. PICK q : q = [p EXCEPT !.phase = found]
      OBVIOUS
    <2>2. /\ q \in Request /\ q.phase = found /\ q.op = p.op
          /\ q.member = p.member /\ q.decision = p.decision /\ q.ends = p.ends
      BY <2>1 DEF Request, Phase
    <2>3. Offered(p.member, rows)
      BY <1>5 DEF ActiveOf, ActiveIds, Active, Present, Offered
    <2>4. Sound(q, rows) /\ Fresh(q, rows)
      BY <1>1, <1>2, <1>4, <2>2, <2>3 DEF Sound, Fresh, At
    <2>5. QED
      BY <1>3, <1>5, <2>1, <2>2, <2>4, ContinueStep
  <1>6. CASE Continue(r, [p EXCEPT !.phase = "plan", !.offers = {p.member}])
    <2>1. PICK q : q = [p EXCEPT !.phase = "plan", !.offers = {p.member}]
      OBVIOUS
    <2>2. /\ q \in Request /\ q.phase = "plan" /\ q.op = p.op
          /\ q.member = p.member /\ q.decision = p.decision /\ q.ends = p.ends
          /\ q.offers = {q.member}
      BY <1>4, <2>1 DEF Request, Phase
    <2>3. q.ends = {}
      BY <1>2, <1>3, <2>2 DEF Sound
    <2>4. Sound(q, rows) /\ Fresh(q, rows)
      BY <1>2, <1>3, <1>4, <2>2, <2>3 DEF Sound, Fresh
    <2>5. QED
      BY <1>3, <1>6, <2>1, <2>2, <2>4, ContinueStep
  <1>7. QED
    BY <1>1, <1>5, <1>6 DEF Lookup

LEMMA AssignMemberLookupStep ==
    ASSUME Inductive, NEW r \in Requests, AssignMemberLookup(r)
    PROVE  Inductive'
  BY LookupStep DEF AssignMemberLookup

LEMMA SelectLookupStep ==
    ASSUME Inductive, NEW r \in Requests, SelectLookup(r)
    PROVE  Inductive'
  BY LookupStep DEF SelectLookup

LEMMA UnassignLookupStep ==
    ASSUME Inductive, NEW r \in Requests, UnassignLookup(r)
    PROVE  Inductive'
  <1>1. PICK p \in Request : p = requests[r]
    BY DEF Inductive, TypeOK
  <1>2. Sound(p, rows)
    BY <1>1 DEF Inductive
  <1>3. p.phase = "unassign" /\ InProgress(r)
    BY <1>1 DEF UnassignLookup, At, InProgress
  <1>4. p.op = "decide" /\ p.member \in Members /\ p.decision # "SELECTED"
        /\ p.decision \in ApplicationStatus
    BY <1>2, <1>3 DEF Sound
  <1>5. CASE Continue(r, [p EXCEPT !.phase = "application"])
    <2>1. PICK q : q = [p EXCEPT !.phase = "application"]
      OBVIOUS
    <2>2. /\ q \in Request /\ q.phase = "application" /\ q.op = p.op
          /\ q.member = p.member /\ q.decision = p.decision
      BY <2>1 DEF Request, Phase
    <2>3. Sound(q, rows) /\ Fresh(q, rows)
      BY <1>4, <2>2 DEF Sound, Fresh
    <2>4. QED
      BY <1>3, <1>5, <2>1, <2>2, <2>3, ContinueStep
  <1>6. ASSUME NEW id \in ActiveOf(p.member),
               Continue(r, [p EXCEPT !.phase = "write", !.id = id,
                                     !.data = Termination])
        PROVE  Inductive'
    <2>1. PICK q : q = [p EXCEPT !.phase = "write", !.id = id,
                                 !.data = Termination]
      OBVIOUS
    <2>2. id \in Ids /\ id[1] = p.member /\ rows[id] # None
      BY DEF ActiveOf, ActiveIds, Active, Present
    <2>3. /\ q \in Request /\ q.phase = "write" /\ q.op = p.op
          /\ q.member = p.member /\ q.decision = p.decision
          /\ q.id = id /\ q.data = Termination
      BY <2>1, <2>2, TerminationType DEF Request, Phase
    <2>4. Sound(q, rows) /\ Fresh(q, rows)
      BY <1>4, <2>2, <2>3, TerminationType DEF Sound, Fresh
    <2>5. QED
      BY <1>3, <1>6, <2>1, <2>3, <2>4, ContinueStep
  <1>7. QED
    BY <1>1, <1>5, <1>6 DEF UnassignLookup

-----------------------------------------------------------------------------
(* Writes *)

LEMMA WrittenType ==
    ASSUME NEW row \in Row, NEW data \in Data, NEW r \in Requests
    PROVE  LET next == Written(row, data, r)
           IN  /\ next \in Row /\ next # None
               /\ next.status = data.status
               /\ data.accepts => next.acceptedAt = r
               /\ ~data.accepts => next.acceptedAt = row.acceptedAt
               /\ data.status \in {"COMPLETED", "TERMINATED"} => next.ended
               /\ Dated(row) => Dated(next)
               /\ data.accepts => Dated(next)
  <1>1. /\ data.status \in Status /\ data.accepts \in BOOLEAN
        /\ row.acceptedAt \in Requests \union {None} /\ row.ended \in BOOLEAN
        /\ row.legacy \in BOOLEAN
    BY DEF Data, Row
  <1>2. Written(row, data, r) \in Row
    BY <1>1 DEF Written, Row
  <1>3. None \notin Row /\ None \notin Requests
    BY NoneAssumption
  <1>4. QED
    BY <1>1, <1>2, <1>3 DEF Written, Dated

LEMMA OfferType ==
    /\ Offer \in Row /\ Offer # None
    /\ Offer.status = "SELECTED"
  <1>1. None \notin Row
    BY NoneAssumption
  <1>2. Offer \in Row
    BY DEF Offer, Row, Status, ActiveStatus
  <1>3. QED
    BY <1>1, <1>2 DEF Offer

LEMMA AcceptedBeforeType ==
    /\ AcceptedBefore \in Row /\ AcceptedBefore # None
    /\ AcceptedBefore.status = "ASSIGNED" /\ Dated(AcceptedBefore)
  <1>1. None \notin Row
    BY NoneAssumption
  <1>2. AcceptedBefore \in Row
    BY DEF AcceptedBefore, Row, Status, ActiveStatus
  <1>3. QED
    BY <1>1, <1>2 DEF AcceptedBefore, Dated

\* A request that was alone when it wrote relies on nothing it read afterwards.
LEMMA WriteInTurn ==
    ASSUME Inductive, NEW r \in Requests, InProgress(r),
           requests'[r].phase \in {"application", "done"},
           \A s \in Requests : s # r => requests'[s] = requests[s],
           overlapped' = overlapped
    PROVE  InTurn'
  <1> SUFFICES ASSUME ~overlapped' PROVE InTurn'
    BY DEF InTurn
  <1>1. \A s \in Requests : InProgress(s) => s = r
    BY DEF Inductive, InTurn
  <1>2. \A s \in Requests : InProgress(s)' => s = r
    BY <1>1 DEF InProgress
  <1>3. ASSUME NEW s \in Requests PROVE Fresh(requests'[s], rows')
    BY <1>2 DEF InProgress, Fresh
  <1>4. QED
    BY <1>2, <1>3 DEF InTurn

LEMMA AfterWriteStep ==
    ASSUME Inductive, NEW r \in Requests, InProgress(r), AfterWrite(r),
           Grows(rows, rows'),
           requests[r].op = "decide" => Offered(requests[r].member, rows')
    PROVE  /\ requests' \in [Requests -> Request]
           /\ requests'[r].phase \in {"application", "done"}
           /\ \A s \in Requests : s # r => requests'[s] = requests[s]
           /\ \A s \in Requests : Sound(requests'[s], rows')
  <1>1. PICK p \in Request : p = requests[r]
    BY DEF Inductive, TypeOK
  <1>2. Sound(p, rows)
    BY <1>1 DEF Inductive
  <1>3. CASE p.op = "decide"
    <2>1. PICK q : q = [p EXCEPT !.phase = "application"]
      OBVIOUS
    <2>2. /\ q \in Request /\ q.phase = "application" /\ q.op = p.op
          /\ q.member = p.member /\ q.decision = p.decision
      BY <2>1 DEF Request, Phase
    <2>3. p.member \in Members /\ p.decision \in ApplicationStatus
      BY <1>2, <1>3 DEF Sound
    <2>4. Sound(q, rows')
      BY <1>1, <1>3, <2>2, <2>3 DEF Sound
    <2>5. Step(r, q)
      BY <1>1, <1>3, <2>1, <2>2, <2>4 DEF AfterWrite, Become, Step
    <2>6. QED
      BY <2>2, <2>5, RequestsStep
  <1>4. CASE p.op # "decide"
    <2>1. PICK q : q = Idle("done")
      OBVIOUS
    <2>2. q \in Request /\ q.phase = "done" /\ Sound(q, rows')
      BY <2>1, IdleFacts, IdleIsSound DEF Phase
    <2>3. Step(r, q)
      BY <1>1, <1>4, <2>1, <2>2 DEF AfterWrite, Become, Step
    <2>4. QED
      BY <2>2, <2>3, RequestsStep
  <1>5. QED
    BY <1>3, <1>4

LEMMA WriteRowStep ==
    ASSUME Inductive, NEW r \in Requests, WriteRow(r)
    PROVE  Inductive'
  <1>1. PICK q \in Request : q = requests[r]
    BY DEF Inductive, TypeOK
  <1>2. q.phase = "write" /\ InProgress(r)
    BY <1>1 DEF WriteRow, At, InProgress
  <1>3. /\ q.id \in Ids /\ Present(q.id) /\ q.data \in Data
        /\ q.data.status = "ASSIGNED" /\ ~q.data.accepts => Dated(rows[q.id])
        /\ q.op = "decide" => q.id[1] = q.member
    BY <1>1, <1>2 DEF Inductive, Sound, Present
  <1>4. rows[q.id] \in Row
    BY <1>3, RowType DEF Inductive
  <1>5. PICK next : next = Written(rows[q.id], q.data, r)
    OBVIOUS
  <1>6. /\ next \in Row /\ next # None
        /\ next.status = q.data.status
        /\ q.data.accepts => next.acceptedAt = r
        /\ ~q.data.accepts => next.acceptedAt = rows[q.id].acceptedAt
        /\ q.data.status \in {"COMPLETED", "TERMINATED"} => next.ended
        /\ Dated(rows[q.id]) \/ q.data.accepts => Dated(next)
    BY <1>3, <1>4, <1>5, WrittenType
  <1>7. rows \in [Ids -> Row \union {None}]
    BY DEF Inductive, TypeOK
  <1>8. rows' = [rows EXCEPT ![q.id] = next]
    BY <1>1, <1>5 DEF WriteRow
  <1>9. /\ rows' \in [Ids -> Row \union {None}] /\ rows'[q.id] = next
        /\ \A id \in Ids : id # q.id => rows'[id] = rows[id]
    BY <1>3, <1>6, <1>7, <1>8
  <1>11. Grows(rows, rows')
    BY <1>6, <1>9 DEF Grows
  <1>12. q.op = "decide" => Offered(q.member, rows')
    BY <1>3, <1>6, <1>9 DEF Offered
  <1>13. /\ requests' \in [Requests -> Request]
         /\ requests'[r].phase \in {"application", "done"}
         /\ \A s \in Requests : s # r => requests'[s] = requests[s]
         /\ \A s \in Requests : Sound(requests'[s], rows')
    BY <1>1, <1>2, <1>11, <1>12, AfterWriteStep DEF WriteRow
  <1>14. UNCHANGED <<exists, required, applications, overlapped>>
    BY DEF WriteRow
  <1>15. TypeOK'
    <2>1. revived' \in BOOLEAN
      BY DEF WriteRow
    <2>2. QED
      BY <1>9, <1>13, <1>14, <2>1 DEF Inductive, TypeOK
  <1>16. DatesFollowStatus'
    <2> SUFFICES ASSUME NEW id \in Ids, rows'[id] # None
                 PROVE  /\ rows'[id].status = "ASSIGNED" => Dated(rows'[id])
                        /\ rows'[id].status \in {"COMPLETED", "TERMINATED"} =>
                              rows'[id].ended
      BY DEF DatesFollowStatus, Present
    <2>1. CASE id = q.id
      <3>1. q.data.accepts \in BOOLEAN
        BY <1>3 DEF Data
      <3>2. QED
        BY <1>3, <1>6, <1>9, <2>1, <3>1
    <2>2. CASE id # q.id
      BY <1>9, <2>2 DEF Inductive, DatesFollowStatus, Present
    <2>3. QED
      BY <2>1, <2>2
  <1>17. SelectedWasOffered'
    BY <1>11, <1>14 DEF Inductive, SelectedWasOffered, Present, Grows
  <1>18. NothingOrphaned'
    BY <1>3, <1>14 DEF Inductive, NothingOrphaned
  <1>19. InTurn'
    BY <1>2, <1>13, <1>14, WriteInTurn
  <1>20. QED
    BY <1>13, <1>15, <1>16, <1>17, <1>18, <1>19 DEF Inductive

\* What a plan does to the table: rows end, or are new, or stay.
LEMMA PlanRows ==
    ASSUME Inductive, NEW r \in Requests, PlanCommit(r)
    PROVE  \A id \in Ids :
               \/ /\ rows[id] \in Row
                  /\ rows'[id] = Written(rows[id], Termination, r)
               \/ rows[id] = None /\ rows'[id] = Offer
               \/ rows'[id] = rows[id]
  <1> SUFFICES ASSUME NEW id \in Ids
               PROVE  \/ /\ rows[id] \in Row
                         /\ rows'[id] = Written(rows[id], Termination, r)
                      \/ rows[id] = None /\ rows'[id] = Offer
                      \/ rows'[id] = rows[id]
    OBVIOUS
  <1>1. PICK q \in Request : q = requests[r]
    BY DEF Inductive, TypeOK
  <1>2. \A i \in q.ends : rows[i] # None
    BY <1>1 DEF Inductive, Sound, PlanCommit, At
  <1>3. rows'[id] = IF id \in q.ends THEN Written(rows[id], Termination, r)
                    ELSE IF \E m \in q.offers : NewId(m, id) THEN Offer
                    ELSE rows[id]
    BY <1>1 DEF PlanCommit
  <1>4. CASE id \in q.ends
    BY <1>2, <1>3, <1>4, RowType DEF Inductive, Present
  <1>5. CASE id \notin q.ends
    BY <1>3, <1>5 DEF NewId, Present
  <1>6. QED
    BY <1>4, <1>5

LEMMA PlanCommitStep ==
    ASSUME Inductive, NEW r \in Requests, PlanCommit(r)
    PROVE  Inductive'
  <1>1. PICK q \in Request : q = requests[r]
    BY DEF Inductive, TypeOK
  <1>2. q.phase = "plan" /\ InProgress(r)
    BY <1>1 DEF PlanCommit, At, InProgress
  <1>3. ASSUME NEW id \in Ids
        PROVE  /\ rows'[id] \in Row \union {None}
               /\ rows[id] # None =>
                     /\ rows'[id] # None
                     /\ Dated(rows[id]) => Dated(rows'[id])
               /\ rows'[id] # None =>
                     /\ rows'[id].status = "ASSIGNED" => Dated(rows'[id])
                     /\ rows'[id].status \in {"COMPLETED", "TERMINATED"} =>
                           rows'[id].ended
    <2>1. CASE rows[id] \in Row /\ rows'[id] = Written(rows[id], Termination, r)
      BY <2>1, TerminationType, WrittenType
    <2>2. CASE rows[id] = None /\ rows'[id] = Offer
      BY <2>2, OfferType
    <2>3. CASE rows'[id] = rows[id]
      BY <2>3 DEF Inductive, TypeOK, DatesFollowStatus, Present
    <2>4. QED
      BY <2>1, <2>2, <2>3, PlanRows
  <1>4. rows' \in [Ids -> Row \union {None}]
    <2>1. rows' = [id \in Ids |-> rows'[id]]
      BY DEF PlanCommit
    <2>2. QED
      BY <1>3, <2>1
  <1>5. Grows(rows, rows')
    BY <1>3 DEF Grows
  <1>6. q.op = "decide" => Offered(q.member, rows')
    <2> SUFFICES ASSUME q.op = "decide" PROVE Offered(q.member, rows')
      OBVIOUS
    <2>1. q.offers = {q.member}
      BY <1>1, <1>2 DEF Inductive, Sound
    <2>2. PICK id \in Ids : NewId(q.member, id)
      BY <1>1, <2>1 DEF PlanCommit
    <2>3. id[1] = q.member /\ rows[id] = None
      BY <2>2 DEF NewId, Present
    <2>4. id \notin q.ends
      BY <1>1, <1>2, <2>3 DEF Inductive, Sound
    <2>5. rows'[id] = Offer
      BY <1>1, <2>1, <2>2, <2>4 DEF PlanCommit
    <2>6. QED
      BY <2>3, <2>5, OfferType DEF Offered
  <1>7. /\ requests' \in [Requests -> Request]
        /\ requests'[r].phase \in {"application", "done"}
        /\ \A s \in Requests : s # r => requests'[s] = requests[s]
        /\ \A s \in Requests : Sound(requests'[s], rows')
    BY <1>1, <1>2, <1>5, <1>6, AfterWriteStep DEF PlanCommit
  <1>8. exists /\ UNCHANGED <<exists, applications, overlapped, revived>>
    BY DEF PlanCommit
  <1>9. required' \in Counts \union {None}
    <2>1. q.count \in Counts \union {None} /\ required \in Counts \union {None}
      BY DEF Request, Inductive, TypeOK
    <2>2. QED
      BY <1>1, <2>1 DEF PlanCommit, Or
  <1>10. TypeOK'
    BY <1>4, <1>7, <1>8, <1>9 DEF Inductive, TypeOK
  <1>11. DatesFollowStatus'
    BY <1>3 DEF DatesFollowStatus, Present
  <1>12. SelectedWasOffered'
    BY <1>5, <1>8 DEF Inductive, SelectedWasOffered, Present, Grows
  <1>13. NothingOrphaned'
    BY <1>8 DEF NothingOrphaned
  <1>14. InTurn'
    BY <1>2, <1>7, <1>8, WriteInTurn
  <1>15. QED
    BY <1>7, <1>10, <1>11, <1>12, <1>13, <1>14 DEF Inductive

\* A write to the applications, or of the engagement, ends its request.
LEMMA DoneStep ==
    ASSUME Inductive, NEW r \in Requests, InProgress(r),
           Become(r, Idle("done")), UNCHANGED <<rows, overlapped>>
    PROVE  /\ requests' \in [Requests -> Request]
           /\ \A s \in Requests : Sound(requests'[s], rows')
           /\ DatesFollowStatus' /\ InTurn'
  <1>1. PICK q : q = Idle("done")
    OBVIOUS
  <1>2. q \in Request /\ q.phase = "done" /\ Sound(q, rows)
    BY <1>1, IdleFacts, IdleIsSound DEF Phase
  <1>3. Step(r, q)
    BY <1>1, <1>2 DEF Become, Step, Grows
  <1>4. /\ requests' \in [Requests -> Request] /\ requests'[r] = q
        /\ \A s \in Requests : s # r => requests'[s] = requests[s]
        /\ \A s \in Requests : Sound(requests'[s], rows')
    BY <1>3, RequestsStep
  <1>5. InTurn'
    BY <1>2, <1>4, WriteInTurn
  <1>6. DatesFollowStatus'
    BY DEF Inductive, DatesFollowStatus, Present
  <1>7. QED
    BY <1>4, <1>5, <1>6

LEMMA WriteApplicationStep ==
    ASSUME Inductive, NEW r \in Requests, WriteApplication(r)
    PROVE  Inductive'
  <1>1. PICK q \in Request : q = requests[r]
    BY DEF Inductive, TypeOK
  <1>2. q.phase = "application" /\ InProgress(r)
    BY <1>1 DEF WriteApplication, At, InProgress
  <1>3. /\ q.member \in Members /\ q.decision \in ApplicationStatus
        /\ q.decision = "SELECTED" => Offered(q.member, rows)
    BY <1>1, <1>2 DEF Inductive, Sound
  <1>4. /\ requests' \in [Requests -> Request]
        /\ \A s \in Requests : Sound(requests'[s], rows')
        /\ DatesFollowStatus' /\ InTurn'
    BY <1>2, DoneStep DEF WriteApplication
  <1>5. UNCHANGED <<exists, required, rows, overlapped, revived>>
    BY DEF WriteApplication
  <1>6. /\ applications' \in [Members -> ApplicationStatus \union {None}]
        /\ applications'[q.member] = q.decision
        /\ \A m \in Members : m # q.member => applications'[m] = applications[m]
        /\ applications[q.member] # None
    BY <1>1, <1>3 DEF WriteApplication, Inductive, TypeOK
  <1>7. TypeOK'
    BY <1>4, <1>5, <1>6 DEF Inductive, TypeOK
  <1>8. SelectedWasOffered'
    BY <1>3, <1>5, <1>6 DEF Inductive, SelectedWasOffered, Present, Offered
  <1>9. NothingOrphaned'
    BY <1>3, <1>5, <1>6 DEF Inductive, NothingOrphaned
  <1>10. QED
    BY <1>4, <1>7, <1>8, <1>9 DEF Inductive

LEMMA ApplyCommitStep ==
    ASSUME Inductive, NEW r \in Requests, ApplyCommit(r)
    PROVE  Inductive'
  <1>1. PICK q \in Request : q = requests[r]
    BY DEF Inductive, TypeOK
  <1>2. q.phase = "apply" /\ InProgress(r)
    BY <1>1 DEF ApplyCommit, At, InProgress
  <1>3. q.member \in Members
    BY <1>1, <1>2 DEF Inductive, Sound
  <1>4. /\ requests' \in [Requests -> Request]
        /\ \A s \in Requests : Sound(requests'[s], rows')
        /\ DatesFollowStatus' /\ InTurn'
    BY <1>2, DoneStep DEF ApplyCommit
  <1>5. exists /\ UNCHANGED <<exists, required, rows, overlapped, revived>>
    BY DEF ApplyCommit
  <1>6. /\ applications' \in [Members -> ApplicationStatus \union {None}]
        /\ applications'[q.member] = "SUBMITTED"
        /\ \A m \in Members : m # q.member => applications'[m] = applications[m]
    BY <1>1, <1>3 DEF ApplyCommit, Inductive, TypeOK, ApplicationStatus
  <1>7. TypeOK'
    BY <1>4, <1>5, <1>6 DEF Inductive, TypeOK
  <1>8. SelectedWasOffered'
    BY <1>5, <1>6 DEF Inductive, SelectedWasOffered, Present
  <1>9. NothingOrphaned'
    BY <1>5 DEF NothingOrphaned
  <1>10. QED
    BY <1>4, <1>7, <1>8, <1>9 DEF Inductive

LEMMA DeleteCommitStep ==
    ASSUME Inductive, NEW r \in Requests, DeleteCommit(r)
    PROVE  Inductive'
  <1>1. InProgress(r)
    BY DEF DeleteCommit, At, InProgress
  <1>2. /\ requests' \in [Requests -> Request]
        /\ \A s \in Requests : Sound(requests'[s], rows')
        /\ DatesFollowStatus' /\ InTurn'
    BY <1>1, DoneStep DEF DeleteCommit
  <1>3. /\ applications' \in [Members -> ApplicationStatus \union {None}]
        /\ \A m \in Members : applications'[m] = None
    BY DEF DeleteCommit
  <1>4. TypeOK'
    BY <1>2, <1>3 DEF DeleteCommit, Inductive, TypeOK
  <1>5. None # "SELECTED"
    BY NoneAssumption DEF ApplicationStatus
  <1>6. SelectedWasOffered'
    BY <1>3, <1>5 DEF SelectedWasOffered
  <1>7. NothingOrphaned'
    BY <1>3 DEF DeleteCommit, Deletable, NothingOrphaned, Present
  <1>8. QED
    BY <1>2, <1>4, <1>6, <1>7 DEF Inductive

-----------------------------------------------------------------------------
(* Every step, and every behaviour *)

LEMMA InitInductive == Init => Inductive
  <1> SUFFICES ASSUME Init PROVE Inductive
    OBVIOUS
  <1>1. PICK S \in SUBSET Members, old \in SUBSET Members :
            rows = [id \in Ids |-> IF id[2] # 1 \/ id[1] \notin S THEN None
                                  ELSE IF id[1] \in old THEN AcceptedBefore
                                  ELSE Offer]
    BY DEF Init
  <1>2. \A id \in Ids : rows[id] # None => rows[id] = Offer \/ rows[id] = AcceptedBefore
    BY <1>1
  <1>3. rows \in [Ids -> Row \union {None}]
    BY <1>1, OfferType, AcceptedBeforeType
  <1>4. /\ exists = TRUE /\ required \in Counts \union {None}
        /\ applications = [m \in Members |-> None]
        /\ requests = [r \in Requests |-> Idle("new")]
        /\ overlapped = FALSE /\ revived = FALSE
    BY DEF Init
  <1>5. Idle("new") \in Request /\ Idle("new").phase = "new"
    BY IdleFacts DEF Phase
  <1>6. TypeOK
    BY <1>3, <1>4, <1>5 DEF TypeOK
  <1>7. DatesFollowStatus
    BY <1>2, OfferType, AcceptedBeforeType DEF DatesFollowStatus, Present
  <1>8. SelectedWasOffered
    <2>1. None # "SELECTED"
      BY NoneAssumption DEF ApplicationStatus
    <2>2. QED
      BY <1>4, <2>1 DEF SelectedWasOffered
  <1>9. NothingOrphaned
    BY <1>4 DEF NothingOrphaned
  <1>10. \A r \in Requests : Sound(requests[r], rows) /\ Fresh(requests[r], rows)
    BY <1>4, IdleIsSound
  <1>11. InTurn
    BY <1>4, <1>5, <1>10 DEF InTurn, InProgress
  <1>12. QED
    BY <1>6, <1>7, <1>8, <1>9, <1>10, <1>11 DEF Inductive

LEMMA NextInductive == Inductive /\ [Next]_vars => Inductive'
  <1> SUFFICES ASSUME Inductive, [Next]_vars PROVE Inductive'
    OBVIOUS
  <1>1. CASE UNCHANGED vars
    BY <1>1 DEF Inductive, TypeOK, DatesFollowStatus, SelectedWasOffered,
       NothingOrphaned, InTurn, InProgress, Present, vars
  <1>2. CASE Next
    <2>1. PICK r \in Requests : Read(r) \/ Look(r) \/ Write(r) \/ Abort(r)
      BY <1>2 DEF Next
    <2>2. CASE Read(r)
      BY <2>2, AnswerReadStep, SetStatusReadStep, RemoveReadStep,
         AssignMembersReadStep, AssignMemberReadStep, ResizeReadStep,
         ApplyReadStep, DecideReadStep, DeleteReadStep DEF Read
    <2>3. CASE Look(r)
      BY <2>3, AssignMemberLookupStep, SelectLookupStep, UnassignLookupStep
      DEF Look
    <2>4. CASE Write(r)
      BY <2>4, WriteRowStep, PlanCommitStep, WriteApplicationStep,
         ApplyCommitStep, DeleteCommitStep DEF Write
    <2>5. CASE Abort(r)
      BY <2>5, AbortStep
    <2>6. QED
      BY <2>1, <2>2, <2>3, <2>4, <2>5
  <1>3. QED
    BY <1>1, <1>2

\* What requests rely on is so in every state, whatever they interleave with.
THEOREM InductiveHolds == Spec => []Inductive
  <1>1. QED
    BY InitInductive, NextInductive, PTL DEF Spec

\* The tables and the state of every request keep their types: no update by id
\* writes to a row that is not there.
THEOREM AssignmentsTyped == Spec => []TypeOK
  <1>1. Inductive => TypeOK
    BY DEF Inductive
  <1>2. QED
    BY <1>1, InductiveHolds, PTL

\* An ASSIGNED row has its acceptance date, unless it is older than the dates, and
\* a COMPLETED or TERMINATED one its end, although both are decided from a read
\* that may be stale when written.
THEOREM DatesFollow == Spec => []DatesFollowStatus
  <1>1. Inductive => DatesFollowStatus
    BY DEF Inductive
  <1>2. QED
    BY <1>1, InductiveHolds, PTL

\* A selected application has an assignment of its member, whichever of the two
\* writes of a decision is lost.
THEOREM SelectionsOffered == Spec => []SelectedWasOffered
  <1>1. Inductive => SelectedWasOffered
    BY DEF Inductive
  <1>2. QED
    BY <1>1, InductiveHolds, PTL

\* A deletion that passed its check on an old read orphans nothing.
THEOREM DeletionsOrphanNothing == Spec => []NothingOrphaned
  <1>1. Inductive => NothingOrphaned
    BY DEF Inductive
  <1>2. QED
    BY <1>1, InductiveHolds, PTL

-----------------------------------------------------------------------------
(* Acceptance dates *)

LEMMA RowsChange ==
    ASSUME NEW r \in Requests, Read(r) \/ Look(r) \/ Write(r) \/ Abort(r)
    PROVE  WriteRow(r) \/ PlanCommit(r) \/ rows' = rows
  <1>1. CASE Read(r)
    BY <1>1 DEF Read, AnswerRead, SetStatusRead, RemoveRead, AssignMembersRead,
       AssignMemberRead, ResizeRead, ApplyRead, DecideRead, DeleteRead, Begin
  <1>2. CASE Look(r)
    BY <1>2 DEF Look, AssignMemberLookup, SelectLookup, UnassignLookup, Lookup,
       Continue, Tables
  <1>3. CASE Write(r)
    BY <1>3 DEF Write, WriteApplication, ApplyCommit, DeleteCommit
  <1>4. CASE Abort(r)
    BY <1>4 DEF Abort, Continue, Tables
  <1>5. QED
    BY <1>1, <1>2, <1>3, <1>4

LEMMA AcceptanceStep ==
    ASSUME Inductive, Next, ~overlapped'
    PROVE  AcceptanceKept
  <1>1. PICK r \in Requests : Read(r) \/ Look(r) \/ Write(r) \/ Abort(r)
    BY DEF Next
  <1> SUFFICES ASSUME NEW id \in Ids, Present(id), rows[id].acceptedAt # None
               PROVE  rows'[id].acceptedAt = rows[id].acceptedAt
    BY DEF AcceptanceKept
  <1>2. CASE WriteRow(r)
    <2>1. PICK q \in Request : q = requests[r]
      BY DEF Inductive, TypeOK
    <2>2. q.phase = "write" /\ ~overlapped
      BY <1>2, <2>1 DEF WriteRow, At
    <2>3. q.id \in Ids /\ Present(q.id) /\ q.data \in Data
      BY <2>1, <2>2 DEF Inductive, Sound, Present
    <2>4. q.data.accepts => rows[q.id].acceptedAt = None
      BY <2>1, <2>2 DEF Inductive, InTurn, Fresh
    <2>5. rows \in [Ids -> Row \union {None}]
      BY DEF Inductive, TypeOK
    <2>6. rows' = [rows EXCEPT ![q.id] = Written(rows[q.id], q.data, r)]
      BY <1>2, <2>1 DEF WriteRow
    <2>7. CASE id = q.id
      <3>1. rows[id] \in Row
        BY RowType DEF Inductive
      <3>2. ~q.data.accepts
        BY <2>4, <2>7
      <3>3. Written(rows[id], q.data, r).acceptedAt = rows[id].acceptedAt
        BY <2>3, <3>1, <3>2, WrittenType
      <3>4. QED
        BY <2>5, <2>6, <2>7, <3>3
    <2>8. CASE id # q.id
      BY <2>5, <2>6, <2>8
    <2>9. QED
      BY <2>7, <2>8
  <1>3. CASE PlanCommit(r)
    <2>1. CASE rows[id] \in Row /\ rows'[id] = Written(rows[id], Termination, r)
      BY <2>1, TerminationType, WrittenType
    <2>2. CASE rows'[id] = rows[id]
      BY <2>2
    <2>3. QED
      BY <1>3, <2>1, <2>2, PlanRows DEF Present
  <1>4. CASE rows' = rows
    BY <1>4
  <1>5. QED
    BY <1>1, <1>2, <1>3, <1>4, RowsChange

\* As long as requests come one at a time, a first acceptance date is final:
\* a request that was alone when it found no date is alone when it writes one.
THEOREM AcceptanceStays == Spec => FirstAcceptanceStays
  <1>1. Inductive /\ [Next]_vars => [~overlapped' => AcceptanceKept]_vars
    BY AcceptanceStep
  <1>2. QED
    BY <1>1, InductiveHolds, PTL DEF Spec, FirstAcceptanceStays

-----------------------------------------------------------------------------
(* Counting assignments *)

\* Of each member one at most.
Sole(A) == \A i, j \in A : i[1] = j[1] => i = j

LEMMA IdsFinite ==
    ASSUME NEW A, A \subseteq Ids
    PROVE  IsFiniteSet(A) /\ Cardinality(A) \in Nat
  <1>1. IsFiniteSet(1..MaxPerMember)
    BY BoundsAssumption, FS_Interval
  <1>2. IsFiniteSet(Ids)
    BY <1>1, BoundsAssumption, FS_Product DEF Ids
  <1>3. IsFiniteSet(A)
    BY <1>2, FS_Subset
  <1>4. QED
    BY <1>3, FS_CardinalityType

LEMMA WithoutSome ==
    ASSUME NEW S, IsFiniteSet(S), NEW T, T \subseteq S
    PROVE  Cardinality(S \ T) = Cardinality(S) - Cardinality(T)
  <1>1. Cardinality(S \ T) = Cardinality(S) - Cardinality(S \cap T)
    BY FS_Difference
  <1>2. S \cap T = T
    OBVIOUS
  <1>3. QED
    BY <1>1, <1>2, Zenon

LEMMA MembersFinite ==
    ASSUME NEW S, S \subseteq Members
    PROVE  IsFiniteSet(S) /\ Cardinality(S) \in Nat
  BY BoundsAssumption, FS_Subset, FS_CardinalityType

\* Assignments of different members are as many as the members at most.
LEMMA OnePerMember ==
    ASSUME NEW A, A \subseteq Ids, Sole(A), NEW S, S \subseteq Members,
           \A id \in A : id[1] \in S
    PROVE  Cardinality(A) <= Cardinality(S)
  <1> DEFINE f == [id \in A |-> id[1]]
  <1>1. f \in Injection(A, S)
    BY DEF Sole, Injection, IsInjective
  <1>2. IsFiniteSet(S)
    BY MembersFinite
  <1>3. QED
    BY <1>1, <1>2, FS_Injection

\* The next assignment of a member is one.
LEMMA NextIsOne ==
    ASSUME NEW m \in Members, NEW i \in Ids, NEW j \in Ids, NewId(m, i), NewId(m, j)
    PROVE  i = j
  <1>1. /\ i = <<m, i[2]>> /\ j = <<m, j[2]>> /\ i[2] \in Nat \ {0} /\ j[2] \in Nat \ {0}
    BY BoundsAssumption DEF Ids, NewId
  <1>2. ASSUME i[2] < j[2] PROVE FALSE
    <2>1. i[2] \in 1..(j[2] - 1)
      BY <1>1, <1>2
    <2>2. Present(<<m, i[2]>>)
      BY <2>1 DEF NewId
    <2>3. QED
      BY <1>1, <2>2 DEF NewId
  <1>3. ASSUME j[2] < i[2] PROVE FALSE
    <2>1. j[2] \in 1..(i[2] - 1)
      BY <1>1, <1>3
    <2>2. Present(<<m, j[2]>>)
      BY <2>1 DEF NewId
    <2>3. QED
      BY <1>1, <2>2 DEF NewId
  <1>4. QED
    BY <1>1, <1>2, <1>3

-----------------------------------------------------------------------------
(* The index *)

LEMMA ActiveAreIds == ActiveIds \subseteq Ids
  BY DEF ActiveIds

\* The active assignments are of the table.
LEMMA ActiveStays ==
    ASSUME rows' = rows
    PROVE  ActiveIds' = ActiveIds
  BY DEF ActiveIds, Active, Present

\* A row that an update makes active has no rival.
LEMMA SoleAfterWrite ==
    ASSUME Inductive, Sole(ActiveIds), NEW r \in Requests, WriteRow(r)
    PROVE  Sole(ActiveIds')
  <1>1. PICK p \in Request : p = requests[r]
    BY DEF Inductive, TypeOK
  <1>2. p.id \in Ids /\ Present(p.id) /\ p.data \in Data
    BY <1>1 DEF Inductive, Sound, Present, WriteRow, At
  <1>3. rows \in [Ids -> Row \union {None}] /\ rows[p.id] \in Row
    BY <1>2, RowType DEF Inductive, TypeOK
  <1>4. PICK next : next = Written(rows[p.id], p.data, r)
    OBVIOUS
  <1>5. next.status = p.data.status
    BY <1>2, <1>3, <1>4, WrittenType
  <1>6. rows' = [rows EXCEPT ![p.id] = next]
    BY <1>1, <1>4 DEF WriteRow
  <1>7. \A id \in ActiveIds' : id # p.id => id \in ActiveIds
    BY <1>3, <1>6 DEF ActiveIds, Active, Present
  <1>8. p.id \in ActiveIds' => Unrivalled(p.id)
    <2>1. p.id \in ActiveIds' => p.data.status \in ActiveStatus
      BY <1>2, <1>3, <1>5, <1>6 DEF ActiveIds, Active
    <2>2. QED
      BY <1>1, <2>1 DEF WriteRow
  <1>9. QED
    BY <1>7, <1>8 DEF Sole, Unrivalled, ActiveOf

\* A plan makes one row for a member who has no active one.
LEMMA SoleAfterPlan ==
    ASSUME Inductive, Sole(ActiveIds), NEW r \in Requests, PlanCommit(r)
    PROVE  Sole(ActiveIds')
  <1>1. PICK p \in Request : p = requests[r]
    BY DEF Inductive, TypeOK
  <1>2. p.offers \subseteq Members
    BY <1>1 DEF Request
  <1> DEFINE made == {id \in Ids : \E m \in p.offers : NewId(m, id)}
  <1>3. \A id \in ActiveIds' : id \in ActiveIds \/ id \in made
    <2> SUFFICES ASSUME NEW id \in Ids, rows'[id] # None, rows'[id].status \in ActiveStatus,
                        id \notin made
                 PROVE  Active(id)
      BY DEF ActiveIds, Active, Present
    <2>1. rows'[id] = IF id \in p.ends THEN Written(rows[id], Termination, r) ELSE rows[id]
      BY <1>1 DEF PlanCommit
    <2>2. id \notin p.ends
      <3> SUFFICES ASSUME id \in p.ends PROVE FALSE
        OBVIOUS
      <3>1. rows[id] \in Row
        BY <1>1, RowType DEF Inductive, Sound, Present, PlanCommit, At
      <3>2. rows'[id].status = "TERMINATED"
        BY <2>1, <3>1, TerminationType, WrittenType
      <3>3. QED
        BY <3>2 DEF ActiveStatus
    <2>3. QED
      BY <2>1, <2>2 DEF Active, Present
  <1>4. ASSUME NEW i \in made, NEW j \in ActiveIds, i[1] = j[1]
        PROVE  FALSE
    <2>1. PICK m \in p.offers : NewId(m, i)
      OBVIOUS
    <2>2. PICK id \in Ids : NewId(m, id) /\ Unrivalled(id)
      BY <1>1, <2>1 DEF PlanCommit
    <2>3. i = id
      BY <1>2, <2>1, <2>2, NextIsOne
    <2>4. j \in ActiveOf(id[1])
      BY <1>4, <2>3 DEF ActiveOf
    <2>5. j = id /\ ~Present(id) /\ Present(j)
      BY <2>2, <2>4 DEF Unrivalled, NewId, ActiveIds, Active
    <2>6. QED
      BY <2>5
  <1>5. ASSUME NEW i \in made, NEW j \in made, i[1] = j[1]
        PROVE  i = j
    <2>1. PICK m \in p.offers : NewId(m, i)
      OBVIOUS
    <2>2. NewId(m, j)
      BY <1>5, <2>1 DEF NewId
    <2>3. QED
      BY <1>2, <2>1, <2>2, NextIsOne
  <1> HIDE DEF made
  <1>6. QED
    BY <1>3, <1>4, <1>5 DEF Sole

LEMMA SoleStep == Inductive /\ Sole(ActiveIds) /\ [Next]_vars => Sole(ActiveIds)'
  <1> SUFFICES ASSUME Inductive, Sole(ActiveIds), [Next]_vars PROVE Sole(ActiveIds')
    BY DEF Sole
  <1>1. CASE rows' = rows
    BY <1>1, ActiveStays
  <1>2. ASSUME NEW r \in Requests, WriteRow(r) \/ PlanCommit(r)
        PROVE  Sole(ActiveIds')
    BY <1>2, SoleAfterWrite, SoleAfterPlan
  <1>3. QED
    BY <1>1, <1>2, RowsChange DEF Next, vars

LEMMA SoleInit == Init => Sole(ActiveIds)
  <1> SUFFICES ASSUME Init PROVE Sole(ActiveIds)
    OBVIOUS
  <1>1. \A id \in ActiveIds : id[2] = 1 /\ id \in Ids
    BY DEF Init, ActiveIds, Active, Present
  <1>2. QED
    BY <1>1 DEF Sole, Ids

THEOREM SoleHolds == Spec => []Sole(ActiveIds)
  <1>1. QED
    BY SoleInit, SoleStep, InductiveHolds, PTL DEF Spec

-----------------------------------------------------------------------------
(* What a request has counted, when it is alone *)

\* A is the set of active assignments and limit the engagement's count.
Prepared(q, A, limit) ==
    /\ q.phase = "lookup" =>
          /\ q.offers = {} /\ q.ends = {}
          /\ q.limit = Or(q.count, limit) /\ Fits(Cardinality(A), q.limit)
    /\ q.phase = "select" => q.count = None
    /\ q.phase = "plan" =>
          Fits(Cardinality(A \ q.ends) + Cardinality(q.offers), Or(q.count, limit))

Within ==
    ~overlapped /\ ~revived =>
        /\ Fits(Cardinality(ActiveIds), required)
        /\ \A r \in Requests : Prepared(requests[r], ActiveIds, required)

\* Most phases have counted nothing.
LEMMA NothingCounted ==
    ASSUME NEW q, q.phase \notin {"lookup", "select", "plan"}, NEW A, NEW limit
    PROVE  Prepared(q, A, limit)
  BY DEF Prepared

LEMMA WithinBegin ==
    ASSUME Inductive, Within, NEW r \in Requests, NEW op \in Operation,
           NEW request \in Request, Begin(r, op, request),
           Fits(Cardinality(ActiveIds), required) => Prepared(request, ActiveIds, required)
    PROVE  Within'
  <1> SUFFICES ASSUME ~overlapped', ~revived'
               PROVE  /\ Fits(Cardinality(ActiveIds'), required')
                      /\ \A s \in Requests : Prepared(requests'[s], ActiveIds', required')
    BY DEF Within
  <1>1. UNCHANGED <<rows, required, revived>>
    BY DEF Begin
  <1>2. ActiveIds' = ActiveIds
    BY <1>1, ActiveStays
  <1>3. ~overlapped /\ \A s \in Requests : ~InProgress(s)
    BY DEF Begin
  <1>4. Fits(Cardinality(ActiveIds), required)
    BY <1>1, <1>3 DEF Within
  <1>5. PICK q : q = [request EXCEPT !.op = op]
    OBVIOUS
  <1>6. Prepared(q, ActiveIds, required)
    BY <1>4, <1>5 DEF Prepared, Request
  <1>7. requests \in [Requests -> Request]
    BY DEF Inductive, TypeOK
  <1>8. requests' = [requests EXCEPT ![r] = q]
    BY <1>5 DEF Begin, Become
  <1>9. ASSUME NEW s \in Requests
        PROVE  Prepared(requests'[s], ActiveIds, required)
    <2>1. CASE s = r
      BY <1>6, <1>7, <1>8, <2>1
    <2>2. CASE s # r
      <3>1. requests'[s] = requests[s] /\ requests[s].phase \in {"new", "done"}
        BY <1>3, <1>7, <1>8, <2>2 DEF InProgress
      <3>2. QED
        BY <3>1, NothingCounted
    <2>3. QED
      BY <2>1, <2>2
  <1>10. QED
    BY <1>1, <1>2, <1>4, <1>9

\* A request that looked something up.
LEMMA WithinContinue ==
    ASSUME Inductive, Within, NEW r \in Requests, NEW q,
           Continue(r, q),
           Fits(Cardinality(ActiveIds), required) /\ Prepared(requests[r], ActiveIds, required) =>
               Prepared(q, ActiveIds, required)
    PROVE  Within'
  <1> SUFFICES ASSUME ~overlapped', ~revived'
               PROVE  /\ Fits(Cardinality(ActiveIds'), required')
                      /\ \A s \in Requests : Prepared(requests'[s], ActiveIds', required')
    BY DEF Within
  <1>1. UNCHANGED <<rows, required, overlapped, revived>>
    BY DEF Continue, Tables
  <1>2. ActiveIds' = ActiveIds
    BY <1>1, ActiveStays
  <1>3. /\ Fits(Cardinality(ActiveIds), required)
        /\ \A s \in Requests : Prepared(requests[s], ActiveIds, required)
    BY <1>1 DEF Within
  <1>4. requests \in [Requests -> Request] /\ requests' = [requests EXCEPT ![r] = q]
    BY DEF Inductive, TypeOK, Continue, Become
  <1>5. ASSUME NEW s \in Requests
        PROVE  Prepared(requests'[s], ActiveIds, required)
    <2>1. CASE s = r
      BY <1>3, <1>4, <2>1
    <2>2. CASE s # r
      BY <1>3, <1>4, <2>2
    <2>3. QED
      BY <2>1, <2>2
  <1>6. QED
    BY <1>1, <1>2, <1>3, <1>5

\* A request that wrote: nobody else has counted anything.
LEMMA WithinWrite ==
    ASSUME Inductive, Within, NEW r \in Requests, InProgress(r), NEW q,
           q.phase \in {"application", "done"}, Become(r, q), overlapped' = overlapped,
           (/\ ~revived' /\ Fits(Cardinality(ActiveIds), required)
            /\ Prepared(requests[r], ActiveIds, required)) =>
               Fits(Cardinality(ActiveIds'), required'),
           revived => revived'
    PROVE  Within'
  <1> SUFFICES ASSUME ~overlapped', ~revived'
               PROVE  /\ Fits(Cardinality(ActiveIds'), required')
                      /\ \A s \in Requests : Prepared(requests'[s], ActiveIds', required')
    BY DEF Within
  <1>1. Fits(Cardinality(ActiveIds'), required')
    BY DEF Within
  <1>2. requests \in [Requests -> Request] /\ requests' = [requests EXCEPT ![r] = q]
    BY DEF Inductive, TypeOK, Become
  <1>3. \A s \in Requests : s # r => ~InProgress(s)
    BY DEF Inductive, InTurn
  <1>4. ASSUME NEW s \in Requests
        PROVE  requests'[s].phase \notin {"lookup", "select", "plan"}
    <2>1. CASE s = r
      BY <1>2, <2>1
    <2>2. CASE s # r
      BY <1>2, <1>3, <2>2 DEF InProgress
    <2>3. QED
      BY <2>1, <2>2
  <1>5. QED
    BY <1>1, <1>4, NothingCounted

\* Requests that begin by finding a row, or without counting.
LEMMA WithinPlainReads ==
    ASSUME Inductive, Within, NEW r \in Requests,
           AnswerRead(r) \/ SetStatusRead(r) \/ RemoveRead(r) \/ ApplyRead(r) \/ DeleteRead(r)
    PROVE  Within'
  <1>1. ASSUME NEW op \in Operation, NEW request \in Request, Begin(r, op, request),
               request.phase \notin {"lookup", "select", "plan"}
        PROVE  Within'
    BY <1>1, WithinBegin, NothingCounted
  <1>2. ASSUME NEW op \in Operation, NEW id \in Ids, NEW data \in Data,
               Begin(r, op, Writing(id, data))
        PROVE  Within'
    <2>1. Idle("write") \in Request /\ Idle("write").phase = "write"
      BY IdleFacts DEF Phase
    <2>2. PICK request : request = Writing(id, data)
      OBVIOUS
    <2>3. request \in Request /\ request.phase = "write"
      BY <2>1, <2>2 DEF Writing, Request
    <2>4. QED
      BY <1>1, <1>2, <2>2, <2>3
  <1>3. CASE AnswerRead(r)
    <2>1. PICK id \in Ids, status \in {"ASSIGNED", "OFFER_REJECTED"} :
              Begin(r, "answer", Writing(id,
                  [status |-> status, accepts |-> FirstAcceptance(rows[id], status)]))
      BY <1>3 DEF AnswerRead
    <2>2. PICK accepts \in BOOLEAN : accepts = FirstAcceptance(rows[id], status)
      BY DEF FirstAcceptance
    <2>3. [status |-> status, accepts |-> accepts] \in Data
      BY DEF Data, Status, ActiveStatus, FinalStatus
    <2>4. Begin(r, "answer", Writing(id, [status |-> status, accepts |-> accepts]))
      BY <2>1, <2>2
    <2>5. QED
      BY <1>2, <2>3, <2>4 DEF Operation
  <1>4. CASE SetStatusRead(r)
    <2>1. PICK id \in Ids, status \in Status :
              Begin(r, "setStatus", Writing(id,
                  [status |-> status,
                   accepts |-> /\ rows[id].status # "ASSIGNED"
                               /\ FirstAcceptance(rows[id], status)]))
      BY <1>4 DEF SetStatusRead
    <2>2. PICK accepts \in BOOLEAN :
              accepts = (/\ rows[id].status # "ASSIGNED"
                         /\ FirstAcceptance(rows[id], status))
      BY DEF FirstAcceptance
    <2>3. [status |-> status, accepts |-> accepts] \in Data
      BY DEF Data
    <2>4. Begin(r, "setStatus", Writing(id, [status |-> status, accepts |-> accepts]))
      BY <2>1, <2>2
    <2>5. QED
      BY <1>2, <2>3, <2>4 DEF Operation
  <1>5. CASE RemoveRead(r)
    BY <1>2, <1>5, TerminationType, ActiveAreIds DEF RemoveRead, Operation
  <1>6. CASE ApplyRead(r)
    <2>1. PICK m \in Members : Begin(r, "apply", [Idle("apply") EXCEPT !.member = m])
      BY <1>6 DEF ApplyRead
    <2>2. Idle("apply") \in Request /\ Idle("apply").phase = "apply"
      BY IdleFacts DEF Phase
    <2>3. PICK request : request = [Idle("apply") EXCEPT !.member = m]
      OBVIOUS
    <2>4. request \in Request /\ request.phase = "apply"
      BY <2>2, <2>3 DEF Request
    <2>5. QED
      BY <1>1, <2>1, <2>3, <2>4 DEF Operation
  <1>7. CASE DeleteRead(r)
    <2>1. Idle("delete") \in Request /\ Idle("delete").phase = "delete"
      BY IdleFacts DEF Phase
    <2>2. QED
      BY <1>1, <1>7, <2>1 DEF DeleteRead, Operation
  <1>8. QED
    BY <1>3, <1>4, <1>5, <1>6, <1>7

\* A decision counts when it looks the assignment up.
LEMMA WithinDecideRead ==
    ASSUME Inductive, Within, NEW r \in Requests, DecideRead(r)
    PROVE  Within'
  <1>1. PICK m \in Members, status \in ApplicationStatus,
             next \in {"select", "unassign", "application"} :
           Begin(r, "decide", [Idle(next) EXCEPT !.member = m, !.decision = status])
    <2>1. PICK m \in Members, status \in ApplicationStatus :
             LET was == applications[m] = "SELECTED"
                 is == status = "SELECTED"
                 next == CASE is /\ ~was -> "select"
                           [] was /\ ~is -> "unassign"
                           [] OTHER      -> "application"
             IN  Begin(r, "decide",
                    [Idle(next) EXCEPT !.member = m, !.decision = status])
      BY DEF DecideRead
    <2>2. CASE status = "SELECTED" /\ applications[m] # "SELECTED"
      BY <2>1, <2>2
    <2>3. CASE applications[m] = "SELECTED" /\ status # "SELECTED"
      BY <2>1, <2>3
    <2>4. CASE status = "SELECTED" <=> applications[m] = "SELECTED"
      BY <2>1, <2>4
    <2>5. QED
      BY <2>2, <2>3, <2>4
  <1>2. PICK request : request = [Idle(next) EXCEPT !.member = m, !.decision = status]
    OBVIOUS
  <1>3. /\ Idle(next) \in Request /\ Idle(next).phase = next /\ Idle(next).count = None
    BY <1>1, IdleFacts DEF Phase, Idle
  <1>4. request \in Request /\ request.phase = next /\ request.count = None
    <2> DEFINE idle == Idle(next)
    <2>1. /\ idle \in Request /\ idle.phase = next /\ idle.count = None
          /\ request = [idle EXCEPT !.member = m, !.decision = status]
      BY <1>2, <1>3
    <2> HIDE DEF idle
    <2>2. request = [phase |-> idle.phase, op |-> idle.op, member |-> m, decision |-> status,
                     id |-> idle.id, data |-> idle.data, offers |-> idle.offers,
                     ends |-> idle.ends, count |-> idle.count, limit |-> idle.limit]
      BY <2>1, Zenon DEF Request
    <2>3. QED
      BY <2>1, <2>2 DEF Request
  <1>5. Prepared(request, ActiveIds, required)
    BY <1>1, <1>4 DEF Prepared
  <1>6. QED
    BY <1>1, <1>2, <1>4, <1>5, WithinBegin DEF Operation

LEMMA WithinResizeRead ==
    ASSUME Inductive, Within, NEW r \in Requests, ResizeRead(r)
    PROVE  Within'
  <1>1. PICK count \in Counts :
            /\ Fits(Cardinality(ActiveIds), count)
            /\ Begin(r, "resize", [Idle("plan") EXCEPT !.count = count])
    BY DEF ResizeRead
  <1>2. PICK request : request = [Idle("plan") EXCEPT !.count = count]
    OBVIOUS
  <1>3. Idle("plan") \in Request /\ Idle("plan").phase = "plan"
        /\ Idle("plan").offers = {} /\ Idle("plan").ends = {}
    BY IdleFacts DEF Phase, Idle
  <1>4. /\ request \in Request /\ request.phase = "plan" /\ request.offers = {}
        /\ request.ends = {} /\ request.count = count
    BY <1>2, <1>3 DEF Request
  <1>5. count # None
    BY NoneAssumption
  <1>6. Cardinality(ActiveIds \ {}) + Cardinality({}) = Cardinality(ActiveIds)
    <2>1. Cardinality(ActiveIds) \in Nat /\ ActiveIds \ {} = ActiveIds
      BY ActiveAreIds, IdsFinite
    <2>2. QED
      BY <2>1, FS_EmptySet
  <1>7. Prepared(request, ActiveIds, required)
    BY <1>1, <1>4, <1>5, <1>6 DEF Prepared, Or
  <1>8. QED
    BY <1>1, <1>2, <1>4, <1>7, WithinBegin DEF Operation

\* What fits a count that is given, or none, fits the count there will be.
LEMMA WithinAssignMemberRead ==
    ASSUME Inductive, Within, NEW r \in Requests, AssignMemberRead(r)
    PROVE  Within'
  <1>1. PICK m \in Members, count \in Counts \union {None} :
            /\ Fits(Cardinality(ActiveIds), count)
            /\ Begin(r, "assignMember",
                   [Idle("lookup") EXCEPT !.member = m, !.count = count,
                                          !.limit = Or(count, required)])
    BY DEF AssignMemberRead
  <1>2. PICK limit \in Counts \union {None} : limit = Or(count, required)
    BY DEF Or, Inductive, TypeOK
  <1>3. PICK request : request = [Idle("lookup") EXCEPT !.member = m, !.count = count,
                                                        !.limit = limit]
    OBVIOUS
  <1>4. Idle("lookup") \in Request /\ Idle("lookup").phase = "lookup"
        /\ Idle("lookup").offers = {} /\ Idle("lookup").ends = {}
    BY IdleFacts DEF Phase, Idle
  <1>5. /\ request \in Request /\ request.phase = "lookup" /\ request.offers = {}
        /\ request.ends = {} /\ request.count = count /\ request.limit = limit
    BY <1>3, <1>4 DEF Request
  <1>6. Fits(Cardinality(ActiveIds), required) => Fits(Cardinality(ActiveIds), limit)
    BY <1>1, <1>2 DEF Or
  <1>7. Fits(Cardinality(ActiveIds), required) => Prepared(request, ActiveIds, required)
    BY <1>2, <1>5, <1>6 DEF Prepared
  <1>8. QED
    BY <1>1, <1>2, <1>3, <1>5, <1>7, WithinBegin DEF Operation

\* The members listed are as many as the rows kept and the offers made.
LEMMA WithinAssignMembersRead ==
    ASSUME Inductive, Sole(ActiveIds), Within, NEW r \in Requests, AssignMembersRead(r)
    PROVE  Within'
  <1>1. PICK S \in SUBSET Members, K \in SUBSET ActiveIds, count \in Counts \union {None} :
            /\ \A id \in K : id[1] \in S
            /\ Fits(Cardinality(S), Or(count, required))
            /\ Begin(r, "assignMembers",
                   [Idle("plan") EXCEPT !.offers = {m \in S : ActiveOf(m) = {}},
                                        !.ends = ActiveIds \ K,
                                        !.count = count])
    BY DEF AssignMembersRead
  <1>2. PICK offers \in SUBSET S : offers = {m \in S : ActiveOf(m) = {}}
    OBVIOUS
  <1>3. PICK ends \in SUBSET Ids : ends = ActiveIds \ K
    BY ActiveAreIds
  <1>4. PICK request : request = [Idle("plan") EXCEPT !.offers = offers, !.ends = ends,
                                                      !.count = count]
    OBVIOUS
  <1>5. Idle("plan") \in Request /\ Idle("plan").phase = "plan"
    BY IdleFacts DEF Phase
  <1>6. /\ request \in Request /\ request.phase = "plan" /\ request.offers = offers
        /\ request.ends = ends /\ request.count = count
    BY <1>4, <1>5 DEF Request
  <1>7. \A id \in ActiveIds : id[1] \notin offers
    BY <1>2 DEF ActiveOf
  <1>8. ActiveIds \ ends = K
    BY <1>3
  <1>9. Cardinality(K) + Cardinality(offers) <= Cardinality(S)
    <2>1. K \subseteq Ids /\ Sole(K) /\ \A id \in K : id[1] \in S \ offers
      BY <1>1, <1>7, ActiveAreIds DEF Sole
    <2>2. Cardinality(K) <= Cardinality(S \ offers)
      BY <2>1, OnePerMember
    <2>3. IsFiniteSet(S) /\ offers \subseteq S
      BY <1>2, MembersFinite
    <2>4. Cardinality(S \ offers) = Cardinality(S) - Cardinality(offers)
      BY <2>3, WithoutSome
    <2>5. /\ Cardinality(K) \in Nat /\ Cardinality(S) \in Nat /\ Cardinality(offers) \in Nat
      BY <2>1, IdsFinite, MembersFinite
    <2>6. QED
      BY <2>2, <2>4, <2>5
  <1>10. /\ Cardinality(K) \in Nat /\ Cardinality(S) \in Nat /\ Cardinality(offers) \in Nat
    BY IdsFinite, MembersFinite, ActiveAreIds
  <1>11. PICK limit \in Counts \union {None} : limit = Or(count, required)
    BY DEF Or, Inductive, TypeOK
  <1>12. limit # None => limit \in Nat
    BY BoundsAssumption
  <1>13. Prepared(request, ActiveIds, required)
    <2>1. Fits(Cardinality(K) + Cardinality(offers), limit)
      BY <1>1, <1>9, <1>10, <1>11, <1>12 DEF Fits
    <2>2. QED
      BY <1>6, <1>8, <1>11, <2>1 DEF Prepared
  <1>14. Begin(r, "assignMembers", request)
    BY <1>1, <1>2, <1>3, <1>4
  <1>15. QED
    BY <1>6, <1>13, <1>14, WithinBegin DEF Operation

\* A lookup that finds no row counts one more.
LEMMA WithinLookup ==
    ASSUME Inductive, Within, NEW r \in Requests, NEW limit, NEW found,
           \/ At(r, "lookup") /\ found = "plan" /\ limit = requests[r].limit
           \/ At(r, "select") /\ found = "application" /\ limit = required,
           Lookup(r, limit, found)
    PROVE  Within'
  <1>1. PICK p \in Request : p = requests[r]
    BY DEF Inductive, TypeOK
  <1>2. p.ends = {} /\ p.member \in Members /\ p.phase \in {"lookup", "select"}
    BY <1>1 DEF Inductive, Sound, At
  <1>3. ActiveIds \ {} = ActiveIds /\ Cardinality(ActiveIds) \in Nat
    BY ActiveAreIds, IdsFinite
  <1>4. CASE Continue(r, [p EXCEPT !.phase = found])
    <2>1. PICK q : q = [p EXCEPT !.phase = found]
      OBVIOUS
    <2>2. /\ q.phase = found /\ q.offers = p.offers /\ q.ends = {} /\ q.count = p.count
      BY <1>2, <2>1 DEF Request
    <2>3. ASSUME Prepared(p, ActiveIds, required)
          PROVE  Prepared(q, ActiveIds, required)
      <3>1. CASE found = "plan"
        <4>1. /\ p.offers = {} /\ p.limit = Or(p.count, required)
              /\ Fits(Cardinality(ActiveIds), p.limit)
          BY <1>1, <2>3, <3>1 DEF Prepared, At
        <4>2. Cardinality(ActiveIds \ {}) + Cardinality({}) = Cardinality(ActiveIds)
          BY <1>3, FS_EmptySet
        <4>3. QED
          BY <2>2, <3>1, <4>1, <4>2 DEF Prepared
      <3>2. CASE found = "application"
        BY <2>2, <3>2, NothingCounted
      <3>3. QED
        BY <3>1, <3>2
    <2>4. QED
      BY <1>1, <1>4, <2>1, <2>3, WithinContinue
  <1>5. CASE /\ ActiveOf(p.member) = {} /\ Fits(Cardinality(ActiveIds) + 1, limit)
             /\ Continue(r, [p EXCEPT !.phase = "plan", !.offers = {p.member}])
    <2>1. PICK q : q = [p EXCEPT !.phase = "plan", !.offers = {p.member}]
      OBVIOUS
    <2>2. /\ q.phase = "plan" /\ q.offers = {p.member} /\ q.ends = {} /\ q.count = p.count
      BY <1>2, <2>1 DEF Request
    <2>4. Cardinality(ActiveIds \ {}) + Cardinality({p.member}) = Cardinality(ActiveIds) + 1
      BY <1>3, FS_Singleton
    <2>5. ASSUME Prepared(p, ActiveIds, required)
          PROVE  Or(q.count, required) = limit
      <3>1. CASE At(r, "lookup") /\ limit = requests[r].limit
        BY <1>1, <2>2, <2>5, <3>1 DEF Prepared, At
      <3>2. CASE At(r, "select") /\ limit = required
        BY <1>1, <2>2, <2>5, <3>2 DEF Prepared, At, Or
      <3>3. QED
        BY <3>1, <3>2
    <2>6. Prepared(p, ActiveIds, required) => Prepared(q, ActiveIds, required)
      BY <1>5, <2>2, <2>4, <2>5 DEF Prepared
    <2>7. QED
      BY <1>1, <1>5, <2>1, <2>6, WithinContinue
  <1>6. QED
    BY <1>1, <1>4, <1>5 DEF Lookup

LEMMA WithinLook ==
    ASSUME Inductive, Within, NEW r \in Requests, Look(r)
    PROVE  Within'
  <1>1. CASE AssignMemberLookup(r)
    BY <1>1, WithinLookup DEF AssignMemberLookup
  <1>2. CASE SelectLookup(r)
    BY <1>2, WithinLookup DEF SelectLookup
  <1>3. CASE UnassignLookup(r)
    <2>1. PICK p \in Request : p = requests[r]
      BY DEF Inductive, TypeOK
    <2>2. CASE Continue(r, [p EXCEPT !.phase = "application"])
      <3>1. PICK q : q = [p EXCEPT !.phase = "application"]
        OBVIOUS
      <3>2. q.phase = "application"
        BY <3>1 DEF Request
      <3>3. QED
        BY <2>2, <3>1, <3>2, NothingCounted, WithinContinue
    <2>3. ASSUME NEW id \in ActiveOf(p.member),
                 Continue(r, [p EXCEPT !.phase = "write", !.id = id, !.data = Termination])
          PROVE  Within'
      <3>1. PICK q : q = [p EXCEPT !.phase = "write", !.id = id, !.data = Termination]
        OBVIOUS
      <3>2. q.phase = "write"
        BY <3>1 DEF Request
      <3>3. QED
        BY <2>3, <3>1, <3>2, NothingCounted, WithinContinue
    <2>4. QED
      BY <1>3, <2>1, <2>2, <2>3 DEF UnassignLookup
  <1>4. QED
    BY <1>1, <1>2, <1>3 DEF Look

LEMMA WithinAbort ==
    ASSUME Inductive, Within, NEW r \in Requests, Abort(r)
    PROVE  Within'
  <1>1. Idle("done").phase = "done"
    BY IdleFacts DEF Phase
  <1>2. PICK q : q = Idle("done")
    OBVIOUS
  <1>3. QED
    BY <1>1, <1>2, NothingCounted, WithinContinue DEF Abort

\* What a request becomes when it has written.
LEMMA AfterWriteBecomes ==
    ASSUME Inductive, NEW r \in Requests, AfterWrite(r)
    PROVE  \E q : q.phase \in {"application", "done"} /\ Become(r, q)
  <1>1. PICK p \in Request : p = requests[r]
    BY DEF Inductive, TypeOK
  <1>2. Idle("done").phase = "done"
    BY IdleFacts DEF Phase
  <1>3. PICK next : next = [p EXCEPT !.phase = "application"]
    OBVIOUS
  <1>4. next.phase = "application"
    BY <1>3 DEF Request
  <1>5. Become(r, next) \/ Become(r, Idle("done"))
    BY <1>1, <1>3 DEF AfterWrite
  <1>6. QED
    BY <1>2, <1>4, <1>5

\* Without an ended row revived, an update by id makes no row active.
LEMMA WithinWriteRow ==
    ASSUME Inductive, Within, NEW r \in Requests, WriteRow(r)
    PROVE  Within'
  <1>1. PICK p \in Request : p = requests[r]
    BY DEF Inductive, TypeOK
  <1>2. p.phase = "write" /\ InProgress(r)
    BY <1>1 DEF WriteRow, At, InProgress
  <1>3. p.id \in Ids /\ Present(p.id) /\ p.data \in Data
    BY <1>1, <1>2 DEF Inductive, Sound, Present
  <1>4. rows \in [Ids -> Row \union {None}] /\ rows[p.id] \in Row
    BY <1>3, RowType DEF Inductive, TypeOK
  <1>5. PICK next : next = Written(rows[p.id], p.data, r)
    OBVIOUS
  <1>6. next.status = p.data.status
    BY <1>3, <1>4, <1>5, WrittenType
  <1>7. rows' = [rows EXCEPT ![p.id] = next]
    BY <1>1, <1>5 DEF WriteRow
  <1>8. ASSUME ~revived'
        PROVE  ActiveIds' \subseteq ActiveIds
    <2> SUFFICES ASSUME NEW id \in Ids, rows'[id] # None, rows'[id].status \in ActiveStatus
                 PROVE  Active(id)
      BY DEF ActiveIds, Active, Present
    <2>1. CASE id = p.id
      <3>1. p.data.status \in ActiveStatus
        BY <1>4, <1>6, <1>7, <2>1
      <3>2. QED
        BY <1>1, <1>8, <2>1, <3>1 DEF WriteRow
    <2>2. CASE id # p.id
      BY <1>4, <1>7, <2>2 DEF Active, Present
    <2>3. QED
      BY <2>1, <2>2
  <1>9. required' = required /\ overlapped' = overlapped /\ (revived => revived')
    BY DEF WriteRow
  <1>10. ASSUME ~revived', Fits(Cardinality(ActiveIds), required)
         PROVE  Fits(Cardinality(ActiveIds'), required')
    <2>1. ActiveIds' \subseteq ActiveIds
      BY <1>8, <1>10
    <2>2. IsFiniteSet(ActiveIds)
      BY ActiveAreIds, IdsFinite
    <2>3. Cardinality(ActiveIds') <= Cardinality(ActiveIds)
      BY <2>1, <2>2, FS_Subset
    <2>4. /\ Cardinality(ActiveIds) \in Nat /\ Cardinality(ActiveIds') \in Nat
          /\ required # None => required \in Nat
      BY <2>1, ActiveAreIds, IdsFinite, BoundsAssumption DEF Inductive, TypeOK
    <2>5. QED
      BY <1>9, <1>10, <2>3, <2>4 DEF Fits
  <1>11. PICK q : q.phase \in {"application", "done"} /\ Become(r, q)
    BY AfterWriteBecomes DEF WriteRow
  <1>12. QED
    BY <1>2, <1>9, <1>10, <1>11, WithinWrite

\* A plan leaves active the rows it did not end and one for each offer.
LEMMA WithinPlanCommit ==
    ASSUME Inductive, Within, NEW r \in Requests, PlanCommit(r)
    PROVE  Within'
  <1>1. PICK p \in Request : p = requests[r]
    BY DEF Inductive, TypeOK
  <1>2. p.phase = "plan" /\ InProgress(r) /\ p.offers \subseteq Members
    BY <1>1 DEF PlanCommit, At, InProgress, Request
  <1> DEFINE kept == ActiveIds \ p.ends
             made == {id \in Ids : \E m \in p.offers : NewId(m, id)}
  <1>3. ActiveIds' \subseteq kept \union made
    <2> SUFFICES ASSUME NEW id \in Ids, rows'[id] # None, rows'[id].status \in ActiveStatus,
                        id \notin made
                 PROVE  id \in kept
      BY DEF ActiveIds, Active, Present
    <2>1. rows'[id] = IF id \in p.ends THEN Written(rows[id], Termination, r) ELSE rows[id]
      BY <1>1 DEF PlanCommit
    <2>2. id \notin p.ends
      <3> SUFFICES ASSUME id \in p.ends PROVE FALSE
        OBVIOUS
      <3>1. rows[id] \in Row
        BY <1>1, <1>2, RowType DEF Inductive, Sound, Present
      <3>2. rows'[id].status = "TERMINATED"
        BY <2>1, <3>1, TerminationType, WrittenType
      <3>3. QED
        BY <3>2 DEF ActiveStatus
    <2>3. QED
      BY <2>1, <2>2 DEF ActiveIds, Active, Present
  <1>4. \A id \in made : id[1] \in p.offers
    BY DEF NewId
  <1>5. Sole(made)
    <2> SUFFICES ASSUME NEW i \in made, NEW j \in made, i[1] = j[1]
                 PROVE  i = j
      BY DEF Sole
    <2>1. PICK m \in p.offers : NewId(m, i)
      OBVIOUS
    <2>2. NewId(m, j)
      BY <2>1 DEF NewId
    <2>3. QED
      BY <1>2, <2>1, <2>2, NextIsOne
  <1>6. Cardinality(made) <= Cardinality(p.offers)
    BY <1>2, <1>4, <1>5, OnePerMember
  <1>7. kept \subseteq Ids /\ made \subseteq Ids
    BY ActiveAreIds
  <1>8. overlapped' = overlapped /\ revived' = revived /\ required' = Or(p.count, required)
    BY <1>1 DEF PlanCommit
  <1>9. ASSUME Fits(Cardinality(ActiveIds), required), Prepared(p, ActiveIds, required)
        PROVE  Fits(Cardinality(ActiveIds'), required')
    <2> HIDE DEF kept, made
    <2>1. Fits(Cardinality(kept) + Cardinality(p.offers), required')
      BY <1>2, <1>8, <1>9 DEF Prepared, kept
    <2>3. /\ IsFiniteSet(kept) /\ IsFiniteSet(made) /\ IsFiniteSet(kept \union made)
          /\ Cardinality(kept) \in Nat /\ Cardinality(made) \in Nat
          /\ Cardinality(ActiveIds') \in Nat /\ Cardinality(kept \union made) \in Nat
          /\ Cardinality(kept \cap made) \in Nat
      <3>1. /\ kept \union made \subseteq Ids /\ ActiveIds' \subseteq Ids
            /\ kept \cap made \subseteq Ids
        BY <1>3, <1>7
      <3>2. QED
        BY <1>7, <3>1, IdsFinite
    <2>4. Cardinality(ActiveIds') <= Cardinality(kept \union made)
      BY <1>3, <2>3, FS_Subset
    <2>5. Cardinality(kept \union made)
              = Cardinality(kept) + Cardinality(made) - Cardinality(kept \cap made)
      BY <2>3, FS_Union
    <2>6. Cardinality(p.offers) \in Nat
      BY <1>2, MembersFinite
    <2>7. required' # None => required' \in Nat
      <3>1. p.count \in Counts \union {None} /\ required \in Counts \union {None}
        BY DEF Request, Inductive, TypeOK
      <3>2. QED
        BY <1>8, <3>1, BoundsAssumption DEF Or
    <2>8. Cardinality(ActiveIds') <= Cardinality(kept) + Cardinality(p.offers)
      BY <1>6, <2>3, <2>4, <2>5, <2>6
    <2>9. QED
      BY <2>1, <2>3, <2>6, <2>7, <2>8 DEF Fits
  <1>10. PICK q : q.phase \in {"application", "done"} /\ Become(r, q)
    BY AfterWriteBecomes DEF PlanCommit
  <1>11. QED
    BY <1>1, <1>2, <1>8, <1>9, <1>10, WithinWrite

\* A write of the applications or of the engagement leaves the assignments.
LEMMA WithinOtherWrites ==
    ASSUME Inductive, Within, NEW r \in Requests,
           WriteApplication(r) \/ ApplyCommit(r) \/ DeleteCommit(r)
    PROVE  Within'
  <1>1. InProgress(r) /\ Become(r, Idle("done")) /\ UNCHANGED <<required, rows, overlapped, revived>>
    BY DEF WriteApplication, ApplyCommit, DeleteCommit, At, InProgress
  <1>2. ActiveIds' = ActiveIds
    BY <1>1, ActiveStays
  <1>3. Idle("done").phase = "done"
    BY IdleFacts DEF Phase
  <1>4. PICK q : q = Idle("done")
    OBVIOUS
  <1>5. QED
    BY <1>1, <1>2, <1>3, <1>4, WithinWrite

LEMMA InitWithin == Init => Within
  <1> SUFFICES ASSUME Init PROVE Within
    OBVIOUS
  <1>1. PICK S \in SUBSET Members, old \in SUBSET Members :
            /\ Fits(Cardinality(S), required)
            /\ rows = [id \in Ids |-> IF id[2] # 1 \/ id[1] \notin S THEN None
                                     ELSE IF id[1] \in old THEN AcceptedBefore
                                     ELSE Offer]
    BY DEF Init
  <1>2. \A id \in ActiveIds : id[1] \in S
    BY <1>1 DEF ActiveIds, Active, Present
  <1>3. Cardinality(ActiveIds) <= Cardinality(S)
    BY <1>2, SoleInit, ActiveAreIds, OnePerMember
  <1>4. /\ Cardinality(ActiveIds) \in Nat /\ Cardinality(S) \in Nat
        /\ required # None => required \in Nat
    BY ActiveAreIds, IdsFinite, MembersFinite, BoundsAssumption DEF Init
  <1>6. Fits(Cardinality(ActiveIds), required)
    BY <1>1, <1>3, <1>4 DEF Fits
  <1>7. \A r \in Requests : requests[r] = Idle("new") /\ Idle("new").phase = "new"
    BY IdleFacts DEF Init, Phase
  <1>8. QED
    BY <1>6, <1>7, NothingCounted DEF Within

LEMMA NextWithin == Inductive /\ Sole(ActiveIds) /\ Within /\ [Next]_vars => Within'
  <1> SUFFICES ASSUME Inductive, Sole(ActiveIds), Within, [Next]_vars PROVE Within'
    OBVIOUS
  <1>1. CASE UNCHANGED vars
    <2>1. ActiveIds' = ActiveIds
      BY <1>1, ActiveStays DEF vars
    <2>2. UNCHANGED <<required, requests, overlapped, revived>>
      BY <1>1 DEF vars
    <2>3. QED
      BY <2>1, <2>2 DEF Within
  <1>2. CASE Next
    <2>1. PICK r \in Requests : Read(r) \/ Look(r) \/ Write(r) \/ Abort(r)
      BY <1>2 DEF Next
    <2>2. CASE Read(r)
      BY <2>2, WithinPlainReads, WithinDecideRead, WithinResizeRead,
         WithinAssignMemberRead, WithinAssignMembersRead DEF Read
    <2>3. CASE Look(r)
      BY <2>3, WithinLook
    <2>4. CASE Write(r)
      BY <2>4, WithinWriteRow, WithinPlanCommit, WithinOtherWrites DEF Write
    <2>5. CASE Abort(r)
      BY <2>5, WithinAbort
    <2>6. QED
      BY <2>1, <2>2, <2>3, <2>4, <2>5
  <1>3. QED
    BY <1>1, <1>2

\* No member has two active assignments, whatever interleaves.  One at a time, and
\* with no ended assignment revived by hand, requests keep to the engagement's
\* count: what a request counted before it wrote is still so when it writes,
\* whatever failed before it.
THEOREM LimitsHold == Spec => []LimitsHoldInTurn
  <1>1. Init => Within
    BY InitWithin
  <1>2. Spec => []Within
    BY <1>1, NextWithin, InductiveHolds, SoleHolds, PTL DEF Spec
  <1>3. Sole(ActiveIds) /\ Within => LimitsHoldInTurn
    BY DEF Within, Sole, LimitsHoldInTurn, ActiveOf
  <1>4. QED
    BY <1>2, <1>3, SoleHolds, PTL
=============================================================================
