---------------------- MODULE EngagementManagersProofs ----------------------
(***************************************************************************)
(* The register of managers is explained by its trail, and approvals had   *)
(* authority, for any number of requests and members.                      *)
(***************************************************************************)
EXTENDS EngagementManagers, TLAPS

Explained(m) ==
    IF register[m] = None THEN About(m, Action) = {}
    ELSE \E k, g \in DOMAIN trail :
            /\ Newest(About(m, Action), k)
            /\ Newest(About(m, {"MANAGER_ASSIGNED"}), g)
            /\ register[m].createdBy = trail[g].actor
            /\ register[m].removedBy = IF k = g THEN None ELSE trail[k].actor

-----------------------------------------------------------------------------
(* Steps that leave register and trail alone *)

\* Nothing that a property looks at has changed.
Untouched == UNCHANGED <<register, trail>>

LEMMA UntouchedFacts ==
    ASSUME Untouched, NEW m, NEW A
    PROVE  /\ About(m, A)' = About(m, A)
           /\ Explained(m)' <=> Explained(m)
           /\ \A n : HadAuthority(m, n)' <=> HadAuthority(m, n)
  BY DEF Untouched, About, Explained, HadAuthority, Newest

-----------------------------------------------------------------------------
(* Steps that write a record *)

LEMMA AppendFacts ==
    ASSUME NEW S, NEW s \in Seq(S), NEW x \in S
    PROVE  /\ Len(s) \in Nat
           /\ DOMAIN s = 1 .. Len(s)
           /\ Append(s, x) \in Seq(S)
           /\ DOMAIN Append(s, x) = 1 .. Len(s) + 1
           /\ \A k \in 1 .. Len(s) : Append(s, x)[k] = s[k]
           /\ Append(s, x)[Len(s) + 1] = x
           /\ Len(Append(s, x)) = Len(s) + 1
  OBVIOUS

\* The trail keeps its records and gains one, the newest, about the manager of
\* the request.
LEMMA NoteGrows ==
    ASSUME TypeOK, NEW r \in Requests, requests[r].manager \in Members,
           NEW action \in Action, Note(action, r)
    PROVE  LET n == Len(trail) + 1
           IN  /\ n \in Nat \ {0} /\ Len(trail) = n - 1
               /\ DOMAIN trail = 1 .. n - 1
               /\ trail' \in Seq(Record) /\ Len(trail') = n
               /\ DOMAIN trail' = (1 .. n - 1) \union {n}
               /\ n \notin 1 .. n - 1
               /\ \A k \in 1 .. n - 1 : trail'[k] = trail[k]
               /\ /\ trail'[n].action = action
                  /\ trail'[n].actor = r
                  /\ trail'[n].manager = requests[r].manager
  <1> DEFINE record == [action |-> action, actor |-> r,
                        manager |-> requests[r].manager]
  <1>1. record \in Record
    BY DEF Record
  <1>2. /\ record.action = action /\ record.actor = r
        /\ record.manager = requests[r].manager
    OBVIOUS
  <1>3. trail' = Append(trail, record) /\ trail \in Seq(Record)
    BY DEF Note, TypeOK
  <1> HIDE DEF record
  <1>4. QED
    BY <1>1, <1>2, <1>3, AppendFacts

\* The records about a member: only those about the request's manager grow, by
\* the new one.
LEMMA AboutGrows ==
    ASSUME TypeOK, NEW r \in Requests, requests[r].manager \in Members,
           NEW action \in Action, Note(action, r), NEW m, NEW A
    PROVE  LET n == Len(trail) + 1
           IN  /\ About(m, A) \subseteq 1 .. n - 1
               /\ m = requests[r].manager /\ action \in A =>
                     About(m, A)' = About(m, A) \union {n}
               /\ ~(m = requests[r].manager /\ action \in A) =>
                     About(m, A)' = About(m, A)
  BY NoteGrows DEF About

\* The same, for the request's own manager.
LEMMA MineGrows ==
    ASSUME TypeOK, NEW r \in Requests, requests[r].manager \in Members,
           NEW action \in Action, Note(action, r), NEW A, action \in A
    PROVE  LET n == Len(trail) + 1
               m == requests[r].manager
           IN  /\ About(m, A) \subseteq 1 .. n - 1
               /\ \A k : k = m => About(k, A)' = About(m, A) \union {n}
  BY NoteGrows DEF About

\* A record about somebody else explains nothing new.
LEMMA OthersStayExplained ==
    ASSUME TypeOK, NEW r \in Requests, requests[r].manager \in Members,
           NEW action \in Action, Note(action, r), NEW m \in Members,
           m # requests[r].manager, register'[m] = register[m], Explained(m)
    PROVE  Explained(m)'
  <1> DEFINE n == Len(trail) + 1
  <1>1. /\ DOMAIN trail \subseteq DOMAIN trail'
        /\ \A k \in DOMAIN trail : trail'[k] = trail[k]
    BY NoteGrows
  <1>2. \A A : About(m, A)' = About(m, A)
    BY AboutGrows
  <1>3. CASE register[m] = None
    BY <1>2, <1>3 DEF Explained
  <1>4. CASE register[m] # None
    <2>1. PICK k, g \in DOMAIN trail :
             /\ Newest(About(m, Action), k)
             /\ Newest(About(m, {"MANAGER_ASSIGNED"}), g)
             /\ register[m].createdBy = trail[g].actor
             /\ register[m].removedBy = IF k = g THEN None ELSE trail[k].actor
      BY <1>4 DEF Explained
    <2>2. /\ Newest(About(m, Action)', k)
          /\ Newest(About(m, {"MANAGER_ASSIGNED"})', g)
      BY <1>2, <2>1
    <2>3. /\ register'[m].createdBy = trail'[g].actor
          /\ register'[m].removedBy = IF k = g THEN None ELSE trail'[k].actor
      BY <1>1, <2>1
    <2>4. QED
      BY <1>1, <1>4, <2>2, <2>3 DEF Explained
  <1>5. QED
    BY <1>3, <1>4

\* A record written later does not take back the authority of an earlier moment.
LEMMA AuthorityStays ==
    ASSUME TypeOK, NEW r \in Requests, requests[r].manager \in Members,
           NEW action \in Action, Note(action, r), NEW m,
           NEW n \in Nat, n <= Len(trail), HadAuthority(m, n)
    PROVE  HadAuthority(m, n)' /\ n <= Len(trail')
  <1>1. PICK top : top = Len(trail) + 1
    OBVIOUS
  <1>2. top \in Nat /\ n < top /\ Len(trail') = top
    BY <1>1, NoteGrows
  <1>3. \A A : /\ About(m, A) \subseteq About(m, A)'
               /\ About(m, A)' \subseteq About(m, A) \union {top}
    BY <1>1, AboutGrows
  <1>4. PICK k \in About(m, {"MANAGER_ASSIGNED"}) :
           /\ k <= n
           /\ \A j \in About(m, {"MANAGER_REMOVED"}) : j < k \/ j > n
    BY DEF HadAuthority
  <1>5. \A j \in About(m, {"MANAGER_REMOVED"})' : j < k \/ j > n
    BY <1>2, <1>3, <1>4
  <1>6. k \in About(m, {"MANAGER_ASSIGNED"})'
    BY <1>3
  <1>7. HadAuthority(m, n)'
    BY <1>4, <1>5, <1>6 DEF HadAuthority
  <1>8. QED
    BY <1>2, <1>7

-----------------------------------------------------------------------------
(* The inductive step, one lemma per kind of step *)

LEMMA TypeStep == TypeOK /\ [Next]_vars /\
                  (\A r \in Requests : Checked(requests[r])) => TypeOK'
  <1> SUFFICES ASSUME TypeOK, [Next]_vars,
                      \A r \in Requests : Checked(requests[r])
               PROVE  TypeOK'
    OBVIOUS
  <1>1. ASSUME NEW r \in Requests, Finish(r) PROVE requests' \in [Requests -> Request]
    <2>1. Idle("done") \in Request
      BY DEF Idle, Request
    <2>2. QED
      BY <1>1, <2>1 DEF Finish, TypeOK
  <1>2. Len(trail) \in Nat
    BY DEF TypeOK
  <1>3. ASSUME NEW r \in Requests, NEW m \in Members, NEW op \in Operation,
               Proceed(r, op, m)
        PROVE  TypeOK'
    <2> DEFINE q == [phase |-> "read", op |-> op, manager |-> m,
                     seen |-> register[m], checkedAt |-> Len(trail)]
    <2>1. q \in Request
      BY <1>2 DEF Request, TypeOK
    <2> HIDE DEF q
    <2>2. requests' \in [Requests -> Request]
      BY <1>3, <2>1 DEF Proceed, TypeOK, q
    <2>3. QED
      BY <1>3, <2>2 DEF Proceed, TypeOK
  <1>4. ASSUME NEW r \in Requests, AssignRead(r) \/ RemoveRead(r) \/ ApproveRead(r)
        PROVE  TypeOK'
    BY <1>3, <1>4 DEF AssignRead, RemoveRead, ApproveRead, Operation
  <1>5. ASSUME NEW r \in Requests, AssignCommit(r)
        PROVE  TypeOK'
    <2>1. requests[r].manager \in Members
      BY <1>5 DEF AssignCommit, Committing, Checked
    <2>2. Granted(register[requests[r].manager], r) \in Row
      BY DEF Granted, Row
    <2>3. register' \in [Members -> Row \union {None}]
      BY <1>5, <2>1, <2>2 DEF AssignCommit, TypeOK
    <2>4. trail' \in Seq(Record)
      BY <1>5, <2>1, NoteGrows DEF AssignCommit, Action
    <2>5. QED
      BY <1>1, <1>5, <2>3, <2>4 DEF AssignCommit, TypeOK
  <1>6. ASSUME NEW r \in Requests, RemoveCommit(r)
        PROVE  TypeOK'
    <2>1. requests[r].manager \in Members
      BY <1>6 DEF RemoveCommit, Committing, Checked
    <2>2. Removed(register[requests[r].manager], r) \in Row
      BY <1>6, <2>1 DEF RemoveCommit, Removed, Row, TypeOK
    <2>3. register' \in [Members -> Row \union {None}]
      BY <1>6, <2>1, <2>2 DEF RemoveCommit, TypeOK
    <2>4. trail' \in Seq(Record)
      BY <1>6, <2>1, NoteGrows DEF RemoveCommit, Action
    <2>5. QED
      BY <1>1, <1>6, <2>3, <2>4 DEF RemoveCommit, TypeOK
  <1>7. ASSUME NEW r \in Requests, Approve(r)
        PROVE  TypeOK'
    <2>1. requests[r].manager \in Members /\ requests[r].checkedAt \in Nat
      BY <1>7 DEF Approve, Committing, Checked, TypeOK, Request
    <2>2. approvals' \subseteq Approval
      BY <1>7, <2>1 DEF Approve, TypeOK, Approval
    <2>3. QED
      BY <1>1, <1>7, <2>2 DEF Approve, TypeOK
  <1>8. ASSUME NEW r \in Requests, Abort(r)
        PROVE  TypeOK'
    BY <1>1, <1>8 DEF Abort, TypeOK
  <1>9. CASE AssignmentCreated \/ EngagementRemoved \/ UNCHANGED vars
    <2>1. <<>> \in Seq(Record)
      OBVIOUS
    <2>2. CASE EngagementRemoved
      BY <2>1, <2>2 DEF EngagementRemoved, TypeOK
    <2>3. CASE AssignmentCreated \/ UNCHANGED vars
      BY <2>3 DEF AssignmentCreated, vars, TypeOK
    <2>4. QED
      BY <1>9, <2>2, <2>3
  <1>10. QED
    BY <1>4, <1>5, <1>6, <1>7, <1>8, <1>9 DEF Next, Step

LEMMA ExplainedStep ==
    ASSUME TypeOK, [Next]_vars, \A r \in Requests : Checked(requests[r]),
           NEW m \in Members, Explained(m)
    PROVE  Explained(m)'
  <1>1. CASE Untouched
    BY <1>1, UntouchedFacts
  <1>2. CASE EngagementRemoved
    BY <1>2 DEF EngagementRemoved, Explained, About
  <1>3. ASSUME NEW r \in Requests, AssignCommit(r)
        PROVE  Explained(m)'
    <2>1. /\ requests[r].manager \in Members /\ Note("MANAGER_ASSIGNED", r)
          /\ "MANAGER_ASSIGNED" \in Action
      BY <1>3 DEF AssignCommit, Committing, Checked, Action
    <2>2. CASE m # requests[r].manager
      <3>1. register'[m] = register[m]
        BY <1>3, <2>2 DEF AssignCommit, TypeOK
      <3>2. QED
        BY <2>1, <2>2, <3>1, OthersStayExplained
    <2>3. CASE m = requests[r].manager
      <3>1. PICK n : n = Len(trail) + 1
        OBVIOUS
      <3>2. n \in Nat /\ n \in DOMAIN trail' /\ trail'[n].actor = r
        BY <2>1, <3>1, NoteGrows
      <3>3. /\ About(m, Action) \subseteq 1 .. n - 1
            /\ About(m, Action)' = About(m, Action) \union {n}
            /\ About(m, {"MANAGER_ASSIGNED"}) \subseteq 1 .. n - 1
            /\ About(m, {"MANAGER_ASSIGNED"})' =
                  About(m, {"MANAGER_ASSIGNED"}) \union {n}
        BY <2>1, <2>3, <3>1, MineGrows
      <3>4. /\ Newest(About(m, Action)', n)
            /\ Newest(About(m, {"MANAGER_ASSIGNED"})', n)
        BY <2>1, <3>2, <3>3 DEF Newest
      <3>5. /\ register'[m] \in Row /\ register'[m].createdBy = r
            /\ register'[m].removedBy = None
        BY <1>3, <2>3 DEF AssignCommit, Granted, TypeOK, Row
      <3>6. QED
        BY <3>2, <3>4, <3>5, NoneAssumption DEF Explained
    <2>4. QED
      BY <2>2, <2>3
  <1>4. ASSUME NEW r \in Requests, RemoveCommit(r)
        PROVE  Explained(m)'
    <2>1. /\ requests[r].manager \in Members /\ Note("MANAGER_REMOVED", r)
          /\ "MANAGER_REMOVED" \in Action
      BY <1>4 DEF RemoveCommit, Committing, Checked, Action
    <2>2. CASE m # requests[r].manager
      <3>1. register'[m] = register[m]
        BY <1>4, <2>2 DEF RemoveCommit, TypeOK
      <3>2. QED
        BY <2>1, <2>2, <3>1, OthersStayExplained
    <2>3. CASE m = requests[r].manager
      <3>1. PICK n : n = Len(trail) + 1
        OBVIOUS
      <3>2. /\ n \in Nat /\ n \in DOMAIN trail' /\ trail'[n].actor = r
            /\ DOMAIN trail = 1 .. n - 1
            /\ DOMAIN trail \subseteq DOMAIN trail'
            /\ \A k \in DOMAIN trail : trail'[k] = trail[k]
        BY <2>1, <3>1, NoteGrows
      <3>3. /\ About(m, Action) \subseteq 1 .. n - 1
            /\ About(m, Action)' = About(m, Action) \union {n}
            /\ About(m, {"MANAGER_ASSIGNED"})' = About(m, {"MANAGER_ASSIGNED"})
        BY <2>1, <2>3, <3>1, AboutGrows
      <3>4. PICK g \in DOMAIN trail :
               /\ Newest(About(m, {"MANAGER_ASSIGNED"}), g)
               /\ register[m].createdBy = trail[g].actor
        BY <1>4, <2>3 DEF RemoveCommit, Explained
      <3>5. /\ Newest(About(m, Action)', n)
            /\ Newest(About(m, {"MANAGER_ASSIGNED"})', g)
        BY <3>2, <3>3, <3>4 DEF Newest
      <3>6. register[m] \in Row
        BY <1>4, <2>3 DEF RemoveCommit, TypeOK
      <3>7. /\ register'[m] \in Row /\ register'[m].createdBy = trail[g].actor
            /\ register'[m].removedBy = r
        BY <1>4, <2>3, <3>4, <3>6 DEF RemoveCommit, Removed, TypeOK, Row
      <3>8. n # g /\ g \in DOMAIN trail' /\ trail'[g] = trail[g]
        BY <3>2, <3>4
      <3>9. QED
        BY <3>2, <3>5, <3>7, <3>8, NoneAssumption DEF Explained
    <2>4. QED
      BY <2>2, <2>3
  <1>5. ASSUME NEW r \in Requests, NEW k \in Members, NEW op, Proceed(r, op, k)
        PROVE  Untouched
    BY <1>5 DEF Proceed, Untouched
  <1>6. ASSUME NEW r \in Requests, Step(r), ~AssignCommit(r), ~RemoveCommit(r)
        PROVE  Untouched
    BY <1>5, <1>6 DEF Step, AssignRead, RemoveRead, ApproveRead, Approve, Abort,
                      Untouched
  <1>7. CASE AssignmentCreated \/ UNCHANGED vars
    BY <1>1, <1>7 DEF AssignmentCreated, vars, Untouched
  <1>8. QED
    BY <1>1, <1>2, <1>3, <1>4, <1>6, <1>7 DEF Next

\* Authority that was found at a role check is there for good: only an engagement
\* without assignments is deleted, and a row is never taken away otherwise.
LEMMA AuthorisedStep ==
    ASSUME TypeOK, [Next]_vars, \A r \in Requests : Checked(requests[r]),
           NEW m \in Members, NEW n \in Nat, Authorised(m, n)
    PROVE  Authorised(m, n)'
  <1>1. staffed /\ register[m] # None /\ n <= Len(trail) /\ HadAuthority(m, n)
    BY DEF Authorised
  <1>2. ASSUME Untouched, staffed' = staffed \/ staffed'
        PROVE  Authorised(m, n)'
    BY <1>1, <1>2, UntouchedFacts DEF Authorised, Untouched
  <1>3. ASSUME NEW r \in Requests, AssignCommit(r) \/ RemoveCommit(r)
        PROVE  Authorised(m, n)'
    <2>1. PICK action \in Action : Note(action, r)
      BY <1>3 DEF AssignCommit, RemoveCommit, Action
    <2>2. requests[r].manager \in Members
      BY <1>3 DEF AssignCommit, RemoveCommit, Committing, Checked
    <2>3. HadAuthority(m, n)' /\ n <= Len(trail')
      BY <1>1, <2>1, <2>2, AuthorityStays
    <2>4. register'[m] # None
      <3>1. CASE m # requests[r].manager
        BY <1>1, <1>3, <3>1 DEF AssignCommit, RemoveCommit, TypeOK
      <3>2. CASE m = requests[r].manager
        <4>1. register[m] \in Row
          BY <1>1 DEF TypeOK
        <4>2. Granted(register[m], r) \in Row /\ Removed(register[m], r) \in Row
          BY <4>1 DEF Granted, Removed, Row
        <4>3. /\ AssignCommit(r) => register'[m] = Granted(register[m], r)
              /\ RemoveCommit(r) => register'[m] = Removed(register[m], r)
          BY <3>2 DEF AssignCommit, RemoveCommit, TypeOK
        <4>4. QED
          BY <1>3, <4>2, <4>3, NoneAssumption
      <3>3. QED
        BY <3>1, <3>2
    <2>5. staffed'
      BY <1>1, <1>3 DEF AssignCommit, RemoveCommit
    <2>6. QED
      BY <2>3, <2>4, <2>5 DEF Authorised
  <1>4. ASSUME NEW r \in Requests, Step(r), ~AssignCommit(r), ~RemoveCommit(r)
        PROVE  Untouched /\ staffed' = staffed
    BY <1>4 DEF Step, AssignRead, RemoveRead, ApproveRead, Proceed, Approve,
                Abort, Untouched
  <1>5. ~EngagementRemoved
    BY <1>1 DEF EngagementRemoved, Removable
  <1>6. CASE AssignmentCreated \/ UNCHANGED vars
    BY <1>2, <1>6 DEF AssignmentCreated, vars, Untouched
  <1>7. QED
    BY <1>2, <1>3, <1>4, <1>5, <1>6 DEF Next

\* A current manager has authority now: the newest record is the grant.
LEMMA CurrentHasAuthority ==
    ASSUME TypeOK, NEW m \in Members, Explained(m), IsEngagementManager(m)
    PROVE  HadAuthority(m, Len(trail))
  <1>1. PICK k, g \in DOMAIN trail :
           /\ Newest(About(m, Action), k)
           /\ Newest(About(m, {"MANAGER_ASSIGNED"}), g)
           /\ register[m].removedBy = IF k = g THEN None ELSE trail[k].actor
    BY DEF Explained, IsEngagementManager, IsCurrent
  <1>2. trail \in Seq(Record)
    BY DEF TypeOK
  <1>3. trail[k] \in Record
    BY <1>1, <1>2
  <1>4. k = g
    BY <1>1, <1>3, NoneAssumption DEF IsEngagementManager, IsCurrent, Record
  <1>5. DOMAIN trail \subseteq Nat /\ g <= Len(trail)
    BY <1>1, <1>2
  <1>6. \A j \in About(m, {"MANAGER_REMOVED"}) : j <= g /\ j # g /\ j \in Nat
    <2>1. About(m, {"MANAGER_REMOVED"}) \subseteq About(m, Action)
      BY DEF About, Action
    <2>2. trail[g].action = "MANAGER_ASSIGNED"
      BY <1>1 DEF Newest, About
    <2>3. QED
      BY <1>1, <1>4, <1>5, <2>1, <2>2 DEF Newest, About
  <1>7. g \in About(m, {"MANAGER_ASSIGNED"}) /\ g \in Nat
    BY <1>1, <1>5 DEF Newest
  <1>8. QED
    BY <1>5, <1>6, <1>7 DEF HadAuthority

LEMMA CheckedStep ==
    ASSUME Inductive, [Next]_vars, NEW x \in Requests
    PROVE  Checked(requests[x])'
  <1>1. TypeOK /\ \A r \in Requests : Checked(requests[r])
    BY DEF Inductive
  <1>2. CASE requests'[x] = requests[x]
    <2>1. requests[x].checkedAt \in Nat
      BY <1>1 DEF TypeOK, Request
    <2>2. QED
      BY <1>1, <1>2, <2>1, AuthorisedStep DEF Checked
  <1>3. CASE requests'[x].phase # "read"
    BY <1>3 DEF Checked
  <1>4. ASSUME NEW r \in Requests, Finish(r)
        PROVE  requests'[x] = requests[x] \/ requests'[x].phase # "read"
    BY <1>1, <1>4 DEF Finish, Idle, TypeOK
  <1>5. ASSUME NEW r \in Requests, NEW m \in Members, NEW op, Proceed(r, op, m)
        PROVE  \/ requests'[x] = requests[x]
               \/ /\ requests'[x].manager = m /\ requests'[x].op = op
                  /\ requests'[x].checkedAt = Len(trail)
    BY <1>1, <1>5 DEF Proceed, TypeOK
  <1>6. ASSUME NEW r \in Requests, AssignRead(r) \/ RemoveRead(r)
        PROVE  Checked(requests[x])'
    BY <1>2, <1>5, <1>6 DEF AssignRead, RemoveRead, Checked
  <1>7. ASSUME NEW r \in Requests, ApproveRead(r)
        PROVE  Checked(requests[x])'
    <2>1. PICK m \in Members : /\ staffed /\ IsEngagementManager(m)
                               /\ Proceed(r, "approve", m)
      BY <1>7 DEF ApproveRead
    <2>2. HadAuthority(m, Len(trail))
      BY <1>1, <2>1, CurrentHasAuthority
         DEF Inductive, TrailExplainsRegister, Explained
    <2>3. Len(trail) \in Nat
      BY <1>1 DEF TypeOK
    <2>4. Authorised(m, Len(trail))
      BY <2>1, <2>2, <2>3 DEF Authorised, IsEngagementManager, IsCurrent
    <2>5. Authorised(m, Len(trail)) /\ UNCHANGED <<staffed, register, trail>>
      BY <2>1, <2>4 DEF Proceed
    <2>6. \A n : Authorised(m, n) => Authorised(m, n)'
      BY <2>5 DEF Authorised, HadAuthority, About
    <2>7. PICK n : n = Len(trail)
      OBVIOUS
    <2>8. CASE requests'[x] = requests[x]
      BY <1>2, <2>8
    <2>9. CASE /\ requests'[x].manager = m /\ requests'[x].op = "approve"
               /\ requests'[x].checkedAt = n
      BY <2>5, <2>6, <2>7, <2>9 DEF Checked
    <2>10. QED
      BY <1>5, <2>1, <2>7, <2>8, <2>9
  <1>8. CASE AssignmentCreated \/ EngagementRemoved \/ UNCHANGED vars
    BY <1>2, <1>8 DEF AssignmentCreated, EngagementRemoved, vars
  <1>9. QED
    BY <1>2, <1>3, <1>4, <1>6, <1>7, <1>8
       DEF Next, Step, AssignCommit, RemoveCommit, Approve, Abort

\* Types, explained rows and justified approvals are kept by every step: what an
\* approval relies on is carried from its role check to its transaction.
THEOREM InductiveHolds == Spec => []Inductive
  <1>1. Init => Inductive
    <2> SUFFICES ASSUME Init PROVE Inductive
      OBVIOUS
    <2>1. Idle("new") \in Request
      BY DEF Idle, Request
    <2>2. TypeOK
      <3>1. <<>> \in Seq(Record)
        OBVIOUS
      <3>2. QED
        BY <2>1, <3>1 DEF Init, TypeOK
    <2>3. TrailExplainsRegister
      BY DEF Init, TrailExplainsRegister, About
    <2>4. QED
      BY <2>2, <2>3 DEF Init, Inductive, Checked, Idle
  <1>2. Inductive /\ [Next]_vars => Inductive'
    <2> SUFFICES ASSUME Inductive, [Next]_vars PROVE Inductive'
      OBVIOUS
    <2>1. TypeOK /\ \A r \in Requests : Checked(requests[r])
      BY DEF Inductive
    <2>2. TypeOK'
      BY <2>1, TypeStep
    <2>3. (staffed => exists)'
      BY DEF Inductive, Next, Step, AssignRead, RemoveRead, ApproveRead,
             Proceed, AssignCommit, RemoveCommit, Approve, Abort,
             AssignmentCreated, EngagementRemoved, Removable, vars
    <2>4. TrailExplainsRegister'
      <3>1. \A m \in Members : Explained(m)
        BY DEF Inductive, TrailExplainsRegister, Explained
      <3>2. \A m \in Members : Explained(m)'
        BY <2>1, <3>1, ExplainedStep
      <3>3. QED
        BY <3>2 DEF TrailExplainsRegister, Explained
    <2>5. (\A r \in Requests : Checked(requests[r]))'
      BY CheckedStep
    <2>6. ASSUME NEW a \in approvals'
          PROVE  Authorised(a.by, a.checkedAt)'
      <3>1. a \in Approval
        BY <2>2, <2>6 DEF TypeOK
      <3>2. Authorised(a.by, a.checkedAt)
        <4>1. CASE a \in approvals
          BY <4>1 DEF Inductive
        <4>2. ASSUME NEW r \in Requests, Approve(r),
                     a = [by |-> requests[r].manager,
                          checkedAt |-> requests[r].checkedAt]
              PROVE  Authorised(a.by, a.checkedAt)
          BY <2>1, <4>2 DEF Approve, Committing, Checked
        <4>3. QED
          BY <2>6, <4>1, <4>2 DEF Next, Step, AssignRead, RemoveRead,
             ApproveRead, Proceed, AssignCommit, RemoveCommit, Approve, Abort,
             AssignmentCreated, EngagementRemoved, vars
      <3>3. QED
        BY <2>1, <3>1, <3>2, AuthorisedStep DEF Approval
    <2>7. QED
      BY <2>2, <2>3, <2>4, <2>5, <2>6 DEF Inductive
  <1>3. QED
    BY <1>1, <1>2, PTL DEF Spec

\* The register, the trail, the approvals and the requests keep their types.
THEOREM RegisterTyped == Spec => []TypeOK
  <1>1. Inductive => TypeOK
    BY DEF Inductive
  <1>2. QED
    BY <1>1, InductiveHolds, PTL

\* Whichever stale rows its writers had read, a row is what its newest records
\* say: who granted the authority last, and who took it away since.
THEOREM RegisterExplained == Spec => []TrailExplainsRegister
  <1>1. Inductive => TrailExplainsRegister
    BY DEF Inductive
  <1>2. QED
    BY <1>1, InductiveHolds, PTL

\* Whoever approves had been granted authority, and not lost it, when the role
\* was looked up.
THEOREM ApproversHadAuthority == Spec => []ApprovalsHadAuthority
  <1>1. Inductive => ApprovalsHadAuthority
    BY DEF Inductive, ApprovalsHadAuthority, Authorised
  <1>2. QED
    BY <1>1, InductiveHolds, PTL

\* The row that names an approver outlives removals and the engagement's own
\* deletion.
THEOREM ApproversStay == Spec => []ApproversStayRegistered
  <1>1. Inductive => ApproversStayRegistered
    BY DEF Inductive, ApproversStayRegistered, Authorised
  <1>2. QED
    BY <1>1, InductiveHolds, PTL
=============================================================================
