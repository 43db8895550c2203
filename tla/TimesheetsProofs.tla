-------------------------- MODULE TimesheetsProofs --------------------------
(***************************************************************************)
(* Theorems about Timesheets, for any number of requests, dates, hours and *)
(* payments, in three parts.  The first is type correctness and the ids.   *)
(* The second is the safety of an entry: EntryStep lists the effects a     *)
(* step can have on ONE entry, and a property of an entry and its trail    *)
(* need only survive each.  The third is the ledger: Timesheets implements *)
(* PaymentLedger, records every deletion once and keeps a trail that       *)
(* accounts for every row.                                                 *)
(***************************************************************************)
EXTENDS TimesheetLedger, TLAPS

-----------------------------------------------------------------------------
(* The data the handlers pass around *)

\* A request body names work dates and gives a claim for each.
LEMMA PayloadType ==
    ASSUME NEW p \in Payload
    PROVE  /\ DOMAIN p \in SUBSET Dates
           /\ \A d \in DOMAIN p : p[d] \in Claim
  BY DEF Payload

\* A handler has read entries, and a status and a value of each.
LEMMA SnapshotType ==
    ASSUME NEW s \in Snapshot
    PROVE  /\ DOMAIN s \in SUBSET EntryIds
           /\ \A id \in DOMAIN s : s[id] \in Seen
  BY DEF Snapshot

\* Handlers that send or read nothing.
LEMMA EmptyType == Empty \in Payload /\ Empty \in Snapshot
  <1>1. Empty \in [{} -> Claim] /\ Empty \in [{} -> Seen]
    BY DEF Empty
  <1>2. QED
    BY <1>1 DEF Payload, Snapshot

\* The ids an entry can have are those of its work date.
LEMMA EntryIdType ==
    ASSUME NEW id \in EntryIds
    PROVE  DateOf(id) \in Dates /\ id[2] \in 1 .. MaxIncarnation
  BY DEF EntryIds, DateOf

\* The bound on incarnations is a number.
LEMMA BoundType == MaxIncarnation \in Nat
  BY ConstantsAssumption

\* What is written for a claim is a stored value, and a new row is a draft.
LEMMA StoredType ==
    ASSUME NEW claim \in Claim
    PROVE  Stored(claim) \in Value /\ Draft(claim) \in Row
  <1>1. Stored(claim) \in Value
    BY DEF Stored, Value, Claim, StoredHours
  <1>2. QED
    BY <1>1 DEF Draft, Row, Status

\* Reading rows gives a snapshot of them.
LEMMA LoadType ==
    ASSUME TypeOK, NEW ids \in SUBSET EntryIds
    PROVE  Load(ids) \in Snapshot /\ DOMAIN Load(ids) = ids
  <1>1. Load(ids) \in [ids -> Seen]
    BY DEF Load, Seen, TypeOK, Row
  <1>2. QED
    BY <1>1 DEF Snapshot

\* Writing records keeps the audit table a table of records.
LEMMA RecordedType ==
    ASSUME TypeOK, NEW ids \in SUBSET EntryIds,
           NEW records \in [ids -> AuditRecord]
    PROVE  Recorded(records) \in [EntryIds -> Seq(AuditRecord)]
  BY DEF Recorded, TypeOK

\* A finished request is a request.
LEMMA FinishType ==
    ASSUME TypeOK, NEW r \in Requests, Finish(r)
    PROVE  requests' \in [Requests -> Request]
  <1>1. [Idle("done") EXCEPT !.at = requests[r].at] \in Request
    <2>1. requests[r].at \in Instants \union {None}
      BY DEF TypeOK, Request
    <2>2. QED
      BY <2>1, EmptyType DEF Idle, Request
  <1>2. QED
    BY <1>1 DEF Finish, TypeOK

\* A request that finishes is done, has read nothing, holds nothing and keeps
\* its clock reading; the others are as they were.
LEMMA FinishEffect ==
    ASSUME TypeOK, NEW r \in Requests, Finish(r)
    PROVE  /\ \A x \in Requests \ {r} : requests'[x] = requests[x]
           /\ requests'[r].phase = "done" /\ requests'[r].op = None
           /\ requests'[r].seen = Empty /\ DOMAIN Empty = {}
           /\ requests'[r].at = requests[r].at
           /\ requests'[r].taken = {} /\ requests'[r].echoes = {}
  <1>1. requests'[r] = [Idle("done") EXCEPT !.at = requests[r].at]
    BY DEF Finish, TypeOK
  <1>2. QED
    BY <1>1 DEF Finish, TypeOK, Idle, Empty

\* The two steps of an approval before its commit change its own request, and
\* of that the phase and what it has taken or found.
Advances(r) ==
    LET q == requests[r]
        p == requests'[r]
    IN  /\ requests' \in [Requests -> Request]
        /\ \A x \in Requests \ {r} : requests'[x] = requests[x]
        /\ p.op = q.op /\ p.payload = q.payload /\ p.seen = q.seen
        /\ p.at = q.at /\ p.payment = q.payment
        /\ q.phase \in {"read", "find"} /\ p.phase \in {"find", "record"}
        /\ UNCHANGED <<live, incarnation, rows, audit, deletions, assigned>>

LEMMA UpdateStep ==
    ASSUME TypeOK, NEW r \in Requests, ApproveUpdate(r)
    PROVE  /\ Advances(r)
           /\ requests'[r].echoes = requests[r].echoes
           /\ requests'[r].taken = {id \in DOMAIN requests[r].seen \intersect live :
                                       Approvable(id)}
           /\ Unlocked(r, requests'[r].taken)
  <1> DEFINE taken == {id \in DOMAIN requests[r].seen \intersect live :
                          Approvable(id)}
             p == [requests[r] EXCEPT !.phase = "find", !.taken = taken]
  <1>1. taken \in SUBSET EntryIds
    BY DEF TypeOK
  <1>2. requests[r] \in Request /\ Unlocked(r, taken) /\ requests[r].phase = "read"
    BY DEF TypeOK, ApproveUpdate, Committing
  <1>3. requests' = [requests EXCEPT ![r] = p]
    BY <1>2 DEF ApproveUpdate, TypeOK
  <1> HIDE DEF taken
  <1>4. p \in Request /\ p.taken = taken /\ p.phase = "find"
        /\ p.echoes = requests[r].echoes
    BY <1>1, <1>2 DEF Request
  <1>5. /\ p.op = requests[r].op /\ p.payload = requests[r].payload
        /\ p.seen = requests[r].seen /\ p.at = requests[r].at
        /\ p.payment = requests[r].payment
    BY <1>2 DEF Request
  <1> HIDE DEF p
  <1>6. /\ requests' \in [Requests -> Request] /\ requests'[r] = p
        /\ \A x \in Requests \ {r} : requests'[x] = requests[x]
    BY <1>3, <1>4 DEF TypeOK
  <1>7. UNCHANGED <<live, incarnation, rows, audit, deletions, assigned>>
    BY DEF ApproveUpdate
  <1>8. QED
    BY <1>2, <1>4, <1>5, <1>6, <1>7 DEF Advances, taken

LEMMA FindStep ==
    ASSUME TypeOK, NEW r \in Requests, ApproveFind(r)
    PROVE  /\ Advances(r)
           /\ requests[r].phase = "find"
           /\ requests'[r].taken = requests[r].taken
           /\ requests'[r].echoes =
                 {id \in (DOMAIN requests[r].seen \intersect live)
                             \ requests[r].taken :
                     /\ rows[id].status = "APPROVED"
                     /\ rows[id].approvedAt = requests[r].at}
  <1> DEFINE echoes == {id \in (DOMAIN requests[r].seen \intersect live)
                                    \ requests[r].taken :
                           /\ rows[id].status = "APPROVED"
                           /\ rows[id].approvedAt = requests[r].at}
             p == [requests[r] EXCEPT !.phase = "record", !.echoes = echoes]
  <1>1. echoes \in SUBSET EntryIds
    BY DEF TypeOK
  <1>2. requests[r] \in Request /\ requests[r].phase = "find"
    BY DEF TypeOK, ApproveFind
  <1>3. requests' = [requests EXCEPT ![r] = p]
    BY <1>2 DEF ApproveFind, TypeOK
  <1> HIDE DEF echoes
  <1>4. p \in Request /\ p.echoes = echoes /\ p.phase = "record"
        /\ p.taken = requests[r].taken
    BY <1>1, <1>2 DEF Request
  <1>5. /\ p.op = requests[r].op /\ p.payload = requests[r].payload
        /\ p.seen = requests[r].seen /\ p.at = requests[r].at
        /\ p.payment = requests[r].payment
    BY <1>2 DEF Request
  <1> HIDE DEF p
  <1>6. /\ requests' \in [Requests -> Request] /\ requests'[r] = p
        /\ \A x \in Requests \ {r} : requests'[x] = requests[x]
    BY <1>3, <1>4 DEF TypeOK
  <1>7. UNCHANGED <<live, incarnation, rows, audit, deletions, assigned>>
    BY DEF ApproveFind
  <1>8. QED
    BY <1>2, <1>4, <1>5, <1>6, <1>7 DEF Advances, echoes

\* Request r has read the rows of ids, and nothing else has happened.
Holds(r, op, payload, ids, at, payment) ==
    LET q == requests'[r]
    IN  /\ requests' \in [Requests -> Request]
        /\ \A x \in Requests \ {r} : requests'[x] = requests[x]
        /\ UNCHANGED <<live, incarnation, rows, audit, deletions, assigned>>
        /\ q.op = op /\ q.payload = payload
        /\ q.at = at /\ q.payment = payment
        /\ requests[r].phase = "new" /\ q.phase = "read"
        /\ q.taken = {} /\ q.echoes = {}
        /\ DOMAIN q.seen = ids
        /\ \A id \in ids : /\ q.seen[id].status = rows[id].status
                           /\ q.seen[id].value = rows[id].value

\* What a request holds once it has proceeded.
LEMMA ProceedStep ==
    ASSUME TypeOK,
           NEW r \in Requests, NEW op \in Operation, NEW role \in ViewerRole,
           NEW reason \in BOOLEAN, NEW payload \in Payload,
           NEW ids \in SUBSET live, NEW at \in Instants \union {None},
           NEW payment \in Payments \union {None},
           Proceed(r, op, role, reason, payload, Load(ids), at, payment)
    PROVE  Holds(r, op, payload, ids, at, payment)
  <1>1. ids \in SUBSET EntryIds
    BY DEF TypeOK
  <1>2. Load(ids) \in Snapshot /\ DOMAIN Load(ids) = ids
    BY <1>1, LoadType
  <1>3. \A id \in ids : /\ Load(ids)[id].status = rows[id].status
                        /\ Load(ids)[id].value = rows[id].value
    BY DEF Load
  <1> DEFINE q == [phase |-> "read", op |-> op, role |-> role,
                   reason |-> reason, payload |-> payload, seen |-> Load(ids),
                   at |-> at, payment |-> payment, taken |-> {},
                   echoes |-> {}]
  <1>4. q \in Request
    BY <1>2 DEF Request
  <1>5. requests' = [requests EXCEPT ![r] = q]
    BY DEF Proceed
  <1>6. requests'[r] = q
    BY <1>5 DEF TypeOK
  <1>7. QED
    BY <1>2, <1>3, <1>4, <1>5, <1>6 DEF Proceed, TypeOK, Holds

-----------------------------------------------------------------------------
(* Type correctness *)

LEMMA InitTypeOK == Init => TypeOK
  <1> SUFFICES ASSUME Init PROVE TypeOK
    OBVIOUS
  <1>1. (CHOOSE claim \in Claim : TRUE) \in Claim
    <2>1. PICK h : h \in Hours
      BY ConstantsAssumption
    <2>2. PICK w : w \in Remarks
      BY ConstantsAssumption
    <2>3. [hours |-> h, remarks |-> w] \in Claim
      BY <2>1, <2>2 DEF Claim
    <2>4. QED
      BY <2>3
  <1>2. rows \in [EntryIds -> Row]
    BY <1>1, StoredType DEF Init
  <1>3. requests \in [Requests -> Request]
    BY EmptyType DEF Init, Idle, Request
  <1>4. incarnation \in [Dates -> 0 .. MaxIncarnation]
    BY ConstantsAssumption DEF Init
  <1>5. QED
    BY <1>2, <1>3, <1>4 DEF Init, TypeOK

\* Whoever gives a reason gives it or does not.
LEMMA ReasonType == \A role \in ViewerRole : Reasons(role) \subseteq BOOLEAN
  BY DEF Reasons

\* What the six reads have in common: the request holds rows of the table as
\* they are, and what its guards established about them.
LEMMA ReadStep ==
    ASSUME TypeOK, NEW r \in Requests, Read(r)
    PROVE  LET q == requests'[r]
           IN  /\ requests' \in [Requests -> Request]
               /\ \A x \in Requests \ {r} : requests'[x] = requests[x]
               /\ requests[r].phase = "new" /\ q.phase = "read"
               /\ q.taken = {} /\ q.echoes = {}
               /\ UNCHANGED <<live, incarnation, rows, audit, deletions,
                              assigned>>
               /\ DOMAIN q.seen \in SUBSET live
               /\ \A id \in DOMAIN q.seen :
                     /\ q.seen[id].status = rows[id].status
                     /\ q.seen[id].value = rows[id].value
               /\ q.op = "upsert" =>
                     \A id \in DOMAIN q.seen : DateOf(id) \in DOMAIN q.payload
               /\ q.op = "approve" => q.at \in Instants
               /\ q.op = "linkPayment" => q.payment \in Payments
               /\ q.op \in {"reopen", "linkPayment"} =>
                     \A id \in DOMAIN q.seen : q.seen[id].status = "APPROVED"
  <1>1. CASE UpsertRead(r)
    <2>1. PICK role \in ViewerRole, reason \in BOOLEAN, payload \in Payload :
             Proceed(r, "upsert", role, reason, payload,
                     Load({id \in live : DateOf(id) \in DOMAIN payload}),
                     None, None)
      BY <1>1, ReasonType DEF UpsertRead
    <2> DEFINE ids == {id \in live : DateOf(id) \in DOMAIN payload}
    <2>2. /\ ids \in SUBSET live
          /\ \A id \in ids : DateOf(id) \in DOMAIN payload
      OBVIOUS
    <2>3. Holds(r, "upsert", payload, ids, None, None)
      BY <2>1, ProceedStep DEF Operation
    <2> HIDE DEF ids
    <2>4. QED
      BY <2>2, <2>3 DEF Holds
  <1>2. CASE SubmitRead(r)
    <2>1. PICK role \in ViewerRole, reason \in BOOLEAN, ids \in Selection :
             /\ Proceed(r, "submit", role, reason, Empty, Load(ids), None, None)
      BY <1>2, ReasonType DEF SubmitRead
    <2>2. ids \in SUBSET live
      BY DEF Selection
    <2>3. Holds(r, "submit", Empty, ids, None, None)
      BY <2>1, <2>2, EmptyType, ProceedStep DEF Operation
    <2>4. QED
      BY <2>1, <2>2, <2>3 DEF Holds
  <1>3. CASE DeleteRead(r)
    <2>1. PICK role \in ViewerRole, ids \in Selection :
             /\ Proceed(r, "delete", role, FALSE, Empty, Load(ids), None, None)
      BY <1>3 DEF DeleteRead
    <2>2. ids \in SUBSET live
      BY DEF Selection
    <2>3. Holds(r, "delete", Empty, ids, None, None)
      BY <2>1, <2>2, EmptyType, ProceedStep DEF Operation
    <2>4. QED
      BY <2>1, <2>2, <2>3 DEF Holds
  <1>4. CASE ApproveRead(r)
    <2>1. PICK role \in ViewerRole, reason \in BOOLEAN, ids \in Selection,
               at \in Instants :
             /\ Proceed(r, "approve", role, reason, Empty, Load(ids), at, None)
      BY <1>4, ReasonType DEF ApproveRead
    <2>2. ids \in SUBSET live
      BY DEF Selection
    <2>3. Holds(r, "approve", Empty, ids, at, None)
      BY <2>1, <2>2, EmptyType, ProceedStep DEF Operation
    <2>4. QED
      BY <2>1, <2>2, <2>3 DEF Holds
  <1>5. CASE ReopenRead(r)
    <2>1. PICK role \in ViewerRole, ids \in Selection :
             /\ Proceed(r, "reopen", role, TRUE, Empty, Load(ids), None, None)
             /\ \A id \in ids : rows[id].status = "APPROVED"
      BY <1>5 DEF ReopenRead
    <2>2. ids \in SUBSET live
      BY DEF Selection
    <2>3. Holds(r, "reopen", Empty, ids, None, None)
      BY <2>1, <2>2, EmptyType, ProceedStep DEF Operation
    <2>4. \A id \in DOMAIN requests'[r].seen :
             requests'[r].seen[id].status = "APPROVED"
      <3>1. \A id \in ids : requests'[r].seen[id].status = rows[id].status
        BY <2>3 DEF Holds
      <3>2. DOMAIN requests'[r].seen = ids
        BY <2>3 DEF Holds
      <3>3. QED
        BY <2>1, <3>1, <3>2
    <2>5. DOMAIN requests'[r].seen \in SUBSET live
      BY <2>2, <2>3 DEF Holds
    <2>6. QED
      BY <2>3, <2>4, <2>5 DEF Holds
  <1>6. CASE LinkPaymentRead(r)
    <2>1. PICK role \in ViewerRole, ids \in Selection,
               payment \in Payments :
             /\ Proceed(r, "linkPayment", role, FALSE, Empty, Load(ids), None,
                        payment)
             /\ \A id \in ids : rows[id].status = "APPROVED"
      BY <1>6 DEF LinkPaymentRead, Payable
    <2>2. ids \in SUBSET live
      BY DEF Selection
    <2>3. Holds(r, "linkPayment", Empty, ids, None, payment)
      BY <2>1, <2>2, EmptyType, ProceedStep DEF Operation
    <2>4. \A id \in DOMAIN requests'[r].seen :
             requests'[r].seen[id].status = "APPROVED"
      <3>1. \A id \in ids : requests'[r].seen[id].status = rows[id].status
        BY <2>3 DEF Holds
      <3>2. DOMAIN requests'[r].seen = ids
        BY <2>3 DEF Holds
      <3>3. QED
        BY <2>1, <3>1, <3>2
    <2>5. DOMAIN requests'[r].seen \in SUBSET live
      BY <2>2, <2>3 DEF Holds
    <2>6. QED
      BY <2>3, <2>4, <2>5 DEF Holds
  <1>7. QED
    BY <1>1, <1>2, <1>3, <1>4, <1>5, <1>6 DEF Read

\* The first half of any handler keeps the foundation.
LEMMA ReadFoundation ==
    ASSUME Foundation, NEW r \in Requests, Read(r)
    PROVE  Foundation'
  <1> USE DEF Foundation
  <1>1. TypeOK'
    BY ReadStep DEF TypeOK
  <1>2. IdsAreFresh'
    BY ReadStep DEF IdsAreFresh, Issued
  <1>3. ASSUME NEW x \in Requests
        PROVE  Checked(requests[x])'
    <2>1. CASE x = r
      <3>1. \A id \in DOMAIN requests'[r].seen : Issued(id)'
        BY ReadStep DEF IdsAreFresh, Issued
      <3>2. /\ requests'[r].op = "upsert" =>
                  \A id \in DOMAIN requests'[r].seen :
                     DateOf(id) \in DOMAIN requests'[r].payload
            /\ requests'[r].op = "approve" => requests'[r].at \in Instants
            /\ requests'[r].op = "linkPayment" =>
                  requests'[r].payment \in Payments
            /\ requests'[r].op \in {"reopen", "linkPayment"} =>
                  \A id \in DOMAIN requests'[r].seen :
                     requests'[r].seen[id].status = "APPROVED"
        BY ReadStep
      <3>3. requests'[r].phase \notin {"find", "record"}
        BY ReadStep
      <3>4. QED
        BY <2>1, <3>1, <3>2, <3>3 DEF Checked
    <2>2. CASE x # r
      BY <2>2, ReadStep DEF RequestsAreChecked, Checked, Issued
    <2>3. QED
      BY <2>1, <2>2
  <1>4. TakenIsHeld'
    BY ReadStep DEF TakenIsHeld, Unlocked
  <1>5. QED
    BY <1>1, <1>2, <1>3, <1>4 DEF RequestsAreChecked

\* A step that ends a request and hands out no id twice keeps what the other
\* requests hold.
LEMMA FinishChecked ==
    ASSUME Foundation, NEW r \in Requests, Finish(r),
           \A id \in EntryIds : Issued(id) => Issued(id)'
    PROVE  RequestsAreChecked'
  <1> SUFFICES ASSUME NEW x \in Requests
               PROVE  Checked(requests[x])'
    BY DEF RequestsAreChecked
  <1>1. CASE x # r
    <2>1. requests'[x] = requests[x]
      BY <1>1 DEF Finish, Foundation, TypeOK
    <2>2. requests[x].seen \in Snapshot
      BY DEF Foundation, TypeOK, Request
    <2>3. DOMAIN requests[x].seen \in SUBSET EntryIds
      BY <2>2, SnapshotType
    <2>4. QED
      BY <2>1, <2>3 DEF Foundation, RequestsAreChecked, Checked
  <1>2. CASE x = r
    <2>2. /\ requests'[x].op = None /\ requests'[x].seen = Empty
          /\ requests'[x].phase = "done"
      BY <1>2, FinishEffect DEF Foundation
    <2>3. DOMAIN Empty = {}
      BY DEF Empty
    <2>4. None \notin {"upsert", "approve", "reopen", "linkPayment"}
      BY NoneAssumption DEF Operation
    <2>5. QED
      BY <2>2, <2>3, <2>4 DEF Checked
  <1>3. QED
    BY <1>1, <1>2

\* A step that ends a request and leaves alone the rows that others have taken
\* keeps those rows theirs.
LEMMA FinishHeld ==
    ASSUME Foundation, NEW r \in Requests, Finish(r),
           \A s \in Requests \ {r} : \A id \in requests[s].taken :
               id \in live' /\ rows'[id] = rows[id]
    PROVE  TakenIsHeld'
  <1>1. \A s \in Requests \ {r} : requests'[s].taken = requests[s].taken
    BY FinishEffect DEF Foundation
  <1>2. requests'[r].taken = {}
    BY FinishEffect DEF Foundation
  <1>3. ASSUME NEW s \in Requests, NEW id \in requests'[s].taken
        PROVE  id \in live' /\ rows'[id].status = "SUBMITTED"
    <2>1. s \in Requests \ {r} /\ id \in requests[s].taken
      BY <1>1, <1>2, <1>3
    <2>2. QED
      BY <2>1 DEF Foundation, TakenIsHeld
  <1>4. ASSUME NEW s \in Requests, NEW x \in Requests \ {s}
        PROVE  requests'[x].taken \intersect requests'[s].taken = {}
    BY <1>1, <1>2 DEF Foundation, TakenIsHeld, Unlocked
  <1>5. QED
    BY <1>3, <1>4 DEF TakenIsHeld, Unlocked

-----------------------------------------------------------------------------
(* The second half of each handler keeps the foundation *)

\* Old ids stay issued, and records for old and new ids are records.
LEMMA AuditType ==
    ASSUME NEW action \in AuditAction, NEW actor \in Requests,
           NEW from \in Status \union {None}, NEW to \in Status \union {None},
           NEW hours \in StoredHours \union {None},
           NEW payment \in Payments \union {None}
    PROVE  Audit(action, actor, from, to, hours, payment) \in AuditRecord
  BY DEF Audit, AuditRecord

\* The request whose transaction commits, as the foundation types it.
LEMMA CommittingType ==
    ASSUME Foundation, NEW r \in Requests
    PROVE  LET q == requests[r]
           IN  /\ q \in Request
               /\ DOMAIN q.seen \in SUBSET EntryIds
               /\ \A id \in DOMAIN q.seen : /\ q.seen[id].status \in Status
                                             /\ q.seen[id].value \in Value
               /\ DOMAIN q.payload \in SUBSET Dates
               /\ \A d \in DOMAIN q.payload : q.payload[d] \in Claim
               /\ Checked(q)
  <1>1. requests[r] \in Request /\ Checked(requests[r])
    BY DEF Foundation, TypeOK, RequestsAreChecked
  <1>2. requests[r].seen \in Snapshot /\ requests[r].payload \in Payload
    BY <1>1 DEF Request
  <1>3. \A id \in DOMAIN requests[r].seen : requests[r].seen[id] \in Seen
    BY <1>2, SnapshotType
  <1>4. QED
    BY <1>1, <1>2, <1>3, SnapshotType, PayloadType DEF Seen

\* A transaction that rewrites rows of live entries, and records something of
\* live entries, keeps the foundation.
LEMMA RewritingFoundation ==
    ASSUME Foundation, NEW r \in Requests, Finish(r),
           UNCHANGED <<live, incarnation, deletions, assigned>>,
           NEW ids \in SUBSET EntryIds, ids \subseteq live,
           NEW records \in [ids -> AuditRecord], audit' = Recorded(records),
           rows' \in [EntryIds -> Row],
           NEW written \in SUBSET live, Unlocked(r, written),
           \A id \in EntryIds \ written : rows'[id] = rows[id]
    PROVE  Foundation'
  <1>1. audit' \in [EntryIds -> Seq(AuditRecord)]
    BY RecordedType DEF Foundation
  <1>2. TypeOK'
    BY <1>1, FinishType DEF Foundation, TypeOK
  <1>3. DOMAIN records = ids
    OBVIOUS
  <1>4. \A id \in EntryIds \ live : audit'[id] = audit[id]
    BY <1>3 DEF Recorded
  <1>5. IdsAreFresh'
    BY <1>4 DEF Foundation, IdsAreFresh, Issued
  <1>6. TakenIsHeld'
    <2>1. ASSUME NEW s \in Requests \ {r}, NEW id \in requests[s].taken
          PROVE  id \in live' /\ rows'[id] = rows[id]
      <3>1. id \in live /\ id \in EntryIds
        BY DEF Foundation, TypeOK, TakenIsHeld
      <3>2. id \notin written
        BY DEF Unlocked
      <3>3. QED
        BY <3>1, <3>2
    <2>2. QED
      BY <2>1, FinishHeld
  <1>7. QED
    BY <1>2, <1>5, <1>6, FinishChecked DEF Foundation, Issued

LEMMA SubmitFoundation ==
    ASSUME Foundation, NEW r \in Requests, SubmitCommit(r)
    PROVE  Foundation'
  <1> DEFINE q == requests[r]
             ids == DOMAIN q.seen
             records == [id \in ids |->
                           Audit("SUBMITTED", r, q.seen[id].status, "SUBMITTED",
                                 rows[id].value.hours, None)]
  <1>1. /\ ids \in SUBSET EntryIds /\ ids \subseteq live
        /\ audit' = Recorded(records)
        /\ Finish(r) /\ Unlocked(r, ids)
        /\ UNCHANGED <<live, incarnation, deletions, assigned>>
    BY CommittingType DEF SubmitCommit
  <1>2. rows' = [id \in EntryIds |->
                    IF id \in ids
                    THEN [rows[id] EXCEPT !.status = "SUBMITTED",
                                          !.submittedBy = r]
                    ELSE rows[id]]
    BY DEF SubmitCommit
  <1>3. rows' \in [EntryIds -> Row]
    <2>1. ASSUME NEW id \in EntryIds
          PROVE  [rows[id] EXCEPT !.status = "SUBMITTED",
                                  !.submittedBy = r] \in Row
      <3>1. rows[id] \in Row
        BY DEF Foundation, TypeOK
      <3>2. QED
        BY <3>1 DEF Row, Status
    <2>2. \A id \in EntryIds : rows[id] \in Row
      BY DEF Foundation, TypeOK
    <2>3. QED
      BY <1>2, <2>1, <2>2
  <1>4. records \in [ids -> AuditRecord]
    <2>1. ASSUME NEW id \in ids
          PROVE  records[id] \in AuditRecord
      <3>1. rows[id].value.hours \in StoredHours
        BY <1>1 DEF Foundation, TypeOK, Row, Value
      <3>2. QED
        BY <3>1, CommittingType, AuditType DEF AuditAction, Status
    <2>2. QED
      BY <2>1
  <1> HIDE DEF records
  <1>5. QED
    BY <1>1, <1>2, <1>3, <1>4, RewritingFoundation

LEMMA ReopenFoundation ==
    ASSUME Foundation, NEW r \in Requests, ReopenCommit(r)
    PROVE  Foundation'
  <1> DEFINE q == requests[r]
             ids == DOMAIN q.seen
             records == [id \in ids |->
                           Audit("REOPENED", r, q.seen[id].status, "DRAFT",
                                 rows[id].value.hours, None)]
  <1>1. /\ ids \in SUBSET EntryIds /\ ids \subseteq live
        /\ audit' = Recorded(records)
        /\ Finish(r) /\ Unlocked(r, ids)
        /\ UNCHANGED <<live, incarnation, deletions, assigned>>
    BY CommittingType DEF ReopenCommit
  <1>2. rows' = [id \in EntryIds |->
                    IF id \in ids
                    THEN [rows[id] EXCEPT !.status = "DRAFT",
                                          !.reopened = TRUE,
                                          !.approvedBy = None,
                                          !.approvedAt = None]
                    ELSE rows[id]]
    BY DEF ReopenCommit
  <1>3. rows' \in [EntryIds -> Row]
    <2>1. ASSUME NEW id \in EntryIds
          PROVE  [rows[id] EXCEPT !.status = "DRAFT", !.reopened = TRUE,
                                  !.approvedBy = None,
                                  !.approvedAt = None] \in Row
      <3>1. rows[id] \in Row
        BY DEF Foundation, TypeOK
      <3>2. QED
        BY <3>1 DEF Row, Status
    <2>2. \A id \in EntryIds : rows[id] \in Row
      BY DEF Foundation, TypeOK
    <2>3. QED
      BY <1>2, <2>1, <2>2
  <1>4. records \in [ids -> AuditRecord]
    <2>1. ASSUME NEW id \in ids
          PROVE  records[id] \in AuditRecord
      <3>1. rows[id].value.hours \in StoredHours
        BY <1>1 DEF Foundation, TypeOK, Row, Value
      <3>2. QED
        BY <3>1, CommittingType, AuditType DEF AuditAction, Status
    <2>2. QED
      BY <2>1
  <1> HIDE DEF records
  <1>5. QED
    BY <1>1, <1>2, <1>3, <1>4, RewritingFoundation

LEMMA LinkPaymentFoundation ==
    ASSUME Foundation, NEW r \in Requests, LinkPaymentCommit(r)
    PROVE  Foundation'
  <1> DEFINE q == requests[r]
             ids == DOMAIN q.seen
             records == [id \in ids |->
                           Audit("PAYMENT_LINKED", r, None, None,
                                 q.seen[id].value.hours, q.payment)]
  <1>1. /\ ids \in SUBSET EntryIds /\ ids \subseteq live
        /\ audit' = Recorded(records)
        /\ Finish(r) /\ Unlocked(r, ids)
        /\ UNCHANGED <<live, incarnation, deletions, assigned>>
    BY CommittingType DEF LinkPaymentCommit, Linkable
  <1>2. rows' = [id \in EntryIds |->
                    IF id \in ids
                    THEN [rows[id] EXCEPT !.paid = q.payment]
                    ELSE rows[id]]
    BY DEF LinkPaymentCommit
  <1>3. q.payment \in Payments
    BY CommittingType DEF LinkPaymentCommit, Committing, Checked
  <1>4. rows' \in [EntryIds -> Row]
    <2>1. ASSUME NEW id \in EntryIds
          PROVE  [rows[id] EXCEPT !.paid = q.payment] \in Row
      <3>1. rows[id] \in Row
        BY DEF Foundation, TypeOK
      <3>2. QED
        BY <1>3, <3>1 DEF Row
    <2>2. \A id \in EntryIds : rows[id] \in Row
      BY DEF Foundation, TypeOK
    <2>3. QED
      BY <1>2, <2>1, <2>2
  <1>5. records \in [ids -> AuditRecord]
    <2>1. ASSUME NEW id \in ids
          PROVE  records[id] \in AuditRecord
      <3>1. q.seen[id].value.hours \in StoredHours
        BY CommittingType DEF Value
      <3>2. QED
        BY <1>3, <3>1, AuditType DEF AuditAction
    <2>2. QED
      BY <2>1
  <1> HIDE DEF records
  <1>6. QED
    BY <1>1, <1>2, <1>4, <1>5, RewritingFoundation

LEMMA ApproveFoundation ==
    ASSUME Foundation, NEW r \in Requests, ApproveCommit(r)
    PROVE  Foundation'
  <1> DEFINE q == requests[r]
             taken == q.taken
             approved == q.taken \union q.echoes
             records == [id \in approved |->
                           Audit("APPROVED", r, "SUBMITTED", "APPROVED", None,
                                 None)]
  <1>1. /\ q.phase = "record"
        /\ approved \subseteq live
        /\ audit' = Recorded(records)
        /\ Finish(r)
        /\ UNCHANGED <<live, incarnation, deletions, assigned>>
    BY DEF ApproveCommit
  <1>2. rows' = [id \in EntryIds |->
                    IF id \in taken
                    THEN [rows[id] EXCEPT !.status = "APPROVED",
                                          !.approvedBy = r,
                                          !.approvedAt = q.at]
                    ELSE rows[id]]
    BY DEF ApproveCommit
  <1>3. q.at \in Instants
    BY <1>1, CommittingType DEF Checked
  <1>4. rows' \in [EntryIds -> Row]
    <2>1. ASSUME NEW id \in EntryIds
          PROVE  [rows[id] EXCEPT !.status = "APPROVED", !.approvedBy = r,
                                  !.approvedAt = q.at] \in Row
      <3>1. rows[id] \in Row
        BY DEF Foundation, TypeOK
      <3>2. QED
        BY <1>3, <3>1 DEF Row, Status
    <2>2. \A id \in EntryIds : rows[id] \in Row
      BY DEF Foundation, TypeOK
    <2>3. QED
      BY <1>2, <2>1, <2>2
  <1>5. approved \in SUBSET EntryIds /\ taken \in SUBSET live
    BY <1>1 DEF Foundation, TypeOK
  <1>6. records \in [approved -> AuditRecord]
    BY AuditType DEF AuditAction, Status
  <1>7. \A id \in EntryIds \ taken : rows'[id] = rows[id]
    BY <1>2
  <1>8. Unlocked(r, taken)
    BY DEF Foundation, TakenIsHeld
  <1> HIDE DEF records, approved, taken
  <1>9. QED
    BY <1>1, <1>4, <1>5, <1>6, <1>7, <1>8, RewritingFoundation

LEMMA DeleteFoundation ==
    ASSUME Foundation, NEW r \in Requests, DeleteCommit(r)
    PROVE  Foundation'
  <1> DEFINE q == requests[r]
             ids == DOMAIN q.seen
  <1>1. /\ ids \in SUBSET EntryIds
        /\ \A id \in ids : Deletable(id)
        /\ live' = live \ ids
        /\ audit' = [id \in EntryIds |-> IF id \in ids THEN <<>> ELSE audit[id]]
        /\ deletions' = deletions \union
              {[entry |-> id, actor |-> r, value |-> q.seen[id].value]
                  : id \in ids}
        /\ Finish(r)
        /\ UNCHANGED <<incarnation, rows, assigned>>
    BY CommittingType DEF DeleteCommit
  <1>2. audit' \in [EntryIds -> Seq(AuditRecord)]
    <2>1. <<>> \in Seq(AuditRecord)
      OBVIOUS
    <2>2. QED
      BY <1>1, <2>1 DEF Foundation, TypeOK
  <1>3. deletions' \subseteq DeletionRecord
    <2>1. \A id \in ids : q.seen[id].value \in Value
      BY CommittingType
    <2>2. QED
      BY <1>1, <2>1 DEF Foundation, TypeOK, DeletionRecord
  <1>4. TypeOK'
    BY <1>1, <1>2, <1>3, FinishType DEF Foundation, TypeOK
  <1>5. IdsAreFresh'
    <2>1. \A id \in live' : Issued(id)'
      BY <1>1 DEF Foundation, IdsAreFresh, Issued
    <2>2. ASSUME NEW id \in EntryIds, id \notin live'
          PROVE  audit'[id] = <<>> /\ rows'[id].paid = None
      <3>1. CASE id \in ids
        BY <1>1, <3>1 DEF Deletable
      <3>2. CASE id \notin ids
        BY <1>1, <2>2, <3>2 DEF Foundation, IdsAreFresh
      <3>3. QED
        BY <3>1, <3>2
    <2>3. QED
      BY <2>1, <2>2 DEF IdsAreFresh
  <1>6. TakenIsHeld'
    <2>1. \A s \in Requests : \A id \in requests[s].taken : id \in live /\ id \notin ids
      BY <1>1 DEF Foundation, TakenIsHeld, Deletable
    <2>2. QED
      BY <1>1, <2>1, FinishHeld
  <1>7. QED
    BY <1>1, <1>4, <1>5, <1>6, FinishChecked DEF Foundation, Issued

\* The ids an upsert hands out have not been handed out before, so the entries
\* it creates are none of the entries it edits.
LEMMA NewIdsType ==
    ASSUME Foundation, NEW r \in Requests,
           \A d \in NewDates(requests[r]) : incarnation[d] < MaxIncarnation
    PROVE  LET q == requests[r]
           IN  /\ NewDates(q) \in SUBSET Dates
               /\ NewIds(q) \in SUBSET EntryIds
               /\ \A id \in NewIds(q) :
                     /\ DateOf(id) \in NewDates(q)
                     /\ id[2] = incarnation[DateOf(id)] + 1
                     /\ DateOf(id) \in DOMAIN q.payload
                     /\ ~Issued(id)
               /\ NewIds(q) \intersect live = {}
               /\ NewIds(q) \intersect DOMAIN q.seen = {}
  <1> DEFINE q == requests[r]
  <1>1. NewDates(q) \in SUBSET Dates /\ NewDates(q) \subseteq DOMAIN q.payload
    BY CommittingType DEF NewDates
  <1>2. ASSUME NEW d \in NewDates(q)
        PROVE  /\ <<d, incarnation[d] + 1>> \in EntryIds
               /\ ~Issued(<<d, incarnation[d] + 1>>)
    <2>1. d \in Dates /\ incarnation[d] \in 0 .. MaxIncarnation
      BY <1>1 DEF Foundation, TypeOK
    <2>2. incarnation[d] + 1 \in 1 .. MaxIncarnation
      <3>1. incarnation[d] < MaxIncarnation
        OBVIOUS
      <3>2. QED
        BY <2>1, <3>1, BoundType
    <2>3. ~(incarnation[d] + 1 <= incarnation[d])
      BY <2>1, BoundType
    <2>4. QED
      BY <2>1, <2>2, <2>3 DEF EntryIds, Issued, DateOf
  <1>3. NewIds(q) \in SUBSET EntryIds
    BY <1>2 DEF NewIds
  <1>4. \A id \in NewIds(q) : /\ DateOf(id) \in NewDates(q)
                              /\ id[2] = incarnation[DateOf(id)] + 1
                              /\ ~Issued(id)
    BY <1>2 DEF NewIds, DateOf
  <1>5. \A id \in live : Issued(id)
    BY DEF Foundation, IdsAreFresh
  <1>6. \A id \in DOMAIN q.seen : Issued(id)
    BY CommittingType DEF Checked
  <1>7. QED
    BY <1>1, <1>3, <1>4, <1>5, <1>6

\* An edited entry is a row.
LEMMA RewriteType ==
    ASSUME Foundation, NEW r \in Requests, NEW id \in EntryIds,
           DateOf(id) \in DOMAIN requests[r].payload
    PROVE  Rewrite(requests[r], id) \in Row
  <1> DEFINE claim == requests[r].payload[DateOf(id)]
             edited == [rows[id] EXCEPT !.value = Stored(claim)]
  <1>1. claim \in Claim
    BY CommittingType
  <1>2. Stored(claim) \in Value
    BY <1>1, StoredType
  <1> HIDE DEF claim
  <1>3. rows[id] \in Row
    BY DEF Foundation, TypeOK
  <1>4. edited \in Row
    BY <1>2, <1>3 DEF Row
  <1>5. [edited EXCEPT !.status = "DRAFT", !.submittedBy = None] \in Row
    BY <1>4 DEF Row, Status
  <1>6. QED
    BY <1>4, <1>5 DEF Rewrite, claim

LEMMA UpsertAuditType ==
    ASSUME Foundation, NEW r \in Requests, NEW id \in EntryIds,
           Committing(r, "upsert"),
           \A d \in NewDates(requests[r]) : incarnation[d] < MaxIncarnation,
           id \in NewIds(requests[r]) \/ id \in DOMAIN requests[r].seen
    PROVE  UpsertAudit(r, requests[r], id) \in AuditRecord
  <1> DEFINE q == requests[r]
             claim == q.payload[DateOf(id)]
  <1>1. CASE id \in NewIds(q)
    <2>1. claim \in Claim
      BY <1>1, CommittingType, NewIdsType
    <2>2. Column(claim.hours) \in StoredHours
      BY <2>1 DEF Claim, StoredHours
    <2>3. Audit("CREATED", r, None, "DRAFT", Column(claim.hours), None)
             \in AuditRecord
      BY <2>2, AuditType DEF AuditAction, Status
    <2>4. QED
      BY <1>1, <2>3 DEF UpsertAudit
  <1>2. CASE id \notin NewIds(q)
    <2>1. id \in DOMAIN q.seen
      BY <1>2
    <2>2. DateOf(id) \in DOMAIN q.payload /\ q.seen[id].status \in Status
      BY <2>1, CommittingType DEF Committing, Checked
    <2>3. Rewrite(q, id) \in Row
      BY <2>2, RewriteType
    <2>4. /\ Rewrite(q, id).status \in Status
          /\ Rewrite(q, id).value.hours \in StoredHours
      BY <2>3 DEF Row, Value
    <2>5. EditAction(q, id) \in AuditAction
      BY DEF EditAction, AuditAction
    <2>6. Audit(EditAction(q, id), r, q.seen[id].status,
                Rewrite(q, id).status, Rewrite(q, id).value.hours, None)
             \in AuditRecord
      BY <2>2, <2>4, <2>5, AuditType
    <2>7. QED
      BY <1>2, <2>6 DEF UpsertAudit
  <1>3. QED
    BY <1>1, <1>2

LEMMA UpsertFoundation ==
    ASSUME Foundation, NEW r \in Requests, UpsertCommit(r)
    PROVE  Foundation'
  <1> DEFINE q == requests[r]
             new == NewIds(q)
             edited == Edited(q.payload, q.seen)
             records == [id \in new \union edited |-> UpsertAudit(r, q, id)]
  <1>1. /\ Committing(r, "upsert")
        /\ \A d \in NewDates(q) : incarnation[d] < MaxIncarnation
        /\ edited \subseteq live /\ Unlocked(r, edited)
        /\ live' = live \union new
        /\ audit' = Recorded(records)
        /\ Finish(r)
        /\ UNCHANGED <<deletions, assigned>>
    BY DEF UpsertCommit
  <1>2. incarnation' = [d \in Dates |-> IF d \in NewDates(q)
                                        THEN incarnation[d] + 1
                                        ELSE incarnation[d]]
    BY DEF UpsertCommit
  <1>3. rows' = [id \in EntryIds |->
                    CASE id \in new -> Draft(q.payload[DateOf(id)])
                      [] id \in edited -> Rewrite(q, id)
                      [] OTHER -> rows[id]]
    BY DEF UpsertCommit
  <1>4. /\ new \in SUBSET EntryIds
        /\ \A id \in new : /\ DateOf(id) \in NewDates(q)
                           /\ id[2] = incarnation[DateOf(id)] + 1
                           /\ DateOf(id) \in DOMAIN q.payload
    BY <1>1, NewIdsType
  <1>5. /\ edited \subseteq DOMAIN q.seen
        /\ edited \in SUBSET EntryIds
        /\ \A id \in edited : DateOf(id) \in DOMAIN q.payload
    BY <1>1, CommittingType DEF Edited, Committing, Checked
  <1>6. records \in [new \union edited -> AuditRecord]
    BY <1>1, <1>4, <1>5, UpsertAuditType
  <1>7. \A id \in EntryIds \ (new \union edited) :
           audit'[id] = audit[id] /\ rows'[id] = rows[id]
    BY <1>1, <1>3 DEF Recorded
  <1> HIDE DEF records
  <1>8. audit' \in [EntryIds -> Seq(AuditRecord)]
    <2>1. new \union edited \in SUBSET EntryIds
      BY <1>4, <1>5
    <2>2. QED
      BY <1>1, <1>6, <2>1, RecordedType DEF Foundation
  <1>9. rows' \in [EntryIds -> Row]
    <2>1. \A id \in new : Draft(q.payload[DateOf(id)]) \in Row
      BY <1>4, CommittingType, StoredType
    <2>2. \A id \in edited : Rewrite(q, id) \in Row
      BY <1>5, RewriteType
    <2>3. \A id \in EntryIds : rows[id] \in Row
      BY DEF Foundation, TypeOK
    <2> HIDE DEF q, new, edited
    <2>4. QED
      BY <1>3, <2>1, <2>2, <2>3
  <1>10. incarnation' \in [Dates -> 0 .. MaxIncarnation]
    <2>1. ASSUME NEW d \in Dates
          PROVE  incarnation'[d] \in 0 .. MaxIncarnation
      <3>1. incarnation[d] \in 0 .. MaxIncarnation
        BY DEF Foundation, TypeOK
      <3>2. CASE d \in NewDates(q)
        <4>1. incarnation'[d] = incarnation[d] + 1
          BY <1>2, <3>2
        <4>2. incarnation[d] < MaxIncarnation
          BY <1>1, <3>2
        <4>3. QED
          BY <3>1, <4>1, <4>2, BoundType
      <3>3. CASE d \notin NewDates(q)
        BY <1>2, <3>1, <3>3
      <3>4. QED
        BY <3>2, <3>3
    <2>2. QED
      BY <1>2, <2>1
  <1>11. TypeOK'
    BY <1>1, <1>4, <1>8, <1>9, <1>10, FinishType DEF Foundation, TypeOK
  <1>12. \A id \in EntryIds : Issued(id) => Issued(id)'
    <2>1. ASSUME NEW id \in EntryIds, Issued(id)
          PROVE  Issued(id)'
      <3>1. DateOf(id) \in Dates /\ id[2] \in 1 .. MaxIncarnation
        BY EntryIdType
      <3>2. incarnation[DateOf(id)] \in 0 .. MaxIncarnation
        BY <3>1 DEF Foundation, TypeOK
      <3>3. \/ incarnation'[DateOf(id)] = incarnation[DateOf(id)]
            \/ incarnation'[DateOf(id)] = incarnation[DateOf(id)] + 1
        BY <1>2, <3>1
      <3>4. id[2] <= incarnation[DateOf(id)]
        BY <2>1 DEF Issued
      <3>5. id[2] <= incarnation'[DateOf(id)]
        BY <3>1, <3>2, <3>3, <3>4, BoundType
      <3>6. QED
        BY <3>5 DEF Issued, DateOf
    <2>2. QED
      BY <2>1
  <1>13. IdsAreFresh'
    <2>1. \A id \in new : Issued(id)'
      BY <1>2, <1>4, EntryIdType DEF Issued
    <2>2. \A id \in live : Issued(id)'
      BY <1>12 DEF Foundation, TypeOK, IdsAreFresh
    <2>3. \A id \in EntryIds \ live' : audit'[id] = <<>> /\ rows'[id].paid = None
      BY <1>1, <1>7 DEF Foundation, IdsAreFresh
    <2>4. QED
      BY <1>1, <2>1, <2>2, <2>3 DEF IdsAreFresh
  <1>14. TakenIsHeld'
    <2>1. \A id \in new : id \notin live
      BY <1>1, NewIdsType DEF Foundation, IdsAreFresh
    <2>2. ASSUME NEW s \in Requests \ {r}, NEW id \in requests[s].taken
          PROVE  id \in live' /\ rows'[id] = rows[id]
      <3>1. id \in live /\ id \in EntryIds
        BY DEF Foundation, TypeOK, TakenIsHeld
      <3>2. id \notin edited
        BY <1>1 DEF Unlocked
      <3>3. QED
        BY <1>1, <1>7, <2>1, <3>1, <3>2
    <2>3. QED
      BY <1>1, <2>2, FinishHeld
  <1>15. QED
    BY <1>1, <1>11, <1>12, <1>13, <1>14, FinishChecked DEF Foundation

LEMMA AbortFoundation ==
    ASSUME Foundation, NEW r \in Requests, Abort(r)
    PROVE  Foundation'
  <1>1. Finish(r) /\ UNCHANGED <<live, incarnation, rows, audit, deletions, assigned>>
    BY DEF Abort
  <1>2. TypeOK'
    BY <1>1, FinishType DEF Foundation, TypeOK
  <1>3. TakenIsHeld'
    BY <1>1, FinishHeld DEF Foundation, TakenIsHeld
  <1>4. QED
    BY <1>1, <1>2, <1>3, FinishChecked DEF Foundation, IdsAreFresh, Issued

LEMMA ApprovingFoundation ==
    ASSUME Foundation, NEW r \in Requests, Approving(r)
    PROVE  Foundation'
  <1>1. Advances(r)
    BY UpdateStep, FindStep DEF Approving, Foundation
  <1>2. TypeOK' /\ IdsAreFresh'
    BY <1>1 DEF Advances, Foundation, TypeOK, IdsAreFresh, Issued
  <1>3. requests[r].op = "approve"
    BY DEF Approving, ApproveUpdate, ApproveFind, Committing, Foundation,
           RequestsAreChecked, Checked
  <1>4. RequestsAreChecked'
    <2> SUFFICES ASSUME NEW x \in Requests
                 PROVE  Checked(requests[x])'
      BY DEF RequestsAreChecked
    <2>1. Checked(requests[x])
      BY DEF Foundation, RequestsAreChecked
    <2>2. CASE x = r
      BY <1>1, <1>3, <2>1, <2>2 DEF Advances, Checked, Issued
    <2>3. CASE x # r
      BY <1>1, <2>1, <2>3 DEF Advances, Checked, Issued
    <2>4. QED
      BY <2>2, <2>3
  <1>5. /\ requests'[r].taken \subseteq live
        /\ \A id \in requests'[r].taken : rows[id].status = "SUBMITTED"
        /\ Unlocked(r, requests'[r].taken)
    <2>1. CASE ApproveUpdate(r)
      BY <2>1, UpdateStep DEF Foundation, Approvable
    <2>2. CASE ApproveFind(r)
      <3>1. requests'[r].taken = requests[r].taken
        BY <2>2, FindStep DEF Foundation
      <3>2. QED
        BY <3>1 DEF Foundation, TakenIsHeld
    <2>3. QED
      BY <2>1, <2>2 DEF Approving
  <1>6. TakenIsHeld'
    <2>1. /\ \A x \in Requests \ {r} : requests'[x].taken = requests[x].taken
          /\ live' = live /\ rows' = rows
      BY <1>1 DEF Advances
    <2>2. ASSUME NEW x \in Requests, NEW id \in requests'[x].taken
          PROVE  id \in live /\ rows[id].status = "SUBMITTED"
      BY <1>5, <2>1 DEF Foundation, TakenIsHeld
    <2>3. ASSUME NEW x \in Requests, NEW y \in Requests \ {x}
          PROVE  requests'[y].taken \intersect requests'[x].taken = {}
      BY <1>5, <2>1 DEF Foundation, TakenIsHeld, Unlocked
    <2>4. QED
      BY <2>1, <2>2, <2>3 DEF TakenIsHeld, Unlocked
  <1>7. QED
    BY <1>2, <1>4, <1>6 DEF Foundation

\* The foundation is inductive.
LEMMA FoundationStep == Foundation /\ [Next]_vars => Foundation'
  <1> SUFFICES ASSUME Foundation, [Next]_vars PROVE Foundation'
    OBVIOUS
  <1>1. ASSUME NEW r \in Requests, Read(r) PROVE Foundation'
    BY <1>1, ReadFoundation
  <1>2. ASSUME NEW r \in Requests, Commit(r) PROVE Foundation'
    BY <1>2, UpsertFoundation, SubmitFoundation, DeleteFoundation,
       ApproveFoundation, ReopenFoundation, LinkPaymentFoundation DEF Commit
  <1>3. ASSUME NEW r \in Requests, Abort(r) PROVE Foundation'
    BY <1>3, AbortFoundation
  <1>4. CASE AssignmentStatusChange
    BY <1>4 DEF AssignmentStatusChange, Foundation, TypeOK, IdsAreFresh,
                Issued, RequestsAreChecked, Checked, TakenIsHeld, Unlocked
  <1>5. CASE UNCHANGED vars
    BY <1>5 DEF vars, Foundation, TypeOK, IdsAreFresh, Issued,
                RequestsAreChecked, Checked, TakenIsHeld, Unlocked
  <1>6. ASSUME NEW r \in Requests, Approving(r) PROVE Foundation'
    BY <1>6, ApprovingFoundation
  <1>7. QED
    BY <1>1, <1>2, <1>3, <1>4, <1>5, <1>6 DEF Next

\* Every reachable state is well typed, hands out no id twice, and no request
\* holds anything its guards did not let through.
THEOREM FoundationHolds == Spec => []Foundation
  <1>1. Init => Foundation
    <2> SUFFICES ASSUME Init PROVE Foundation
      OBVIOUS
    <2>1. IdsAreFresh
      BY DEF Init, IdsAreFresh, Draft
    <2>2. RequestsAreChecked
      <3> SUFFICES ASSUME NEW x \in Requests
                   PROVE  Checked(requests[x])
        BY DEF RequestsAreChecked
      <3>1. /\ requests[x].op = None /\ requests[x].seen = Empty
            /\ requests[x].phase = "new"
        BY DEF Init, Idle
      <3>2. DOMAIN Empty = {}
        BY DEF Empty
      <3>3. None \notin {"upsert", "approve", "reopen", "linkPayment"}
        BY NoneAssumption DEF Operation
      <3>4. QED
        BY <3>1, <3>2, <3>3 DEF Checked
    <2>3. TakenIsHeld
      BY DEF Init, Idle, TakenIsHeld, Unlocked
    <2>4. QED
      BY <2>1, <2>2, <2>3, InitTypeOK DEF Foundation
  <1>2. QED
    BY <1>1, FoundationStep, PTL DEF Spec

\* The type invariant of the timesheet, its requests and its audit trail.
THEOREM TypeCorrect == Spec => []TypeOK
  <1>1. Foundation => TypeOK
    BY DEF Foundation
  <1>2. QED
    BY <1>1, FoundationHolds, PTL

-----------------------------------------------------------------------------
(* The effects of a step on an entry *)

Kept(id) == /\ id \in live' <=> id \in live
            /\ rows'[id] = rows[id]
            /\ audit'[id] = audit[id]

\* The trail of an entry gains a record.
Extended(id, record) == /\ record \in AuditRecord
                        /\ audit'[id] = Append(audit[id], record)
Logged(id, record) == id \in live /\ id \in live' /\ Extended(id, record)

Born(r, id) ==
    /\ id \notin live /\ id \in live' /\ ~Issued(id)
    /\ audit[id] = <<>>
    /\ \E claim \in Claim :
          LET record == Audit("CREATED", r, None, "DRAFT", Column(claim.hours), None)
          IN  rows'[id] = Draft(claim) /\ Extended(id, record)

Gone(id) ==
    /\ id \in live /\ id \notin live' /\ Deletable(id)
    /\ rows'[id] = rows[id]
    /\ audit'[id] = <<>>

Rewritten(r, id) ==
    LET q == requests[r]
        row == Rewrite(q, id)
    IN  /\ Committing(r, "upsert")
        /\ id \in DOMAIN q.seen
        /\ rows'[id] = row
        /\ Logged(id, Audit(EditAction(q, id), r, q.seen[id].status,
                            row.status, row.value.hours, None))

Submitted(r, id) ==
    /\ rows'[id] = [rows[id] EXCEPT !.status = "SUBMITTED", !.submittedBy = r]
    /\ Logged(id, Audit("SUBMITTED", r, requests[r].seen[id].status, "SUBMITTED",
                        rows[id].value.hours, None))

\* An approval writes a row it has taken.
Approved(r, id) ==
    /\ Approvable(id)
    /\ requests[r].phase = "record"
    /\ requests[r].at \in Instants
    /\ Finish(r)
    /\ rows'[id] = [rows[id] EXCEPT !.status = "APPROVED",
                                    !.approvedBy = r,
                                    !.approvedAt = requests[r].at]
    /\ Logged(id, Audit("APPROVED", r, "SUBMITTED", "APPROVED", None, None))

\* An approval records what it found approved by another at its own instant,
\* whatever the row is by now.
Echoed(r, id) ==
    /\ requests[r].phase = "record" /\ Finish(r)
    /\ id \in requests[r].echoes
    /\ rows'[id] = rows[id]
    /\ Logged(id, Audit("APPROVED", r, "SUBMITTED", "APPROVED", None, None))

Reopened(r, id) ==
    /\ Committing(r, "reopen")
    /\ id \in DOMAIN requests[r].seen
    /\ rows'[id] = [rows[id] EXCEPT !.status = "DRAFT", !.reopened = TRUE,
                                    !.approvedBy = None, !.approvedAt = None]
    /\ Logged(id, Audit("REOPENED", r, requests[r].seen[id].status, "DRAFT",
                        rows[id].value.hours, None))

Paid(r, id) ==
    /\ Committing(r, "linkPayment")
    /\ id \in DOMAIN requests[r].seen
    /\ rows[id].paid = None
    /\ requests[r].payment \in Payments
    /\ rows'[id] = [rows[id] EXCEPT !.paid = requests[r].payment]
    /\ Logged(id, Audit("PAYMENT_LINKED", r, None, None,
                        requests[r].seen[id].value.hours, requests[r].payment))

\* What request r can do to an entry.
Touched(r, id) == \/ Born(r, id) \/ Gone(id) \/ Rewritten(r, id)
                  \/ Submitted(r, id) \/ Approved(r, id) \/ Echoed(r, id)
                  \/ Reopened(r, id) \/ Paid(r, id)

LEMMA SubmitEffect ==
    ASSUME Foundation, NEW r \in Requests, SubmitCommit(r), NEW id \in EntryIds
    PROVE  Kept(id) \/ Submitted(r, id)
  <1> DEFINE q == requests[r]
             ids == DOMAIN q.seen
             record(i) == Audit("SUBMITTED", r, q.seen[i].status, "SUBMITTED",
                                rows[i].value.hours, None)
  <1>1. /\ ids \subseteq live
        /\ live' = live
        /\ audit' = Recorded([i \in ids |-> record(i)])
        /\ rows' = [i \in EntryIds |->
                       IF i \in ids
                       THEN [rows[i] EXCEPT !.status = "SUBMITTED",
                                            !.submittedBy = r]
                       ELSE rows[i]]
    BY DEF SubmitCommit
  <1>2. CASE id \notin ids
    BY <1>1, <1>2 DEF Kept, Recorded
  <1>3. CASE id \in ids
    <2>1. record(id) \in AuditRecord
      <3>1. rows[id].value.hours \in StoredHours
        BY DEF Foundation, TypeOK, Row, Value
      <3>2. QED
        BY <1>3, <3>1, CommittingType, AuditType DEF AuditAction, Status
    <2> HIDE DEF record
    <2>2. audit'[id] = Append(audit[id], record(id))
      BY <1>1, <1>3 DEF Recorded
    <2>3. Logged(id, record(id))
      BY <1>1, <1>3, <2>1, <2>2 DEF Logged, Extended
    <2>4. rows'[id] = [rows[id] EXCEPT !.status = "SUBMITTED", !.submittedBy = r]
      BY <1>1, <1>3
    <2>5. QED
      BY <2>3, <2>4 DEF Submitted, record
  <1>4. QED
    BY <1>2, <1>3

LEMMA ReopenEffect ==
    ASSUME Foundation, NEW r \in Requests, ReopenCommit(r), NEW id \in EntryIds
    PROVE  Kept(id) \/ Reopened(r, id)
  <1> DEFINE q == requests[r]
             ids == DOMAIN q.seen
             record(i) == Audit("REOPENED", r, q.seen[i].status, "DRAFT",
                                rows[i].value.hours, None)
  <1>1. /\ Committing(r, "reopen")
        /\ ids \subseteq live
        /\ live' = live
        /\ audit' = Recorded([i \in ids |-> record(i)])
        /\ rows' = [i \in EntryIds |->
                       IF i \in ids
                       THEN [rows[i] EXCEPT !.status = "DRAFT", !.reopened = TRUE,
                                            !.approvedBy = None,
                                            !.approvedAt = None]
                       ELSE rows[i]]
    BY DEF ReopenCommit
  <1>2. CASE id \notin ids
    BY <1>1, <1>2 DEF Kept, Recorded
  <1>3. CASE id \in ids
    <2>1. record(id) \in AuditRecord
      <3>1. rows[id].value.hours \in StoredHours
        BY DEF Foundation, TypeOK, Row, Value
      <3>2. QED
        BY <1>3, <3>1, CommittingType, AuditType DEF AuditAction, Status
    <2> HIDE DEF record
    <2>2. audit'[id] = Append(audit[id], record(id))
      BY <1>1, <1>3 DEF Recorded
    <2>3. Logged(id, record(id))
      BY <1>1, <1>3, <2>1, <2>2 DEF Logged, Extended
    <2>4. rows'[id] = [rows[id] EXCEPT !.status = "DRAFT", !.reopened = TRUE,
                                       !.approvedBy = None, !.approvedAt = None]
      BY <1>1, <1>3
    <2>5. QED
      BY <1>1, <1>3, <2>3, <2>4 DEF Reopened, record
  <1>4. QED
    BY <1>2, <1>3

LEMMA PaymentEffect ==
    ASSUME Foundation, NEW r \in Requests, LinkPaymentCommit(r),
           NEW id \in EntryIds
    PROVE  Kept(id) \/ Paid(r, id)
  <1> DEFINE q == requests[r]
             ids == DOMAIN q.seen
             record(i) == Audit("PAYMENT_LINKED", r, None, None,
                                q.seen[i].value.hours, q.payment)
  <1>1. /\ Committing(r, "linkPayment")
        /\ \A i \in ids : Linkable(i)
        /\ live' = live
        /\ audit' = Recorded([i \in ids |-> record(i)])
        /\ rows' = [i \in EntryIds |->
                       IF i \in ids THEN [rows[i] EXCEPT !.paid = q.payment]
                                    ELSE rows[i]]
    BY DEF LinkPaymentCommit
  <1>2. CASE id \notin ids
    BY <1>1, <1>2 DEF Kept, Recorded
  <1>3. CASE id \in ids
    <2>1. q.payment \in Payments
      BY <1>1, CommittingType DEF Committing, Checked
    <2>2. record(id) \in AuditRecord
      <3>1. q.seen[id].value.hours \in StoredHours
        BY <1>3, CommittingType DEF Value
      <3>2. QED
        BY <2>1, <3>1, AuditType DEF AuditAction
    <2> HIDE DEF record
    <2>3. audit'[id] = Append(audit[id], record(id))
      BY <1>1, <1>3 DEF Recorded
    <2>4. Logged(id, record(id)) /\ rows[id].paid = None
      BY <1>1, <1>3, <2>2, <2>3 DEF Logged, Extended, Linkable
    <2>5. rows'[id] = [rows[id] EXCEPT !.paid = q.payment]
      BY <1>1, <1>3
    <2>6. QED
      BY <1>1, <1>3, <2>1, <2>4, <2>5 DEF Paid, record
  <1>4. QED
    BY <1>2, <1>3

LEMMA ApproveEffect ==
    ASSUME Foundation, NEW r \in Requests, ApproveCommit(r), NEW id \in EntryIds
    PROVE  Kept(id) \/ Approved(r, id) \/ Echoed(r, id)
  <1> DEFINE q == requests[r]
             approved == q.taken \union q.echoes
             record == Audit("APPROVED", r, "SUBMITTED", "APPROVED", None, None)
             after(i) == [rows[i] EXCEPT !.status = "APPROVED",
                                         !.approvedBy = r, !.approvedAt = q.at]
  <1>1. /\ q.phase = "record" /\ Finish(r)
        /\ approved \subseteq live
        /\ live' = live
        /\ rows' = [i \in EntryIds |-> IF i \in q.taken THEN after(i)
                                                        ELSE rows[i]]
        /\ audit' = Recorded([i \in approved |-> record])
    BY DEF ApproveCommit
  <1>2. q.at \in Instants
    BY <1>1, CommittingType DEF Checked
  <1>3. record \in AuditRecord
    BY AuditType DEF AuditAction, Status
  <1>4. id \in approved => Logged(id, record)
    <2> HIDE DEF approved, record
    <2>1. id \in approved => audit'[id] = Append(audit[id], record)
      BY <1>1 DEF Recorded
    <2>2. QED
      BY <1>1, <1>3, <2>1 DEF Logged, Extended
  <1>5. CASE id \in q.taken
    <2>1. rows'[id] = after(id)
      BY <1>1, <1>5
    <2>2. Approvable(id)
      BY <1>5 DEF Foundation, TakenIsHeld, Approvable
    <2> HIDE DEF record
    <2>3. QED
      BY <1>1, <1>2, <1>4, <1>5, <2>1, <2>2 DEF Approved, record
  <1>6. CASE id \notin q.taken /\ id \in q.echoes
    <2>1. rows'[id] = rows[id]
      BY <1>1, <1>6
    <2> HIDE DEF record
    <2>2. QED
      BY <1>1, <1>4, <1>6, <2>1 DEF Echoed, record
  <1>7. CASE id \notin approved
    <2>1. rows'[id] = rows[id]
      BY <1>1, <1>7
    <2> HIDE DEF approved, record
    <2>2. audit'[id] = audit[id]
      BY <1>1, <1>7 DEF Recorded
    <2>3. QED
      BY <1>1, <2>1, <2>2 DEF Kept
  <1>8. QED
    BY <1>5, <1>6, <1>7

LEMMA DeleteEffect ==
    ASSUME Foundation, NEW r \in Requests, DeleteCommit(r), NEW id \in EntryIds
    PROVE  Kept(id) \/ Gone(id)
  <1>1. CASE id \in DOMAIN requests[r].seen
    BY <1>1 DEF DeleteCommit, Deletable, Gone
  <1>2. CASE id \notin DOMAIN requests[r].seen
    BY <1>2 DEF DeleteCommit, Kept
  <1>3. QED
    BY <1>1, <1>2

LEMMA UpsertEffect ==
    ASSUME Foundation, NEW r \in Requests, UpsertCommit(r), NEW id \in EntryIds
    PROVE  Kept(id) \/ Born(r, id) \/ Rewritten(r, id)
  <1> DEFINE q == requests[r]
             new == NewIds(q)
             edited == Edited(q.payload, q.seen)
  <1>1. /\ Committing(r, "upsert")
        /\ \A d \in NewDates(q) : incarnation[d] < MaxIncarnation
        /\ edited \subseteq live
        /\ live' = live \union new
        /\ audit' = Recorded([i \in new \union edited |-> UpsertAudit(r, q, i)])
    BY DEF UpsertCommit
  <1>2. rows' = [i \in EntryIds |->
                    CASE i \in new -> Draft(q.payload[DateOf(i)])
                      [] i \in edited -> Rewrite(q, i)
                      [] OTHER -> rows[i]]
    BY DEF UpsertCommit
  <1>3. edited \subseteq DOMAIN q.seen
    BY DEF Edited
  <1> HIDE DEF new, edited
  <1>4. CASE id \in new
    <2> DEFINE claim == q.payload[DateOf(id)]
               record == Audit("CREATED", r, None, "DRAFT", Column(claim.hours),
                               None)
    <2>1. id \notin live /\ ~Issued(id) /\ claim \in Claim
      BY <1>1, <1>4, NewIdsType, CommittingType DEF new
    <2>2. audit[id] = <<>>
      BY <2>1 DEF Foundation, IdsAreFresh
    <2>3. UpsertAudit(r, q, id) = record
      BY <1>4 DEF UpsertAudit, new
    <2>4. record \in AuditRecord
      BY <1>1, <1>4, <2>3, UpsertAuditType DEF new
    <2>5. rows'[id] = Draft(claim)
      <3>1. id \in EntryIds /\ id \notin edited
        BY <1>1, <1>3, <1>4, NewIdsType DEF new
      <3>2. QED
        BY <1>2, <1>4, <3>1
    <2>6. audit'[id] = Append(audit[id], record)
      BY <1>1, <1>4, <2>3 DEF Recorded
    <2>7. id \in live'
      BY <1>1, <1>4
    <2> HIDE DEF q
    <2>8. QED
      BY <2>1, <2>2, <2>4, <2>5, <2>6, <2>7 DEF Born, Extended
  <1>5. CASE id \notin new /\ id \in edited
    <2> DEFINE row == Rewrite(q, id)
               record == Audit(EditAction(q, id), r, q.seen[id].status,
                               row.status, row.value.hours, None)
    <2>1. UpsertAudit(r, q, id) = record
      BY <1>5 DEF UpsertAudit, new
    <2>2. record \in AuditRecord
      BY <1>1, <1>3, <1>5, <2>1, UpsertAuditType
    <2>3. rows'[id] = row
      BY <1>2, <1>5
    <2>4. audit'[id] = Append(audit[id], record)
      BY <1>1, <1>5, <2>1 DEF Recorded
    <2> HIDE DEF record
    <2>5. Logged(id, record)
      BY <1>1, <1>5, <2>2, <2>4 DEF Logged, Extended
    <2>6. QED
      BY <1>1, <1>3, <1>5, <2>3, <2>5 DEF Rewritten, record
  <1>6. CASE id \notin new /\ id \notin edited
    BY <1>1, <1>2, <1>6 DEF Kept, Recorded
  <1>7. QED
    BY <1>4, <1>5, <1>6

\* Whatever the step, it does one of these to an entry, or nothing.
LEMMA EntryStep ==
    ASSUME Foundation, [Next]_vars, NEW id \in EntryIds
    PROVE  Kept(id) \/ \E r \in Requests : Touched(r, id)
  <1>1. ASSUME NEW r \in Requests, Read(r) PROVE Kept(id)
    BY <1>1, ReadStep DEF Foundation, Kept
  <1>2. ASSUME NEW r \in Requests, Commit(r) PROVE Kept(id) \/ Touched(r, id)
    BY <1>2, UpsertEffect, SubmitEffect, DeleteEffect, ApproveEffect,
       ReopenEffect, PaymentEffect DEF Commit, Touched
  <1>3. ASSUME NEW r \in Requests, Abort(r) PROVE Kept(id)
    BY <1>3 DEF Abort, Kept
  <1>4. CASE AssignmentStatusChange
    BY <1>4 DEF AssignmentStatusChange, Kept
  <1>5. CASE UNCHANGED vars
    BY <1>5 DEF vars, Kept
  <1>6. ASSUME NEW r \in Requests, Approving(r) PROVE Kept(id)
    BY <1>6, UpdateStep, FindStep DEF Approving, Advances, Foundation, Kept
  <1>7. QED
    BY <1>1, <1>2, <1>3, <1>4, <1>5, <1>6 DEF Next

-----------------------------------------------------------------------------
(* Trails *)

\* NULL is told apart from every value a column holds.
LEMMA NullType ==
    /\ None \notin Requests /\ None \notin Payments /\ None \notin Instants
    /\ None \notin Status /\ None \notin StoredHours
  <1>1. ASSUME NEW h \in Hours
        PROVE  Column(h) \in DayHours
    <2>1. h \in DayHours
      BY ConstantsAssumption
    <2>2. QED
      BY <2>1 DEF Column, DayHours
  <1>2. None \notin DayHours
    BY NoneAssumption
  <1>3. \A h \in StoredHours : h \in DayHours
    BY <1>1 DEF StoredHours
  <1>4. None \notin StoredHours
    BY <1>2, <1>3
  <1>5. None \notin Status
    BY NoneAssumption
  <1>6. None \notin Requests /\ None \notin Payments /\ None \notin Instants
    BY NoneAssumption
  <1>7. QED
    BY <1>4, <1>5, <1>6

\* What appending does to a sequence.
LEMMA AppendFacts ==
    ASSUME NEW S, NEW s \in Seq(S), NEW x \in S
    PROVE  /\ Len(s) \in Nat
           /\ DOMAIN s = 1 .. Len(s)
           /\ DOMAIN Append(s, x) = 1 .. Len(s) + 1
           /\ \A k \in 1 .. Len(s) : Append(s, x)[k] = s[k]
           /\ Append(s, x)[Len(s) + 1] = x
  OBVIOUS

\* A trail that gains a record keeps the others, each at its place.
LEMMA TrailGrows ==
    ASSUME TypeOK, NEW id \in EntryIds, NEW record, Extended(id, record)
    PROVE  LET n == Len(audit[id]) + 1
           IN  /\ n \in Nat \ {0}
               /\ DOMAIN audit[id] = 1 .. n - 1
               /\ DOMAIN audit'[id] = 1 .. n
               /\ \A k \in 1 .. n - 1 : audit'[id][k] = audit[id][k]
               /\ audit'[id][n] = record
  <1>1. audit[id] \in Seq(AuditRecord)
    BY DEF TypeOK
  <1>2. QED
    BY <1>1, AppendFacts DEF Extended

\* Its records with one of the given actions are those it had, and the new one
\* if it is such a record.
LEMMA RecordsGrow ==
    ASSUME TypeOK, NEW id \in EntryIds, NEW record, Extended(id, record),
           NEW A
    PROVE  LET n == Len(audit[id]) + 1
           IN  /\ Records(id, A) \subseteq 1 .. n - 1
               /\ record.action \in A =>
                     Records(id, A)' = Records(id, A) \union {n}
               /\ record.action \notin A =>
                     Records(id, A)' = Records(id, A)
  <1>1. PICK n : /\ n = Len(audit[id]) + 1 /\ n \in Nat \ {0}
                 /\ DOMAIN audit[id] = 1 .. n - 1
                 /\ DOMAIN audit'[id] = 1 .. n
                 /\ \A k \in 1 .. n - 1 : audit'[id][k] = audit[id][k]
                 /\ audit'[id][n] = record
    BY TrailGrows
  <1>2. Records(id, A) \subseteq 1 .. n - 1
    BY <1>1 DEF Records
  <1>3. 1 .. n = (1 .. n - 1) \union {n} /\ n \notin 1 .. n - 1
    BY <1>1
  <1>4. \A k \in 1 .. n - 1 : k \in Records(id, A)' <=> k \in Records(id, A)
    BY <1>1, <1>3 DEF Records
  <1>5. n \in Records(id, A)' <=> record.action \in A
    <2>1. n \in DOMAIN audit'[id]
      BY <1>1
    <2>2. audit'[id][n].action = record.action
      BY <1>1
    <2>3. QED
      BY <2>1, <2>2 DEF Records
  <1>6. Records(id, A)' \subseteq 1 .. n
    BY <1>1 DEF Records
  <1>7. record.action \in A => Records(id, A)' = Records(id, A) \union {n}
    BY <1>2, <1>3, <1>4, <1>5, <1>6
  <1>8. record.action \notin A => Records(id, A)' = Records(id, A)
    BY <1>2, <1>3, <1>4, <1>5, <1>6
  <1>9. QED
    BY <1>1, <1>2, <1>7, <1>8

\* A trail that keeps its records keeps those with the given actions.
LEMMA RecordsKept ==
    ASSUME NEW id, audit'[id] = audit[id], NEW A
    PROVE  Records(id, A)' = Records(id, A)
  BY DEF Records

\* An edit writes the value, and for a reset the status and the submission.
LEMMA RewriteFields ==
    ASSUME Foundation, NEW r \in Requests, NEW id \in EntryIds
    PROVE  LET row == Rewrite(requests[r], id)
           IN  /\ row.approvedBy = rows[id].approvedBy
               /\ row.approvedAt = rows[id].approvedAt
               /\ row.reopened = rows[id].reopened
               /\ row.paid = rows[id].paid
               /\ \/ row.status = "DRAFT"
                  \/ /\ row.status = rows[id].status
                     /\ row.submittedBy = rows[id].submittedBy
  <1>1. rows[id] \in Row
    BY DEF Foundation, TypeOK
  <1> DEFINE v == Stored(requests[r].payload[DateOf(id)])
             edited == [rows[id] EXCEPT !.value = v]
  <1> HIDE DEF v
  <1>2. /\ edited.approvedBy = rows[id].approvedBy
        /\ edited.approvedAt = rows[id].approvedAt
        /\ edited.reopened = rows[id].reopened
        /\ edited.paid = rows[id].paid
        /\ edited.status = rows[id].status
        /\ edited.submittedBy = rows[id].submittedBy
    BY <1>1 DEF Row
  <1> DEFINE reset == [edited EXCEPT !.status = "DRAFT", !.submittedBy = None]
  <1>3. /\ reset.approvedBy = rows[id].approvedBy
        /\ reset.approvedAt = rows[id].approvedAt
        /\ reset.reopened = rows[id].reopened
        /\ reset.paid = rows[id].paid
        /\ reset.status = "DRAFT"
    BY <1>1 DEF Row
  <1>4. Rewrite(requests[r], id) = edited \/ Rewrite(requests[r], id) = reset
    BY DEF Rewrite, v
  <1> HIDE DEF edited, reset
  <1>5. QED
    BY <1>2, <1>3, <1>4

-----------------------------------------------------------------------------
(* One entry per day *)

\* An assignment has at most one entry for a work date: a create relies on the
\* unique index, whatever its request had read.
THEOREM DaysAreUnique == Spec => []OneEntryPerDay
  <1>1. Init => OneEntryPerDay
    BY DEF Init, OneEntryPerDay
  <1>2. Foundation /\ OneEntryPerDay /\ [Next]_vars => OneEntryPerDay'
    <2> SUFFICES ASSUME Foundation, OneEntryPerDay, [Next]_vars
                 PROVE  OneEntryPerDay'
      OBVIOUS
    <2>1. ASSUME NEW r \in Requests, UpsertCommit(r)
          PROVE  OneEntryPerDay'
      <3> DEFINE q == requests[r]
      <3>1. /\ \A d \in NewDates(q) : incarnation[d] < MaxIncarnation /\ DayFree(d)
            /\ live' = live \union NewIds(q)
        BY <2>1 DEF UpsertCommit
      <3>2. \A id \in NewIds(q) : DayFree(DateOf(id))
        BY <3>1, NewIdsType
      <3>3. \A id, other \in NewIds(q) : DateOf(id) = DateOf(other) => id = other
        BY DEF NewIds, DateOf
      <3> HIDE DEF q
      <3>4. QED
        BY <3>1, <3>2, <3>3 DEF OneEntryPerDay, DayFree
    <2>2. ASSUME live' \subseteq live
          PROVE  OneEntryPerDay'
      BY <2>2 DEF OneEntryPerDay
    <2>3. ASSUME NEW r \in Requests, Read(r) PROVE live' \subseteq live
      BY <2>3, ReadStep DEF Foundation
    <2>4. ASSUME NEW r \in Requests, Commit(r) \/ Abort(r), ~UpsertCommit(r)
          PROVE  live' \subseteq live
      BY <2>4 DEF Commit, SubmitCommit, DeleteCommit, ApproveCommit,
                  ReopenCommit, LinkPaymentCommit, Abort
    <2>5. CASE AssignmentStatusChange \/ UNCHANGED vars
      BY <2>5 DEF AssignmentStatusChange, vars, OneEntryPerDay
    <2>6. ASSUME NEW r \in Requests, Approving(r) PROVE live' \subseteq live
      BY <2>6 DEF Approving, ApproveUpdate, ApproveFind
    <2>7. QED
      BY <2>1, <2>2, <2>3, <2>4, <2>5, <2>6 DEF Next
  <1>3. QED
    BY <1>1, <1>2, FoundationHolds, PTL DEF Spec

-----------------------------------------------------------------------------
(* Stamps *)

Stamped(id) ==
    /\ rows[id].status # "DRAFT" => rows[id].submittedBy # None
    /\ rows[id].status = "APPROVED" => /\ rows[id].approvedBy # None
                                       /\ rows[id].approvedAt # None

LEMMA StampedStep ==
    ASSUME Foundation, NEW r \in Requests, NEW id \in EntryIds,
           Touched(r, id), id \in live', id \in live => Stamped(id)
    PROVE  Stamped(id)'
  <1>1. rows[id] \in Row
    BY DEF Foundation, TypeOK
  <1>2. CASE Born(r, id)
    BY <1>2 DEF Born, Draft, Stamped
  <1>3. CASE Rewritten(r, id)
    BY <1>3, RewriteFields DEF Rewritten, Logged, Stamped
  <1>4. CASE Submitted(r, id)
    BY <1>1, <1>4, NullType DEF Submitted, Row, Stamped
  <1>5. CASE Approved(r, id)
    BY <1>1, <1>5, NullType DEF Approved, Logged, Approvable, Row, Stamped
  <1>10. CASE Echoed(r, id)
    BY <1>10 DEF Echoed, Logged, Stamped
  <1>6. CASE Reopened(r, id)
    BY <1>1, <1>6 DEF Reopened, Row, Stamped
  <1>7. CASE Paid(r, id)
    BY <1>1, <1>7 DEF Paid, Logged, Row, Stamped
  <1>8. CASE Gone(id)
    BY <1>8 DEF Gone
  <1>9. QED
    BY <1>2, <1>3, <1>4, <1>5, <1>6, <1>7, <1>8, <1>10 DEF Touched

\* Submitted and approved entries name who submitted and who approved them.
THEOREM StampsHold == Spec => []StampsMatchStatus
  <1>1. StampsMatchStatus <=> \A id \in live : Stamped(id)
    BY DEF StampsMatchStatus, Stamped
  <1>2. Init => StampsMatchStatus
    BY DEF Init, StampsMatchStatus
  <1>3. Foundation /\ StampsMatchStatus /\ [Next]_vars => StampsMatchStatus'
    <2> SUFFICES ASSUME Foundation, StampsMatchStatus, [Next]_vars,
                        NEW id \in live'
                 PROVE  Stamped(id)'
      BY DEF StampsMatchStatus, Stamped
    <2>1. live' \in SUBSET EntryIds
      <3>1. Foundation'
        BY FoundationStep
      <3>2. QED
        BY <3>1 DEF Foundation, TypeOK
    <2>2. CASE Kept(id)
      BY <1>1, <2>2 DEF Kept, Stamped
    <2>3. ASSUME NEW r \in Requests, Touched(r, id)
          PROVE  Stamped(id)'
      BY <1>1, <2>1, <2>3, StampedStep
    <2>4. QED
      BY <2>1, <2>2, <2>3, EntryStep
  <1>4. QED
    BY <1>2, <1>3, FoundationHolds, PTL DEF Spec

-----------------------------------------------------------------------------
(* Approval *)

\* An entry becomes approved from SUBMITTED only, and an approved entry keeps
\* its approver and its time while it stays approved.
THEOREM ApprovalGuarded == Spec => ApprovalIsGuarded
  <1> DEFINE Guarded(id) ==
        rows'[id].status = "APPROVED" =>
            \/ rows[id].status = "SUBMITTED"
            \/ /\ rows[id].status = "APPROVED"
               /\ rows'[id].approvedBy = rows[id].approvedBy
               /\ rows'[id].approvedAt = rows[id].approvedAt
  <1>1. ASSUME Foundation, [Next]_vars, NEW id \in live
        PROVE  Guarded(id)
    <2>1. id \in EntryIds
      BY <1>1 DEF Foundation, TypeOK
    <2>2. rows[id] \in Row
      BY <1>1, <2>1 DEF Foundation, TypeOK
    <2>3. CASE Kept(id)
      BY <2>3 DEF Kept
    <2>4. ASSUME NEW r \in Requests, Touched(r, id)
          PROVE  Guarded(id)
      <3>1. CASE Born(r, id)
        BY <3>1 DEF Born
      <3>2. CASE Gone(id)
        BY <3>2 DEF Gone
      <3>3. CASE Rewritten(r, id)
        BY <1>1, <2>1, <3>3, RewriteFields DEF Rewritten
      <3>4. CASE Submitted(r, id)
        BY <2>2, <3>4 DEF Submitted, Row
      <3>5. CASE Approved(r, id)
        BY <3>5 DEF Approved, Approvable
      <3>6. CASE Reopened(r, id)
        BY <2>2, <3>6 DEF Reopened, Row
      <3>7. CASE Paid(r, id)
        BY <2>2, <3>7 DEF Paid, Row
      <3>8. CASE Echoed(r, id)
        BY <3>8 DEF Echoed
      <3>9. QED
        BY <2>4, <3>1, <3>2, <3>3, <3>4, <3>5, <3>6, <3>7, <3>8 DEF Touched
    <2>5. QED
      BY <1>1, <2>1, <2>3, <2>4, EntryStep
  <1>2. Foundation /\ [Next]_vars => [\A id \in live : Guarded(id)]_vars
    BY <1>1
  <1>3. QED
    BY <1>2, FoundationHolds, PTL DEF Spec, ApprovalIsGuarded

\* An entry that is approved, or that a request in progress read as approved,
\* has an approval on its trail.
ApprovalOnTrail(id) == Records(id, {"APPROVED"}) # {}
ApprovalKnown ==
    /\ \A id \in live : rows[id].status = "APPROVED" => ApprovalOnTrail(id)
    /\ \A r \in Requests : \A id \in DOMAIN requests[r].seen :
          id \in live /\ requests[r].seen[id].status = "APPROVED" =>
              ApprovalOnTrail(id)

\* A trail never loses an approval while its entry is there.
LEMMA ApprovalStays ==
    ASSUME Foundation, [Next]_vars, NEW id \in live, id \in live',
           ApprovalOnTrail(id)
    PROVE  ApprovalOnTrail(id)'
  <1>1. id \in EntryIds /\ TypeOK
    BY DEF Foundation, TypeOK
  <1>2. CASE Kept(id)
    BY <1>2, RecordsKept DEF Kept, ApprovalOnTrail
  <1>3. ASSUME NEW record, Extended(id, record)
        PROVE  ApprovalOnTrail(id)'
    BY <1>1, <1>3, RecordsGrow DEF ApprovalOnTrail
  <1>4. ASSUME NEW r \in Requests, Touched(r, id)
        PROVE  \E record : Extended(id, record)
    BY <1>4 DEF Touched, Born, Gone, Rewritten, Submitted, Approved, Echoed,
                Reopened, Paid, Logged
  <1>5. QED
    BY <1>1, <1>2, <1>3, <1>4, EntryStep

\* What a request holds after a step: what it held, or what its rows are now,
\* or nothing.
LEMMA SeenStep ==
    ASSUME Foundation, [Next]_vars, NEW x \in Requests,
           NEW id \in DOMAIN requests'[x].seen
    PROVE  \/ /\ id \in DOMAIN requests[x].seen
              /\ requests'[x].seen[id] = requests[x].seen[id]
           \/ /\ id \in live
              /\ requests'[x].seen[id].status = rows[id].status
              /\ UNCHANGED <<live, rows, audit>>
  <1>1. ASSUME NEW r \in Requests, Read(r)
        PROVE  \/ requests'[x] = requests[x]
               \/ /\ id \in live
                  /\ requests'[x].seen[id].status = rows[id].status
                  /\ UNCHANGED <<live, rows, audit>>
    BY <1>1, ReadStep DEF Foundation
  <1>2. ASSUME NEW r \in Requests, Finish(r)
        PROVE  requests'[x] = requests[x]
    <2>1. CASE x = r
      <3>1. requests'[x].seen = Empty /\ DOMAIN Empty = {}
        BY <1>2, <2>1, FinishEffect DEF Foundation
      <3>2. QED
        BY <3>1
    <2>2. CASE x # r
      BY <1>2, <2>2 DEF Finish, Foundation, TypeOK
    <2>3. QED
      BY <2>1, <2>2
  <1>3. ASSUME NEW r \in Requests, Commit(r) \/ Abort(r)
        PROVE  Finish(r)
    BY <1>3 DEF Commit, UpsertCommit, SubmitCommit, DeleteCommit,
                ApproveCommit, ReopenCommit, LinkPaymentCommit, Abort
  <1>4. CASE AssignmentStatusChange \/ UNCHANGED vars
    BY <1>4 DEF AssignmentStatusChange, vars
  <1>5. ASSUME NEW r \in Requests, Approving(r)
        PROVE  requests'[x].seen = requests[x].seen
    BY <1>5, UpdateStep, FindStep DEF Approving, Advances, Foundation
  <1>6. QED
    BY <1>1, <1>2, <1>3, <1>4, <1>5 DEF Next

\* A record of an approval puts an approval on the trail.
LEMMA ApprovedLeavesRecord ==
    ASSUME Foundation, NEW r \in Requests, NEW id \in EntryIds,
           Approved(r, id) \/ Echoed(r, id)
    PROVE  ApprovalOnTrail(id)'
  <1> DEFINE record == Audit("APPROVED", r, "SUBMITTED", "APPROVED", None, None)
  <1>1. Extended(id, record)
    BY DEF Approved, Echoed, Logged
  <1>2. record.action \in {"APPROVED"}
    BY DEF Audit
  <1> HIDE DEF record
  <1>3. QED
    BY <1>1, <1>2, RecordsGrow DEF ApprovalOnTrail, Foundation

LEMMA ApprovalKnownStep ==
    Foundation /\ ApprovalKnown /\ [Next]_vars => ApprovalKnown'
  <1> SUFFICES ASSUME Foundation, ApprovalKnown, [Next]_vars
               PROVE  ApprovalKnown'
    OBVIOUS
  <1>1. Foundation'
    BY FoundationStep
  <1>2. ASSUME NEW id \in live', rows'[id].status = "APPROVED"
        PROVE  ApprovalOnTrail(id)'
    <2>1. id \in EntryIds
      BY <1>1 DEF Foundation, TypeOK
    <2>2. rows[id] \in Row
      BY <2>1 DEF Foundation, TypeOK
    <2>3. CASE id \in live /\ rows[id].status = "APPROVED"
      BY <1>2, <2>3, ApprovalStays DEF ApprovalKnown
    <2>4. CASE Kept(id)
      BY <1>2, <2>3, <2>4 DEF Kept
    <2>5. ASSUME NEW r \in Requests, Touched(r, id)
          PROVE  ApprovalOnTrail(id)'
      <3>1. CASE Born(r, id)
        BY <1>2, <3>1 DEF Born, Draft
      <3>2. CASE Gone(id)
        BY <1>2, <3>2 DEF Gone
      <3>3. CASE Rewritten(r, id)
        BY <1>2, <2>1, <2>3, <3>3, RewriteFields DEF Rewritten, Logged
      <3>4. CASE Submitted(r, id)
        BY <1>2, <2>2, <3>4 DEF Submitted, Row
      <3>5. CASE Approved(r, id) \/ Echoed(r, id)
        BY <2>1, <3>5, ApprovedLeavesRecord
      <3>6. CASE Reopened(r, id)
        BY <1>2, <2>2, <3>6 DEF Reopened, Row
      <3>7. CASE Paid(r, id)
        BY <1>2, <2>2, <2>3, <3>7 DEF Paid, Logged, Row
      <3>8. QED
        BY <2>5, <3>1, <3>2, <3>3, <3>4, <3>5, <3>6, <3>7 DEF Touched
    <2>6. QED
      BY <2>1, <2>4, <2>5, EntryStep
  <1>3. ASSUME NEW x \in Requests, NEW id \in DOMAIN requests'[x].seen,
               id \in live', requests'[x].seen[id].status = "APPROVED"
        PROVE  ApprovalOnTrail(id)'
    <2>1. CASE /\ id \in DOMAIN requests[x].seen
               /\ requests'[x].seen[id] = requests[x].seen[id]
      <3>1. Issued(id) /\ id \in EntryIds
        BY <2>1, CommittingType DEF Checked
      <3>2. id \in live
        <4>1. CASE Kept(id)
          BY <1>3, <4>1 DEF Kept
        <4>2. ASSUME NEW r \in Requests, Touched(r, id)
              PROVE  id \in live
          BY <3>1, <4>2 DEF Touched, Born, Gone, Rewritten, Submitted,
                            Approved, Echoed, Reopened, Paid, Logged
        <4>3. QED
          BY <3>1, <4>1, <4>2, EntryStep
      <3>3. QED
        BY <1>3, <2>1, <3>2, ApprovalStays DEF ApprovalKnown
    <2>2. CASE /\ id \in live
               /\ requests'[x].seen[id].status = rows[id].status
               /\ UNCHANGED <<live, rows, audit>>
      BY <1>2, <1>3, <2>2
    <2>3. QED
      BY <1>3, <2>1, <2>2, SeenStep
  <1>4. QED
    BY <1>2, <1>3 DEF ApprovalKnown

LEMMA ApprovalKnownHolds == Spec => []ApprovalKnown
  <1>1. Init => ApprovalKnown
    BY DEF Init, ApprovalKnown, Idle, Empty
  <1>2. QED
    BY <1>1, ApprovalKnownStep, FoundationHolds, PTL DEF Spec

-----------------------------------------------------------------------------
(* What the trail of an entry says *)

Consequences == {"REOPENED", "ADMIN_OVERRIDE", "PAYMENT_LINKED"}
ApprovedBefore(id) ==
    \A k \in Records(id, Consequences) :
        \E j \in Records(id, {"APPROVED"}) : j < k

\* An edit, a reopening or a payment of an entry that was read as approved
\* finds an approval on its trail.
LEMMA ConsequenceOfApproval ==
    ASSUME Foundation, ApprovalKnown, NEW r \in Requests, NEW id \in live,
           id \in DOMAIN requests[r].seen,
           requests[r].seen[id].status = "APPROVED"
    PROVE  Records(id, {"APPROVED"}) # {}
  BY DEF ApprovalKnown, ApprovalOnTrail

LEMMA ApprovedBeforeStep ==
    ASSUME Foundation, ApprovalKnown, NEW id \in EntryIds,
           NEW record, Extended(id, record), ApprovedBefore(id),
           record.action \in Consequences => Records(id, {"APPROVED"}) # {}
    PROVE  ApprovedBefore(id)'
  <1> DEFINE n == Len(audit[id]) + 1
  <1>1. TypeOK
    BY DEF Foundation
  <1>2. /\ Records(id, {"APPROVED"}) \subseteq 1 .. n - 1
        /\ Records(id, {"APPROVED"}) \subseteq Records(id, {"APPROVED"})'
    BY <1>1, RecordsGrow
  <1>3. /\ record.action \in Consequences =>
              Records(id, Consequences)' = Records(id, Consequences) \union {n}
        /\ record.action \notin Consequences =>
              Records(id, Consequences)' = Records(id, Consequences)
    BY <1>1, RecordsGrow
  <1>4. n \in Nat
    BY <1>1, TrailGrows
  <1>5. ASSUME NEW k \in Records(id, Consequences)'
        PROVE  \E j \in Records(id, {"APPROVED"})' : j < k
    <2>1. CASE k \in Records(id, Consequences)
      BY <1>2, <2>1 DEF ApprovedBefore
    <2>2. CASE k \notin Records(id, Consequences)
      <3>1. k = n /\ record.action \in Consequences
        BY <1>3, <1>5, <2>2
      <3>2. PICK j \in Records(id, {"APPROVED"}) : TRUE
        BY <3>1
      <3>3. j \in 1 .. n - 1 /\ j \in Records(id, {"APPROVED"})'
        BY <1>2, <3>2
      <3>4. j < k
        BY <1>4, <3>1, <3>3
      <3>5. QED
        BY <3>3, <3>4
    <2>3. QED
      BY <2>1, <2>2
  <1>6. QED
    BY <1>5 DEF ApprovedBefore

\* No entry is reopened, overridden or paid that nobody approved.
THEOREM ApprovalFirst == Spec => []ApprovalComesFirst
  <1>1. Init => ApprovalComesFirst
    BY DEF Init, ApprovalComesFirst
  <1>2. Foundation /\ ApprovalKnown /\ ApprovalComesFirst /\ [Next]_vars
            => ApprovalComesFirst'
    <2> SUFFICES ASSUME Foundation, ApprovalKnown, ApprovalComesFirst,
                        [Next]_vars, NEW id \in live'
                 PROVE  ApprovedBefore(id)'
      BY DEF ApprovalComesFirst, ApprovedBefore, Consequences
    <2>1. id \in EntryIds
      <3>1. Foundation'
        BY FoundationStep
      <3>2. QED
        BY <3>1 DEF Foundation, TypeOK
    <2>2. id \in live => ApprovedBefore(id)
      BY DEF ApprovalComesFirst, ApprovedBefore, Consequences
    <2>3. CASE Kept(id)
      BY <2>2, <2>3, RecordsKept DEF Kept, ApprovedBefore
    <2>4. ASSUME NEW r \in Requests, Touched(r, id)
          PROVE  ApprovedBefore(id)'
      <3>1. CASE Born(r, id)
        <4>1. PICK claim \in Claim :
                 Extended(id, Audit("CREATED", r, None, "DRAFT",
                                    Column(claim.hours), None))
          BY <3>1 DEF Born
        <4> DEFINE record == Audit("CREATED", r, None, "DRAFT",
                                   Column(claim.hours), None)
        <4>2. record.action \notin Consequences
          BY DEF Audit, Consequences
        <4>3. audit[id] = <<>>
          BY <3>1 DEF Born
        <4>4. Records(id, Consequences) = {}
          BY <4>3 DEF Records
        <4> HIDE DEF record
        <4>5. Records(id, Consequences)' = {}
          BY <2>1, <4>1, <4>2, <4>4, RecordsGrow DEF Foundation, record
        <4>6. QED
          BY <4>5 DEF ApprovedBefore
      <3>2. CASE Gone(id)
        BY <3>2 DEF Gone
      <3>3. CASE Rewritten(r, id)
        <4> DEFINE q == requests[r]
                   record == Audit(EditAction(q, id), r, q.seen[id].status,
                                   Rewrite(q, id).status,
                                   Rewrite(q, id).value.hours, None)
        <4>1. Logged(id, record) /\ id \in DOMAIN q.seen
          BY <3>3 DEF Rewritten
        <4>2. record.action = EditAction(q, id)
          BY DEF Audit
        <4>3. EditAction(q, id) \in Consequences =>
                 q.seen[id].status = "APPROVED"
          BY DEF EditAction, Consequences
        <4> HIDE DEF record
        <4>4. QED
          BY <2>1, <2>2, <4>1, <4>2, <4>3, ConsequenceOfApproval,
             ApprovedBeforeStep DEF Logged
      <3>4. CASE Submitted(r, id)
        <4> DEFINE record == Audit("SUBMITTED", r, requests[r].seen[id].status,
                                   "SUBMITTED", rows[id].value.hours, None)
        <4>1. Logged(id, record)
          BY <3>4 DEF Submitted
        <4>2. record.action \notin Consequences
          BY DEF Audit, Consequences
        <4> HIDE DEF record
        <4>3. QED
          BY <2>1, <2>2, <4>1, <4>2, ApprovedBeforeStep DEF Logged
      <3>5. CASE Approved(r, id) \/ Echoed(r, id)
        <4> DEFINE record == Audit("APPROVED", r, "SUBMITTED", "APPROVED", None,
                                   None)
        <4>1. Logged(id, record)
          BY <3>5 DEF Approved, Echoed
        <4>2. record.action \notin Consequences
          BY DEF Audit, Consequences
        <4> HIDE DEF record
        <4>3. QED
          BY <2>1, <2>2, <4>1, <4>2, ApprovedBeforeStep DEF Logged
      <3>6. CASE Reopened(r, id) \/ Paid(r, id)
        <4>1. PICK record : Logged(id, record)
          BY <3>6 DEF Reopened, Paid
        <4>2. requests[r].seen[id].status = "APPROVED"
              /\ id \in DOMAIN requests[r].seen
          BY <3>6, CommittingType DEF Reopened, Paid, Committing, Checked
        <4>3. QED
          BY <2>1, <2>2, <4>1, <4>2, ConsequenceOfApproval,
             ApprovedBeforeStep DEF Logged
      <3>7. QED
        BY <2>4, <3>1, <3>2, <3>3, <3>4, <3>5, <3>6 DEF Touched
    <2>5. QED
      BY <2>1, <2>3, <2>4, EntryStep
  <1>3. QED
    BY <1>1, <1>2, FoundationHolds, ApprovalKnownHolds, PTL DEF Spec

PaymentMatches(id) ==
    \/ rows[id].paid = None /\ Records(id, {"PAYMENT_LINKED"}) = {}
    \/ /\ rows[id].paid # None
       /\ \E k \in DOMAIN audit[id] :
             /\ Records(id, {"PAYMENT_LINKED"}) = {k}
             /\ audit[id][k].payment = rows[id].paid

\* A step that neither pays an entry nor records a payment of it.
LEMMA PaymentUntouched ==
    ASSUME Foundation, NEW id \in EntryIds, NEW record, Extended(id, record),
           record.action # "PAYMENT_LINKED", rows'[id].paid = rows[id].paid,
           PaymentMatches(id)
    PROVE  PaymentMatches(id)'
  <1>1. Records(id, {"PAYMENT_LINKED"})' = Records(id, {"PAYMENT_LINKED"})
    BY RecordsGrow DEF Foundation
  <1>2. \A k \in DOMAIN audit[id] : /\ k \in DOMAIN audit'[id]
                                    /\ audit'[id][k] = audit[id][k]
    BY TrailGrows DEF Foundation
  <1>3. QED
    BY <1>1, <1>2 DEF PaymentMatches

LEMMA PaymentMatchesStep ==
    ASSUME Foundation, NEW r \in Requests, NEW id \in EntryIds, Touched(r, id),
           id \in live', id \in live => PaymentMatches(id)
    PROVE  PaymentMatches(id)'
  <1>1. rows[id] \in Row /\ TypeOK
    BY DEF Foundation, TypeOK
  <1>2. CASE Born(r, id)
    <2>1. audit[id] = <<>> /\ rows[id].paid = None
      BY <1>2 DEF Born, Foundation, IdsAreFresh
    <2>2. Records(id, {"PAYMENT_LINKED"}) = {}
      BY <2>1 DEF Records
    <2>3. PICK claim \in Claim :
             /\ rows'[id] = Draft(claim)
             /\ Extended(id, Audit("CREATED", r, None, "DRAFT",
                                   Column(claim.hours), None))
      BY <1>2 DEF Born
    <2> DEFINE record == Audit("CREATED", r, None, "DRAFT",
                               Column(claim.hours), None)
    <2>4. record.action # "PAYMENT_LINKED"
      BY DEF Audit
    <2>5. rows'[id].paid = None
      BY <2>3 DEF Draft
    <2> HIDE DEF record
    <2>6. PaymentMatches(id)
      BY <2>1, <2>2 DEF PaymentMatches
    <2>7. QED
      BY <2>1, <2>3, <2>4, <2>5, <2>6, PaymentUntouched DEF record
  <1>3. CASE Rewritten(r, id)
    <2> DEFINE q == requests[r]
               record == Audit(EditAction(q, id), r, q.seen[id].status,
                               Rewrite(q, id).status,
                               Rewrite(q, id).value.hours, None)
    <2>1. Logged(id, record) /\ rows'[id].paid = rows[id].paid
      BY <1>3, RewriteFields DEF Rewritten
    <2>2. record.action # "PAYMENT_LINKED"
      BY DEF Audit, EditAction
    <2> HIDE DEF record
    <2>3. QED
      BY <2>1, <2>2, PaymentUntouched DEF Logged
  <1>4. CASE Submitted(r, id)
    <2> DEFINE record == Audit("SUBMITTED", r, requests[r].seen[id].status,
                               "SUBMITTED", rows[id].value.hours, None)
    <2>1. Logged(id, record) /\ rows'[id].paid = rows[id].paid
      BY <1>1, <1>4 DEF Submitted, Row
    <2>2. record.action # "PAYMENT_LINKED"
      BY DEF Audit
    <2> HIDE DEF record
    <2>3. QED
      BY <2>1, <2>2, PaymentUntouched DEF Logged
  <1>5. CASE Approved(r, id) \/ Echoed(r, id)
    <2> DEFINE record == Audit("APPROVED", r, "SUBMITTED", "APPROVED", None, None)
    <2>1. Logged(id, record) /\ rows'[id].paid = rows[id].paid
      BY <1>1, <1>5 DEF Approved, Echoed, Row
    <2>2. record.action # "PAYMENT_LINKED"
      BY DEF Audit
    <2> HIDE DEF record
    <2>3. QED
      BY <2>1, <2>2, PaymentUntouched DEF Logged
  <1>6. CASE Reopened(r, id)
    <2> DEFINE record == Audit("REOPENED", r, requests[r].seen[id].status,
                               "DRAFT", rows[id].value.hours, None)
    <2>1. Logged(id, record) /\ rows'[id].paid = rows[id].paid
      BY <1>1, <1>6 DEF Reopened, Row
    <2>2. record.action # "PAYMENT_LINKED"
      BY DEF Audit
    <2> HIDE DEF record
    <2>3. QED
      BY <2>1, <2>2, PaymentUntouched DEF Logged
  <1>7. CASE Paid(r, id)
    <2> DEFINE record == Audit("PAYMENT_LINKED", r, None, None,
                               requests[r].seen[id].value.hours,
                               requests[r].payment)
               n == Len(audit[id]) + 1
    <2>1. /\ Logged(id, record) /\ rows[id].paid = None
          /\ rows'[id].paid = requests[r].payment
          /\ requests[r].payment \in Payments
      BY <1>1, <1>7 DEF Paid, Row
    <2>2. /\ record.action \in {"PAYMENT_LINKED"}
          /\ record.payment = requests[r].payment
      BY DEF Audit
    <2> HIDE DEF record
    <2>3. Records(id, {"PAYMENT_LINKED"}) = {}
      BY <2>1 DEF Logged, PaymentMatches
    <2>4. Records(id, {"PAYMENT_LINKED"})' = {n}
      BY <1>1, <2>1, <2>2, <2>3, RecordsGrow DEF Logged
    <2>5. n \in DOMAIN audit'[id] /\ audit'[id][n] = record
      BY <1>1, <2>1, TrailGrows DEF Logged
    <2>6. rows'[id].paid # None
      BY <2>1, NullType
    <2> HIDE DEF n
    <2>7. QED
      BY <2>1, <2>2, <2>4, <2>5, <2>6 DEF PaymentMatches
  <1>8. CASE Gone(id)
    BY <1>8 DEF Gone
  <1>9. QED
    BY <1>2, <1>3, <1>4, <1>5, <1>6, <1>7, <1>8 DEF Touched

\* An entry carries the payment that its one payment record names, or neither.
THEOREM PaymentsRecordedOnce == Spec => []PaymentRecordedOnce
  <1>1. Init => PaymentRecordedOnce
    BY DEF Init, PaymentRecordedOnce
  <1>2. Foundation /\ PaymentRecordedOnce /\ [Next]_vars
            => PaymentRecordedOnce'
    <2> SUFFICES ASSUME Foundation, PaymentRecordedOnce, [Next]_vars,
                        NEW id \in live'
                 PROVE  PaymentMatches(id)'
      BY DEF PaymentRecordedOnce, PaymentMatches
    <2>1. id \in EntryIds
      <3>1. Foundation'
        BY FoundationStep
      <3>2. QED
        BY <3>1 DEF Foundation, TypeOK
    <2>2. id \in live => PaymentMatches(id)
      BY DEF PaymentRecordedOnce, PaymentMatches
    <2>3. CASE Kept(id)
      BY <2>2, <2>3, RecordsKept DEF Kept, PaymentMatches
    <2>4. ASSUME NEW r \in Requests, Touched(r, id)
          PROVE  PaymentMatches(id)'
      BY <2>1, <2>2, <2>4, PaymentMatchesStep
    <2>5. QED
      BY <2>1, <2>3, <2>4, EntryStep
  <1>3. QED
    BY <1>1, <1>2, FoundationHolds, PTL DEF Spec

-----------------------------------------------------------------------------
(* Ids *)

\* An entry id is its work date and its number.
LEMMA IdPair ==
    ASSUME NEW id \in EntryIds
    PROVE  id = <<DateOf(id), id[2]>>
  BY DEF EntryIds, DateOf

\* The ids a committing upsert issues are those of the entries it creates.
LEMMA UpsertIssues ==
    ASSUME Foundation, NEW r \in Requests, UpsertCommit(r), NEW id \in EntryIds
    PROVE  Issued(id)' <=> Issued(id) \/ id \in NewIds(requests[r])
  <1> DEFINE q == requests[r]
             d == DateOf(id)
  <1>1. /\ \A x \in NewDates(q) : incarnation[x] < MaxIncarnation
        /\ incarnation' = [x \in Dates |-> IF x \in NewDates(q)
                                           THEN incarnation[x] + 1
                                           ELSE incarnation[x]]
    BY DEF UpsertCommit
  <1>2. d \in Dates /\ id[2] \in 1 .. MaxIncarnation
    BY EntryIdType
  <1>3. incarnation[d] \in 0 .. MaxIncarnation
    BY <1>2 DEF Foundation, TypeOK
  <1>4. CASE d \notin NewDates(q)
    <2>1. incarnation'[d] = incarnation[d]
      BY <1>1, <1>2, <1>4
    <2>2. id \notin NewIds(q)
      BY <1>1, <1>4, NewIdsType
    <2>3. QED
      BY <2>1, <2>2 DEF Issued
  <1>5. CASE d \in NewDates(q)
    <2>1. incarnation'[d] = incarnation[d] + 1
      BY <1>1, <1>2, <1>5
    <2>2. id \in NewIds(q) <=> id[2] = incarnation[d] + 1
      <3>1. ASSUME id[2] = incarnation[d] + 1
            PROVE  id \in NewIds(q)
        BY <1>5, <3>1, IdPair DEF NewIds
      <3>2. QED
        BY <1>1, <3>1, NewIdsType
    <2>3. id[2] <= incarnation[d] + 1 <=>
             id[2] <= incarnation[d] \/ id[2] = incarnation[d] + 1
      BY <1>2, <1>3, BoundType
    <2>4. QED
      BY <2>1, <2>2, <2>3 DEF Issued
  <1>6. QED
    BY <1>4, <1>5

\* Any other step issues nothing.
LEMMA OthersIssueNothing ==
    ASSUME [Next]_vars, TypeOK, ~\E r \in Requests : UpsertCommit(r)
    PROVE  incarnation' = incarnation /\ live' \subseteq live
  <1>1. ASSUME NEW r \in Requests, Read(r)
        PROVE  incarnation' = incarnation /\ live' \subseteq live
    BY <1>1, ReadStep
  <1>2. ASSUME NEW r \in Requests, Commit(r) \/ Abort(r)
        PROVE  incarnation' = incarnation /\ live' \subseteq live
    BY <1>2 DEF Commit, SubmitCommit, DeleteCommit, ApproveCommit,
                ReopenCommit, LinkPaymentCommit, Abort
  <1>3. CASE AssignmentStatusChange \/ UNCHANGED vars
    BY <1>3 DEF AssignmentStatusChange, vars
  <1>4. ASSUME NEW r \in Requests, Approving(r)
        PROVE  incarnation' = incarnation /\ live' \subseteq live
    BY <1>4 DEF Approving, ApproveUpdate, ApproveFind
  <1>5. QED
    BY <1>1, <1>2, <1>3, <1>4 DEF Next

\* An id becomes issued exactly when its entry is created.
LEMMA IssuedStep ==
    ASSUME Foundation, [Next]_vars, NEW id \in EntryIds
    PROVE  Issued(id)' <=> Issued(id) \/ id \in live'
  <1>1. id \in live => Issued(id)
    BY DEF Foundation, IdsAreFresh
  <1>2. ASSUME NEW r \in Requests, UpsertCommit(r)
        PROVE  Issued(id)' <=> Issued(id) \/ id \in live'
    <2>1. live' = live \union NewIds(requests[r])
      BY <1>2 DEF UpsertCommit
    <2>2. QED
      BY <1>1, <1>2, <2>1, UpsertIssues
  <1>3. CASE ~\E r \in Requests : UpsertCommit(r)
    BY <1>1, <1>3, OthersIssueNothing DEF Foundation, Issued
  <1>4. QED
    BY <1>2, <1>3

-----------------------------------------------------------------------------
(* Deletions *)

DeletionsOf(id) == {d \in deletions : d.entry = id}
DeletionCounted(id) ==
    IF id \notin live /\ Issued(id)
    THEN audit[id] = <<>> /\ \E d \in DeletionsOf(id) : DeletionsOf(id) = {d}
    ELSE DeletionsOf(id) = {}

\* A step records the deletion of an entry it removes, and of no other.
LEMMA DeletionStep ==
    ASSUME Foundation, [Next]_vars, NEW id \in EntryIds
    PROVE  IF id \in live /\ id \notin live'
           THEN \E d : DeletionsOf(id)' = DeletionsOf(id) \union {d}
           ELSE DeletionsOf(id)' = DeletionsOf(id)
  <1>1. ASSUME NEW r \in Requests, DeleteCommit(r)
        PROVE  IF id \in live /\ id \notin live'
               THEN \E d : DeletionsOf(id)' = DeletionsOf(id) \union {d}
               ELSE DeletionsOf(id)' = DeletionsOf(id)
    <2> DEFINE ids == DOMAIN requests[r].seen
               record(i) == [entry |-> i, actor |-> r,
                             value |-> requests[r].seen[i].value]
    <2>1. /\ \A i \in ids : i \in live
          /\ live' = live \ ids
          /\ deletions' = deletions \union {record(i) : i \in ids}
      BY <1>1 DEF DeleteCommit, Deletable
    <2>2. \A i \in ids : record(i).entry = i
      OBVIOUS
    <2> HIDE DEF record
    <2>3. CASE id \in ids
      <3>1. DeletionsOf(id)' = DeletionsOf(id) \union {record(id)}
        BY <2>1, <2>2, <2>3 DEF DeletionsOf
      <3>2. QED
        BY <2>1, <2>3, <3>1
    <2>4. CASE id \notin ids
      <3>1. DeletionsOf(id)' = DeletionsOf(id)
        BY <2>1, <2>2, <2>4 DEF DeletionsOf
      <3>2. QED
        BY <2>1, <2>4, <3>1
    <2>5. QED
      BY <2>3, <2>4
  <1>2. CASE ~\E r \in Requests : DeleteCommit(r)
    <2>1. ASSUME NEW r \in Requests, Read(r)
          PROVE  deletions' = deletions /\ live' = live
      BY <2>1, ReadStep DEF Foundation
    <2>2. ASSUME NEW r \in Requests, Commit(r) \/ Abort(r)
          PROVE  deletions' = deletions /\ live \subseteq live'
      BY <1>2, <2>2 DEF Commit, UpsertCommit, SubmitCommit, ApproveCommit,
                        ReopenCommit, LinkPaymentCommit, Abort
    <2>3. CASE AssignmentStatusChange \/ UNCHANGED vars
      BY <2>3 DEF AssignmentStatusChange, vars, DeletionsOf
    <2>4. ASSUME NEW r \in Requests, Approving(r)
          PROVE  deletions' = deletions /\ live' = live
      BY <2>4 DEF Approving, ApproveUpdate, ApproveFind
    <2>5. QED
      BY <2>1, <2>2, <2>3, <2>4 DEF Next, DeletionsOf
  <1>3. QED
    BY <1>1, <1>2

\* An entry that is gone has exactly one DELETED record and no others; an
\* entry that is there, or never was, has none.
THEOREM DeletionsRecordedOnce == Spec => []DeletionRecordedOnce
  <1>1. Init => DeletionRecordedOnce
    <2> SUFFICES ASSUME Init, NEW id \in EntryIds
                 PROVE  ~Issued(id) /\ deletions = {}
      BY DEF DeletionRecordedOnce
    <2>1. incarnation[DateOf(id)] = 0 /\ id[2] \in 1 .. MaxIncarnation
      BY EntryIdType DEF Init
    <2>2. QED
      BY <2>1, BoundType DEF Init, Issued
  <1>2. Foundation /\ DeletionRecordedOnce /\ [Next]_vars
            => DeletionRecordedOnce'
    <2> SUFFICES ASSUME Foundation, DeletionRecordedOnce, [Next]_vars,
                        NEW id \in EntryIds
                 PROVE  DeletionCounted(id)'
      BY DEF DeletionRecordedOnce, DeletionCounted, DeletionsOf
    <2>1. DeletionCounted(id)
      BY DEF DeletionRecordedOnce, DeletionCounted, DeletionsOf
    <2>2. Foundation'
      BY FoundationStep
    <2>3. /\ id \in live => Issued(id)
          /\ id \in live' => Issued(id)'
          /\ id \notin live' => audit'[id] = <<>>
      BY <2>2 DEF Foundation, IdsAreFresh
    <2>4. Issued(id)' <=> Issued(id) \/ id \in live'
      BY IssuedStep
    <2>5. CASE id \in live /\ id \notin live'
      <3>1. PICK d : DeletionsOf(id)' = DeletionsOf(id) \union {d}
        BY <2>5, DeletionStep
      <3>2. DeletionsOf(id) = {}
        BY <2>1, <2>5 DEF DeletionCounted
      <3>3. QED
        BY <2>3, <2>4, <2>5, <3>1, <3>2 DEF DeletionCounted
    <2>6. CASE ~(id \in live /\ id \notin live')
      <3>1. DeletionsOf(id)' = DeletionsOf(id)
        BY <2>6, DeletionStep
      <3>2. CASE id \in live'
        <4>1. id \in live \/ ~Issued(id)
          <5>1. CASE Kept(id)
            BY <3>2, <5>1 DEF Kept
          <5>2. ASSUME NEW r \in Requests, Touched(r, id)
                PROVE  id \in live \/ ~Issued(id)
            BY <3>2, <5>2 DEF Touched, Born, Gone, Rewritten, Submitted,
                              Approved, Echoed, Reopened, Paid, Logged
          <5>3. QED
            BY <5>1, <5>2, EntryStep
        <4>2. QED
          BY <2>1, <3>1, <3>2, <4>1 DEF DeletionCounted
      <3>3. CASE id \notin live'
        BY <2>1, <2>3, <2>4, <2>6, <3>1, <3>3 DEF DeletionCounted
      <3>4. QED
        BY <3>2, <3>3
    <2>7. QED
      BY <2>5, <2>6
  <1>3. QED
    BY <1>1, <1>2, FoundationHolds, PTL DEF Spec

-----------------------------------------------------------------------------
(* The refinement *)

\* What most steps do to an entry, as the ledger sees it: nothing.
Quiet(id) == /\ Records(id, {"APPROVED"})' = Records(id, {"APPROVED"})
             /\ rows'[id].paid = rows[id].paid

LEMMA KeptIsQuiet ==
    ASSUME NEW id, Kept(id)
    PROVE  Quiet(id)
  BY RecordsKept DEF Kept, Quiet

LEMMA ExtensionIsQuiet ==
    ASSUME Foundation, NEW id \in EntryIds, NEW record, Extended(id, record),
           record.action # "APPROVED"
    PROVE  Records(id, {"APPROVED"})' = Records(id, {"APPROVED"})
  <1>1. record.action \notin {"APPROVED"}
    OBVIOUS
  <1>2. QED
    BY <1>1, RecordsGrow DEF Foundation

LEMMA BornIsQuiet ==
    ASSUME Foundation, NEW r \in Requests, NEW id \in EntryIds, Born(r, id)
    PROVE  Quiet(id)
  <1>1. PICK claim \in Claim :
           /\ rows'[id] = Draft(claim)
           /\ Extended(id, Audit("CREATED", r, None, "DRAFT",
                                 Column(claim.hours), None))
    BY DEF Born
  <1>2. rows[id].paid = None /\ rows'[id].paid = None
    BY <1>1 DEF Born, Foundation, IdsAreFresh, Draft
  <1>3. Audit("CREATED", r, None, "DRAFT", Column(claim.hours), None).action
            # "APPROVED"
    BY DEF Audit
  <1>4. QED
    BY <1>1, <1>2, <1>3, ExtensionIsQuiet DEF Quiet

LEMMA RewrittenIsQuiet ==
    ASSUME Foundation, NEW r \in Requests, NEW id \in EntryIds, Rewritten(r, id)
    PROVE  Quiet(id)
  <1> DEFINE q == requests[r]
             record == Audit(EditAction(q, id), r, q.seen[id].status,
                             Rewrite(q, id).status,
                             Rewrite(q, id).value.hours, None)
  <1>1. Extended(id, record) /\ rows'[id].paid = rows[id].paid
    BY RewriteFields DEF Rewritten, Logged
  <1>2. record.action # "APPROVED"
    BY DEF Audit, EditAction
  <1> HIDE DEF record
  <1>3. QED
    BY <1>1, <1>2, ExtensionIsQuiet DEF Quiet

LEMMA SubmittedIsQuiet ==
    ASSUME Foundation, NEW r \in Requests, NEW id \in EntryIds, Submitted(r, id)
    PROVE  Quiet(id)
  <1> DEFINE record == Audit("SUBMITTED", r, requests[r].seen[id].status,
                             "SUBMITTED", rows[id].value.hours, None)
  <1>1. Extended(id, record) /\ rows'[id].paid = rows[id].paid
    BY DEF Submitted, Logged, Foundation, TypeOK, Row
  <1>2. record.action # "APPROVED"
    BY DEF Audit
  <1> HIDE DEF record
  <1>3. QED
    BY <1>1, <1>2, ExtensionIsQuiet DEF Quiet

LEMMA ReopenedIsQuiet ==
    ASSUME Foundation, NEW r \in Requests, NEW id \in EntryIds, Reopened(r, id)
    PROVE  Quiet(id)
  <1> DEFINE record == Audit("REOPENED", r, requests[r].seen[id].status,
                             "DRAFT", rows[id].value.hours, None)
  <1>1. Extended(id, record) /\ rows'[id].paid = rows[id].paid
    BY DEF Reopened, Logged, Foundation, TypeOK, Row
  <1>2. record.action # "APPROVED"
    BY DEF Audit
  <1> HIDE DEF record
  <1>3. QED
    BY <1>1, <1>2, ExtensionIsQuiet DEF Quiet

\* The ledger does not move when no entry does.
LEMMA LedgerUnchanged ==
    ASSUME live' = live, incarnation' = incarnation,
           \A id \in EntryIds : Quiet(id), TypeOK
    PROVE  UNCHANGED Ledger!ledger
  <1>1. Retired' = Retired
    BY DEF Retired, Issued
  <1>2. Endorsed' = Endorsed
    BY DEF Endorsed, Quiet, TypeOK
  <1>3. [id \in EntryIds |-> rows[id].paid]' = [id \in EntryIds |-> rows[id].paid]
    BY DEF Quiet
  <1>4. QED
    BY <1>1, <1>2, <1>3 DEF Ledger!ledger

LEMMA UpsertLogs ==
    ASSUME Foundation, NEW r \in Requests, UpsertCommit(r)
    PROVE  Ledger!Log(NewIds(requests[r]))
  <1> DEFINE new == NewIds(requests[r])
  <1>1. live' = live \union new
    BY DEF UpsertCommit
  <1>2. new \in SUBSET EntryIds /\ \A id \in new : ~Issued(id)
    BY NewIdsType DEF UpsertCommit
  <1>3. \A id \in live : Issued(id)
    BY DEF Foundation, IdsAreFresh
  <1>4. \A id \in EntryIds : Issued(id)' <=> Issued(id) \/ id \in new
    BY UpsertIssues
  <1>5. ASSUME NEW id \in EntryIds
        PROVE  Quiet(id)
    BY UpsertEffect, KeptIsQuiet, BornIsQuiet, RewrittenIsQuiet
  <1> HIDE DEF new
  <1>6. new \intersect (live \union Retired) = {}
    BY <1>2, <1>3 DEF Retired
  <1>7. Retired' = Retired
    BY <1>1, <1>2, <1>4 DEF Retired
  <1>8. Endorsed' = Endorsed
    <2>1. ASSUME NEW id \in new
          PROVE  Records(id, {"APPROVED"})' = {}
      <3>1. id \in EntryIds /\ id \notin live
        BY <1>2, <1>3
      <3>2. audit[id] = <<>>
        BY <3>1 DEF Foundation, IdsAreFresh
      <3>3. Records(id, {"APPROVED"}) = {}
        BY <3>2 DEF Records
      <3>4. QED
        BY <1>5, <3>1, <3>3 DEF Quiet
    <2>2. \A id \in live : Records(id, {"APPROVED"})' = Records(id, {"APPROVED"})
      BY <1>5 DEF Quiet, Foundation, TypeOK
    <2>3. QED
      BY <1>1, <2>1, <2>2 DEF Endorsed
  <1>9. [id \in EntryIds |-> rows[id].paid]' = [id \in EntryIds |-> rows[id].paid]
    BY <1>5 DEF Quiet
  <1>10. QED
    BY <1>1, <1>6, <1>7, <1>8, <1>9 DEF Ledger!Log, new

LEMMA ApproveEndorses ==
    ASSUME Foundation, NEW r \in Requests, ApproveCommit(r)
    PROVE  Ledger!Endorse(Endorsed')
  <1>1. live' = live /\ incarnation' = incarnation
    BY DEF ApproveCommit
  <1>2. ASSUME NEW id \in EntryIds
        PROVE  /\ rows'[id].paid = rows[id].paid
               /\ Records(id, {"APPROVED"}) # {} => Records(id, {"APPROVED"})' # {}
    <2>1. CASE Kept(id)
      BY <2>1, KeptIsQuiet DEF Quiet
    <2>2. CASE Approved(r, id) \/ Echoed(r, id)
      <3>1. Records(id, {"APPROVED"})' # {}
        BY <2>2, ApprovedLeavesRecord DEF ApprovalOnTrail
      <3>2. rows'[id].paid = rows[id].paid
        BY <2>2 DEF Approved, Echoed, Foundation, TypeOK, Row
      <3>3. QED
        BY <3>1, <3>2
    <2>3. QED
      BY <2>1, <2>2, ApproveEffect
  <1>3. Endorsed' = Endorsed \union Endorsed'
    BY <1>1, <1>2 DEF Endorsed, Foundation, TypeOK
  <1>4. Retired' = Retired
    BY <1>1 DEF Retired, Issued
  <1>5. [id \in EntryIds |-> rows[id].paid]' = [id \in EntryIds |-> rows[id].paid]
    BY <1>2
  <1>6. Endorsed' \subseteq live
    BY <1>1 DEF Endorsed
  <1>7. QED
    BY <1>1, <1>3, <1>4, <1>5, <1>6 DEF Ledger!Endorse

LEMMA DeleteDiscards ==
    ASSUME Foundation, NEW r \in Requests, DeleteCommit(r)
    PROVE  Ledger!Discard(DOMAIN requests[r].seen)
  <1> DEFINE ids == DOMAIN requests[r].seen
  <1>1. /\ \A id \in ids : Deletable(id)
        /\ live' = live \ ids
        /\ rows' = rows /\ incarnation' = incarnation
        /\ audit' = [id \in EntryIds |-> IF id \in ids THEN <<>> ELSE audit[id]]
    BY DEF DeleteCommit
  <1>2. ids \subseteq live /\ ids \subseteq EntryIds
    BY <1>1 DEF Deletable, Foundation, TypeOK
  <1>3. \A id \in ids : rows[id].paid = None
    BY <1>1 DEF Deletable
  <1> HIDE DEF ids
  <1>4. Endorsed' = Endorsed \ ids
    <2>1. ASSUME NEW id \in live, id \notin ids
          PROVE  Records(id, {"APPROVED"})' = Records(id, {"APPROVED"})
      <3>1. audit'[id] = audit[id]
        BY <1>1, <2>1 DEF Foundation, TypeOK
      <3>2. QED
        BY <3>1, RecordsKept
    <2>2. QED
      BY <1>1, <2>1 DEF Endorsed
  <1>5. Retired' = Retired \union ids
    BY <1>1, <1>2 DEF Retired, Issued, Foundation, IdsAreFresh
  <1>6. \A id \in ids : [i \in EntryIds |-> rows[i].paid][id] = None
    BY <1>2, <1>3
  <1>7. QED
    BY <1>1, <1>2, <1>4, <1>5, <1>6 DEF Ledger!Discard, Ledger!Unpaid, ids

LEMMA PaymentConsumes ==
    ASSUME Foundation, ApprovalKnown, NEW r \in Requests, LinkPaymentCommit(r)
    PROVE  Ledger!Pay(DOMAIN requests[r].seen)
  <1> DEFINE q == requests[r]
             ids == DOMAIN q.seen
  <1>1. /\ Committing(r, "linkPayment")
        /\ \A id \in ids : Linkable(id)
        /\ live' = live /\ incarnation' = incarnation
        /\ rows' = [id \in EntryIds |->
                       IF id \in ids THEN [rows[id] EXCEPT !.paid = q.payment]
                                     ELSE rows[id]]
    BY DEF LinkPaymentCommit
  <1>2. ids \subseteq EntryIds
    BY CommittingType
  <1>3. /\ q.payment \in Payments
        /\ \A id \in ids : q.seen[id].status = "APPROVED"
    BY <1>1, CommittingType DEF Committing, Checked
  <1>4. ids \subseteq Endorsed
    BY <1>1, <1>3, ConsequenceOfApproval DEF Linkable, Endorsed
  <1>5. \A id \in ids : [i \in EntryIds |-> rows[i].paid][id] = None
    BY <1>1, <1>2 DEF Linkable
  <1>6. [i \in EntryIds |-> rows[i].paid]' =
            [i \in EntryIds |-> IF i \in ids
                                THEN q.payment
                                ELSE [j \in EntryIds |-> rows[j].paid][i]]
    <2>1. ASSUME NEW i \in EntryIds
          PROVE  rows'[i].paid = IF i \in ids THEN q.payment ELSE rows[i].paid
      <3>1. rows[i] \in Row
        BY DEF Foundation, TypeOK
      <3>2. [rows[i] EXCEPT !.paid = q.payment].paid = q.payment
        BY <3>1 DEF Row
      <3>3. QED
        BY <1>1, <3>2
    <2>2. QED
      BY <2>1
  <1>7. Endorsed' = Endorsed
    <2>1. ASSUME NEW id \in live
          PROVE  Records(id, {"APPROVED"})' = Records(id, {"APPROVED"})
      <3>1. id \in EntryIds
        BY DEF Foundation, TypeOK
      <3>2. CASE Kept(id)
        BY <3>2, RecordsKept DEF Kept
      <3>3. CASE Paid(r, id)
        <4> DEFINE record == Audit("PAYMENT_LINKED", r, None, None,
                                   q.seen[id].value.hours, q.payment)
        <4>1. Extended(id, record)
          BY <3>3 DEF Paid, Logged
        <4>2. record.action # "APPROVED"
          BY DEF Audit
        <4> HIDE DEF record
        <4>3. QED
          BY <3>1, <4>1, <4>2, ExtensionIsQuiet
      <3>4. QED
        BY <3>1, <3>2, <3>3, PaymentEffect
    <2>2. QED
      BY <1>1, <2>1 DEF Endorsed
  <1>8. Retired' = Retired
    BY <1>1 DEF Retired, Issued
  <1> DEFINE payment == q.payment
  <1> HIDE DEF q, ids, payment
  <1>9. /\ payment \in Payments
        /\ ids \subseteq Endorsed
        /\ [i \in EntryIds |-> rows[i].paid]' =
               [i \in EntryIds |-> IF i \in ids
                                   THEN payment
                                   ELSE [j \in EntryIds |-> rows[j].paid][i]]
    BY <1>3, <1>4, <1>6 DEF payment
  <1>10. Ledger!Pay(ids)
    BY <1>1, <1>5, <1>7, <1>8, <1>9
       DEF Ledger!Pay, Ledger!Consume, Ledger!Unpaid
  <1>11. QED
    BY <1>10 DEF ids, q

LEMMA LedgerStep ==
    Foundation /\ ApprovalKnown /\ [Next]_vars
        => [Ledger!Next]_(Ledger!ledger)
  <1> SUFFICES ASSUME Foundation, ApprovalKnown, [Next]_vars
               PROVE  [Ledger!Next]_(Ledger!ledger)
    OBVIOUS
  <1>1. TypeOK
    BY DEF Foundation
  <1>2. ASSUME UNCHANGED <<live, incarnation, rows, audit>>
        PROVE  UNCHANGED Ledger!ledger
    <2>1. \A id \in EntryIds : Quiet(id)
      BY <1>2, KeptIsQuiet DEF Kept
    <2>2. QED
      BY <1>1, <1>2, <2>1, LedgerUnchanged
  <1>3. ASSUME NEW r \in Requests, UpsertCommit(r)
        PROVE  Ledger!Next
    <2>1. NewIds(requests[r]) \in SUBSET EntryIds
      BY <1>3, NewIdsType DEF UpsertCommit
    <2>2. QED
      BY <1>3, <2>1, UpsertLogs DEF Ledger!Next
  <1>4. ASSUME NEW r \in Requests, ApproveCommit(r)
        PROVE  Ledger!Next
    <2>1. Endorsed' \in SUBSET EntryIds
      BY <1>1, <1>4 DEF Endorsed, ApproveCommit, TypeOK
    <2>2. QED
      BY <1>4, <2>1, ApproveEndorses DEF Ledger!Next
  <1>5. ASSUME NEW r \in Requests, DeleteCommit(r)
        PROVE  Ledger!Next
    <2>1. DOMAIN requests[r].seen \in SUBSET EntryIds
      BY CommittingType
    <2>2. QED
      BY <1>5, <2>1, DeleteDiscards DEF Ledger!Next
  <1>6. ASSUME NEW r \in Requests, LinkPaymentCommit(r)
        PROVE  Ledger!Next
    <2>1. DOMAIN requests[r].seen \in SUBSET EntryIds
      BY CommittingType
    <2>2. Ledger!Pay(DOMAIN requests[r].seen)
      BY <1>6, PaymentConsumes
    <2>3. QED
      BY <2>1, <2>2 DEF Ledger!Next
  <1>7. ASSUME NEW r \in Requests, SubmitCommit(r)
        PROVE  UNCHANGED Ledger!ledger
    <2>1. \A id \in EntryIds : Quiet(id)
      BY <1>7, SubmitEffect, KeptIsQuiet, SubmittedIsQuiet
    <2>2. QED
      BY <1>1, <1>7, <2>1, LedgerUnchanged DEF SubmitCommit
  <1>8. ASSUME NEW r \in Requests, ReopenCommit(r)
        PROVE  UNCHANGED Ledger!ledger
    <2>1. \A id \in EntryIds : Quiet(id)
      BY <1>8, ReopenEffect, KeptIsQuiet, ReopenedIsQuiet
    <2>2. QED
      BY <1>1, <1>8, <2>1, LedgerUnchanged DEF ReopenCommit
  <1>9. ASSUME NEW r \in Requests, Read(r) \/ Abort(r)
        PROVE  UNCHANGED <<live, incarnation, rows, audit>>
    BY <1>1, <1>9, ReadStep DEF Abort
  <1>10. CASE AssignmentStatusChange \/ UNCHANGED vars
    BY <1>2, <1>10 DEF AssignmentStatusChange, vars
  <1>11. ASSUME NEW r \in Requests, Approving(r)
         PROVE  UNCHANGED <<live, incarnation, rows, audit>>
    BY <1>11 DEF Approving, ApproveUpdate, ApproveFind
  <1>12. QED
    BY <1>2, <1>3, <1>4, <1>5, <1>6, <1>7, <1>8, <1>9, <1>10, <1>11
       DEF Next, Commit

\* Payments consume approved entries, once and for good, in whole batches, and
\* a paid entry is never deleted, whatever the requests interleave.
THEOREM PaymentsSafe == Spec => PaymentsAreSafe
  <1>1. Init => Ledger!Init
    <2> SUFFICES ASSUME Init PROVE Ledger!Init
      OBVIOUS
    <2>1. Retired = {}
      <3>1. ASSUME NEW id \in EntryIds PROVE ~Issued(id)
        <4>1. incarnation[DateOf(id)] = 0 /\ id[2] \in 1 .. MaxIncarnation
          BY EntryIdType DEF Init
        <4>2. QED
          BY <4>1, BoundType DEF Issued
      <3>2. QED
        BY <3>1 DEF Retired
    <2>2. \A id \in EntryIds : rows[id].paid = None
      BY DEF Init, Draft
    <2>3. live = {} /\ Endorsed = {}
      BY DEF Init, Endorsed
    <2>4. QED
      BY <2>1, <2>2, <2>3 DEF Ledger!Init
  <1>2. QED
    BY <1>1, LedgerStep, FoundationHolds, ApprovalKnownHolds, PTL
       DEF Spec, PaymentsAreSafe, Ledger!Spec

-----------------------------------------------------------------------------
(* Whose approvals a trail holds *)

\* The trail holds an approval of the given instant.
Signed(id, at) == \E k \in Records(id, {"APPROVED"}) :
                     requests[audit[id][k].actor].at = at

\* Whoever approved is done; an approved row's approval is on its trail, with
\* its instant; and so is the approval that an echo repeats, while the entry is
\* there.
ApprovalsSigned ==
    /\ \A id \in live : \A k \in Records(id, {"APPROVED"}) :
          requests[audit[id][k].actor].phase = "done"
    /\ \A id \in live : rows[id].status = "APPROVED" =>
          Signed(id, rows[id].approvedAt)
    /\ \A r \in Requests : \A id \in requests[r].echoes :
          Issued(id) /\ (id \in live => Signed(id, requests[r].at))

\* A request that is done takes no step.
LEMMA DoneStays ==
    ASSUME Foundation, [Next]_vars, NEW x \in Requests, requests[x].phase = "done"
    PROVE  requests'[x] = requests[x]
  <1>1. ASSUME NEW r \in Requests, Read(r) PROVE requests'[x] = requests[x]
    BY <1>1, ReadStep DEF Foundation
  <1>2. ASSUME NEW r \in Requests, Approving(r) PROVE requests'[x] = requests[x]
    BY <1>2, UpdateStep, FindStep DEF Approving, Advances, Foundation
  <1>3. ASSUME NEW r \in Requests, Commit(r) \/ Abort(r)
        PROVE  requests'[x] = requests[x]
    <2>1. Finish(r) /\ requests[r].phase # "done"
      BY <1>3 DEF Commit, UpsertCommit, SubmitCommit, DeleteCommit,
                  ApproveCommit, ReopenCommit, LinkPaymentCommit, Abort,
                  Committing
    <2>2. QED
      BY <2>1, FinishEffect DEF Foundation
  <1>4. CASE AssignmentStatusChange \/ UNCHANGED vars
    BY <1>4 DEF AssignmentStatusChange, vars
  <1>5. QED
    BY <1>1, <1>2, <1>3, <1>4 DEF Next

\* An entry that is there after a step was there, or is born.
LEMMA Survivor ==
    ASSUME Foundation, [Next]_vars, NEW id \in EntryIds, id \in live'
    PROVE  \/ id \in live
           \/ id \notin live /\ ~Issued(id) /\ \E r \in Requests : Born(r, id)
  <1>1. CASE Kept(id)
    BY <1>1 DEF Kept
  <1>2. ASSUME NEW r \in Requests, Touched(r, id), ~Born(r, id)
        PROVE  id \in live
    BY <1>2 DEF Touched, Gone, Rewritten, Submitted, Approved, Echoed,
                Reopened, Paid, Logged
  <1>3. QED
    BY <1>1, <1>2, EntryStep DEF Born

\* The approvals on the trail of a surviving entry stay where they are, and say
\* what they said.
LEMMA SignaturesStay ==
    ASSUME Foundation, ApprovalsSigned, [Next]_vars, NEW id \in live,
           id \in live', NEW k \in Records(id, {"APPROVED"})
    PROVE  /\ k \in Records(id, {"APPROVED"})'
           /\ audit'[id][k] = audit[id][k]
           /\ audit[id][k].actor \in Requests
           /\ requests'[audit[id][k].actor] = requests[audit[id][k].actor]
  <1>1. id \in EntryIds /\ TypeOK /\ audit[id] \in Seq(AuditRecord)
    BY DEF Foundation, TypeOK
  <1>2. k \in DOMAIN audit[id] /\ audit[id][k] \in AuditRecord
    BY <1>1 DEF Records
  <1>3. audit[id][k].actor \in Requests
    BY <1>2 DEF AuditRecord
  <1>4. requests'[audit[id][k].actor] = requests[audit[id][k].actor]
    BY <1>3, DoneStays DEF ApprovalsSigned
  <1>5. k \in Records(id, {"APPROVED"})' /\ audit'[id][k] = audit[id][k]
    <2>1. CASE Kept(id)
      BY <2>1, RecordsKept DEF Kept
    <2>2. ASSUME NEW record, Extended(id, record)
          PROVE  k \in Records(id, {"APPROVED"})' /\ audit'[id][k] = audit[id][k]
      <3>1. k \in Records(id, {"APPROVED"})'
        BY <1>1, <2>2, RecordsGrow
      <3>2. audit'[id][k] = audit[id][k]
        BY <1>1, <1>2, <2>2, TrailGrows
      <3>3. QED
        BY <3>1, <3>2
    <2>3. ASSUME NEW r \in Requests, Touched(r, id)
          PROVE  \E record : Extended(id, record)
      BY <2>3 DEF Touched, Born, Gone, Rewritten, Submitted, Approved, Echoed,
                  Reopened, Paid, Logged
    <2>4. QED
      BY <1>1, <2>1, <2>2, <2>3, EntryStep
  <1>6. QED
    BY <1>3, <1>4, <1>5

LEMMA SignedStays ==
    ASSUME Foundation, ApprovalsSigned, [Next]_vars, NEW id \in live,
           id \in live', NEW at, Signed(id, at)
    PROVE  Signed(id, at)'
  <1>1. PICK k \in Records(id, {"APPROVED"}) :
           requests[audit[id][k].actor].at = at
    BY DEF Signed
  <1>2. /\ k \in Records(id, {"APPROVED"})'
        /\ audit'[id][k] = audit[id][k]
        /\ requests'[audit[id][k].actor] = requests[audit[id][k].actor]
    BY <1>1, SignaturesStay
  <1>3. requests'[audit'[id][k].actor].at = at
    BY <1>1, <1>2
  <1>4. QED
    BY <1>2, <1>3 DEF Signed

\* The record of an approval, its own or an echo, is by the request that has
\* just committed.
LEMMA SignatureAdded ==
    ASSUME Foundation, NEW r \in Requests, NEW id \in EntryIds,
           Approved(r, id) \/ Echoed(r, id)
    PROVE  LET n == Len(audit[id]) + 1
           IN  /\ Records(id, {"APPROVED"})' = Records(id, {"APPROVED"}) \union {n}
               /\ audit'[id][n].actor = r
               /\ requests'[r].phase = "done"
               /\ requests'[r].at = requests[r].at
  <1> DEFINE record == Audit("APPROVED", r, "SUBMITTED", "APPROVED", None, None)
  <1>1. Extended(id, record) /\ Finish(r)
    BY DEF Approved, Echoed, Logged
  <1>2. record.action \in {"APPROVED"} /\ record.actor = r
    BY DEF Audit
  <1> HIDE DEF record
  <1>3. Records(id, {"APPROVED"})' =
            Records(id, {"APPROVED"}) \union {Len(audit[id]) + 1}
    BY <1>1, <1>2, RecordsGrow DEF Foundation
  <1>4. audit'[id][Len(audit[id]) + 1] = record
    BY <1>1, TrailGrows DEF Foundation
  <1>5. QED
    BY <1>1, <1>2, <1>3, <1>4, FinishEffect DEF Foundation

\* A row is approved after a step because it was, at the same instant, or
\* because an approval wrote it.
LEMMA ApprovedRow ==
    ASSUME Foundation, [Next]_vars, NEW id \in EntryIds, id \in live',
           rows'[id].status = "APPROVED"
    PROVE  \/ /\ id \in live /\ rows[id].status = "APPROVED"
              /\ rows'[id].approvedAt = rows[id].approvedAt
           \/ \E r \in Requests : Approved(r, id)
  <1>1. rows[id] \in Row
    BY DEF Foundation, TypeOK
  <1>2. CASE Kept(id)
    BY <1>2 DEF Kept
  <1>3. ASSUME NEW r \in Requests, Touched(r, id)
        PROVE  \/ /\ id \in live /\ rows[id].status = "APPROVED"
                  /\ rows'[id].approvedAt = rows[id].approvedAt
               \/ Approved(r, id)
    <2>1. CASE Born(r, id)
      BY <2>1 DEF Born, Draft
    <2>2. CASE Gone(id)
      BY <2>2 DEF Gone
    <2>3. CASE Rewritten(r, id)
      BY <2>3, RewriteFields DEF Rewritten, Logged
    <2>4. CASE Submitted(r, id)
      BY <1>1, <2>4 DEF Submitted, Row
    <2>5. CASE Echoed(r, id)
      BY <2>5 DEF Echoed, Logged
    <2>6. CASE Reopened(r, id)
      BY <1>1, <2>6 DEF Reopened, Row
    <2>7. CASE Paid(r, id)
      BY <1>1, <2>7 DEF Paid, Logged, Row
    <2>8. QED
      BY <1>3, <2>1, <2>2, <2>3, <2>4, <2>5, <2>6, <2>7 DEF Touched
  <1>4. QED
    BY <1>2, <1>3, EntryStep

\* What an approval holds as echoes: what it held, or rows it has just found
\* approved at its instant.
LEMMA EchoStep ==
    ASSUME Foundation, [Next]_vars, NEW x \in Requests,
           NEW id \in requests'[x].echoes
    PROVE  \/ /\ id \in requests[x].echoes
              /\ requests'[x].at = requests[x].at
           \/ /\ id \in live
              /\ rows[id].status = "APPROVED"
              /\ rows[id].approvedAt = requests'[x].at
              /\ UNCHANGED <<live, rows, audit, incarnation>>
  <1>1. ASSUME NEW r \in Requests, Read(r)
        PROVE  requests'[x] = requests[x]
    BY <1>1, ReadStep DEF Foundation
  <1>2. ASSUME NEW r \in Requests, Commit(r) \/ Abort(r)
        PROVE  requests'[x] = requests[x]
    <2>1. Finish(r)
      BY <1>2 DEF Commit, UpsertCommit, SubmitCommit, DeleteCommit,
                  ApproveCommit, ReopenCommit, LinkPaymentCommit, Abort
    <2>2. QED
      BY <2>1, FinishEffect DEF Foundation
  <1>3. ASSUME NEW r \in Requests, ApproveUpdate(r)
        PROVE  id \in requests[x].echoes /\ requests'[x].at = requests[x].at
    BY <1>3, UpdateStep DEF Advances, Foundation
  <1>4. ASSUME NEW r \in Requests, ApproveFind(r), x # r
        PROVE  requests'[x] = requests[x]
    BY <1>4, FindStep DEF Advances, Foundation
  <1>5. ASSUME ApproveFind(x)
        PROVE  /\ id \in live
               /\ rows[id].status = "APPROVED"
               /\ rows[id].approvedAt = requests'[x].at
               /\ UNCHANGED <<live, rows, audit, incarnation>>
    BY <1>5, FindStep DEF Advances, Foundation
  <1>6. CASE AssignmentStatusChange \/ UNCHANGED vars
    BY <1>6 DEF AssignmentStatusChange, vars
  <1>7. QED
    BY <1>1, <1>2, <1>3, <1>4, <1>5, <1>6 DEF Next, Approving

LEMMA ApprovalsSignedStep ==
    Foundation /\ ApprovalsSigned /\ [Next]_vars => ApprovalsSigned'
  <1> SUFFICES ASSUME Foundation, ApprovalsSigned, [Next]_vars
               PROVE  ApprovalsSigned'
    OBVIOUS
  <1>1. Foundation'
    BY FoundationStep
  <1>2. ASSUME NEW id \in live', NEW k \in Records(id, {"APPROVED"})'
        PROVE  requests'[audit'[id][k].actor].phase = "done"
    <2>1. id \in EntryIds /\ TypeOK
      BY <1>1 DEF Foundation, TypeOK
    <2>2. CASE id \in live /\ k \in Records(id, {"APPROVED"})
      <3>1. /\ audit'[id][k] = audit[id][k]
            /\ requests'[audit[id][k].actor] = requests[audit[id][k].actor]
        BY <2>2, SignaturesStay
      <3>2. QED
        BY <2>2, <3>1 DEF ApprovalsSigned
    <2>3. CASE Kept(id)
      BY <1>2, <2>2, <2>3, RecordsKept DEF Kept
    <2>4. ASSUME NEW r \in Requests, Touched(r, id)
          PROVE  requests'[audit'[id][k].actor].phase = "done"
      <3>1. CASE Approved(r, id) \/ Echoed(r, id)
        <4>1. PICK n : n = Len(audit[id]) + 1
          OBVIOUS
        <4>2. /\ Records(id, {"APPROVED"})' = Records(id, {"APPROVED"}) \union {n}
              /\ audit'[id][n].actor = r
              /\ requests'[r].phase = "done"
          BY <2>1, <3>1, <4>1, SignatureAdded
        <4>3. id \in live
          BY <3>1 DEF Approved, Echoed, Logged
        <4>4. CASE k = n
          BY <4>2, <4>4
        <4>5. QED
          BY <1>2, <2>2, <4>2, <4>3, <4>4
      <3>2. CASE Born(r, id)
        <4>1. Records(id, {"APPROVED"}) = {}
          BY <3>2 DEF Born, Records
        <4>2. Quiet(id)
          BY <2>1, <3>2, BornIsQuiet
        <4>3. QED
          BY <1>2, <4>1, <4>2 DEF Quiet
      <3>3. CASE Rewritten(r, id) \/ Submitted(r, id) \/ Reopened(r, id)
        <4>1. Quiet(id)
          BY <2>1, <3>3, RewrittenIsQuiet, SubmittedIsQuiet, ReopenedIsQuiet
        <4>2. id \in live
          BY <3>3 DEF Rewritten, Submitted, Reopened, Logged
        <4>3. QED
          BY <1>2, <2>2, <4>1, <4>2 DEF Quiet
      <3>4. CASE Paid(r, id)
        <4>1. PICK record : Logged(id, record) /\ record.action # "APPROVED"
          BY <3>4 DEF Paid, Audit
        <4>2. Records(id, {"APPROVED"})' = Records(id, {"APPROVED"})
          BY <2>1, <4>1, ExtensionIsQuiet DEF Logged
        <4>3. QED
          BY <1>2, <2>2, <4>1, <4>2 DEF Logged
      <3>5. QED
        BY <1>2, <2>4, <3>1, <3>2, <3>3, <3>4 DEF Touched, Gone
    <2>5. QED
      BY <2>1, <2>3, <2>4, EntryStep
  <1>3. ASSUME NEW id \in live', rows'[id].status = "APPROVED"
        PROVE  Signed(id, rows[id].approvedAt)'
    <2>1. id \in EntryIds
      BY <1>1 DEF Foundation, TypeOK
    <2>2. CASE /\ id \in live /\ rows[id].status = "APPROVED"
               /\ rows'[id].approvedAt = rows[id].approvedAt
      <3>1. Signed(id, rows[id].approvedAt)
        BY <2>2 DEF ApprovalsSigned
      <3> DEFINE at == rows[id].approvedAt
      <3>2. PICK t : t = rows[id].approvedAt
        OBVIOUS
      <3>3. Signed(id, t) /\ rows'[id].approvedAt = t
        BY <2>2, <3>1, <3>2
      <3>4. PICK k \in Records(id, {"APPROVED"}) :
               requests[audit[id][k].actor].at = t
        BY <3>3 DEF Signed
      <3>5. /\ k \in Records(id, {"APPROVED"})'
            /\ audit'[id][k] = audit[id][k]
            /\ requests'[audit[id][k].actor] = requests[audit[id][k].actor]
        BY <1>3, <2>2, <3>4, SignaturesStay
      <3>6. requests'[audit'[id][k].actor].at = rows'[id].approvedAt
        BY <3>3, <3>4, <3>5
      <3>7. QED
        BY <3>5, <3>6 DEF Signed
    <2>3. ASSUME NEW r \in Requests, Approved(r, id)
          PROVE  Signed(id, rows[id].approvedAt)'
      <3>1. PICK n : /\ n \in Records(id, {"APPROVED"})'
                     /\ audit'[id][n].actor = r
                     /\ requests'[r].at = requests[r].at
        BY <2>1, <2>3, SignatureAdded
      <3>2. rows'[id].approvedAt = requests[r].at
        BY <2>1, <2>3 DEF Approved, Foundation, TypeOK, Row
      <3>3. requests'[audit'[id][n].actor].at = rows'[id].approvedAt
        BY <3>1, <3>2
      <3>4. QED
        BY <3>1, <3>3 DEF Signed
    <2>4. QED
      BY <1>3, <2>1, <2>2, <2>3, ApprovedRow
  <1>4. ASSUME NEW x \in Requests, NEW id \in requests'[x].echoes
        PROVE  Issued(id)' /\ (id \in live' => Signed(id, requests[x].at)')
    <2>1. id \in EntryIds
      BY <1>1 DEF Foundation, TypeOK, Request
    <2>2. CASE id \in requests[x].echoes /\ requests'[x].at = requests[x].at
      <3>1. Issued(id) /\ Issued(id)'
        BY <2>1, <2>2, IssuedStep DEF ApprovalsSigned
      <3>2. ASSUME id \in live'
            PROVE  Signed(id, requests[x].at)'
        <4>1. id \in live
          BY <2>1, <3>1, <3>2, Survivor
        <4>2. Signed(id, requests[x].at)
          BY <2>2, <4>1 DEF ApprovalsSigned
        <4>3. PICK k \in Records(id, {"APPROVED"}) :
                 requests[audit[id][k].actor].at = requests[x].at
          BY <4>2 DEF Signed
        <4>4. /\ k \in Records(id, {"APPROVED"})'
              /\ audit'[id][k] = audit[id][k]
              /\ requests'[audit[id][k].actor] = requests[audit[id][k].actor]
          BY <3>2, <4>1, <4>3, SignaturesStay
        <4>5. requests'[audit'[id][k].actor].at = requests'[x].at
          BY <2>2, <4>3, <4>4
        <4>6. QED
          BY <4>4, <4>5 DEF Signed
      <3>3. QED
        BY <3>1, <3>2
    <2>3. CASE /\ id \in live
               /\ rows[id].status = "APPROVED"
               /\ rows[id].approvedAt = requests'[x].at
               /\ UNCHANGED <<live, rows, audit, incarnation>>
      <3>1. Issued(id)'
        BY <2>3 DEF Foundation, IdsAreFresh, Issued
      <3>2. Signed(id, rows[id].approvedAt)'
        BY <1>3, <2>3
      <3>3. PICK k \in Records(id, {"APPROVED"})' :
               requests'[audit'[id][k].actor].at = rows'[id].approvedAt
        BY <3>2 DEF Signed
      <3>4. requests'[audit'[id][k].actor].at = requests'[x].at
        BY <2>3, <3>3
      <3>5. QED
        BY <3>1, <3>3, <3>4 DEF Signed
    <2>4. QED
      BY <2>2, <2>3, EchoStep
  <1>5. QED
    BY <1>2, <1>3, <1>4 DEF ApprovalsSigned

LEMMA ApprovalsSignedHolds == Spec => []ApprovalsSigned
  <1>1. Init => ApprovalsSigned
    BY DEF Init, ApprovalsSigned, Idle
  <1>2. QED
    BY <1>1, ApprovalsSignedStep, FoundationHolds, PTL DEF Spec

-----------------------------------------------------------------------------
(* The trail accounts for the row.  Every step that touches an entry adds one
   record.  But for an echo, what the record says of the row is what the step
   made of it (Names, Tells); what the record is silent about, the step left
   alone.  An echo comes after the approval that it repeats. *)

TellsStatus(id) ==
    \E k \in RowRecords(id) :
        /\ audit[id][k].to = rows[id].status
        /\ \A j \in RowRecords(id) : j > k => Echo(id, j)
TellsHours(id) ==
    \E k \in DOMAIN audit[id] : /\ Newest(HourRecords(id), k)
                                /\ audit[id][k].hours = rows[id].value.hours
TellsReopening(id) == rows[id].reopened <=> Records(id, {"REOPENED"}) # {}

Accounted(id) == TellsStatus(id) /\ TellsHours(id) /\ TellsReopening(id)

\* The record that a step adds names the status that the step leaves.
Names(id, record) ==
    IF record.to # None THEN rows'[id].status = record.to
                        ELSE rows'[id].status = rows[id].status

\* The record says what the step did to the hours and the reopening.
Tells(id, record) ==
    /\ IF record.to # None /\ record.hours # None
       THEN rows'[id].value.hours = record.hours
       ELSE rows'[id].value.hours = rows[id].value.hours
    /\ rows'[id].reopened <=> rows[id].reopened \/ record.action = "REOPENED"

\* The records that name a status, and those that name the hours as well: a
\* new one joins them if it does.
LEMMA NamingRecordsGrow ==
    ASSUME TypeOK, NEW id \in EntryIds, NEW record, Extended(id, record)
    PROVE  LET n == Len(audit[id]) + 1
           IN  /\ RowRecords(id) \subseteq 1 .. n - 1
               /\ HourRecords(id) \subseteq 1 .. n - 1
               /\ RowRecords(id)' = IF record.to # None
                                    THEN RowRecords(id) \union {n}
                                    ELSE RowRecords(id)
               /\ HourRecords(id)' = IF record.to # None /\ record.hours # None
                                     THEN HourRecords(id) \union {n}
                                     ELSE HourRecords(id)
  <1> DEFINE n == Len(audit[id]) + 1
  <1>1. /\ n \in Nat \ {0}
        /\ DOMAIN audit[id] = 1 .. n - 1
        /\ DOMAIN audit'[id] = (1 .. n - 1) \union {n}
        /\ n \notin 1 .. n - 1
        /\ \A k \in 1 .. n - 1 : audit'[id][k] = audit[id][k]
        /\ audit'[id][n] = record
    BY TrailGrows
  <1> HIDE DEF n
  <1>2. /\ RowRecords(id) \subseteq 1 .. n - 1
        /\ RowRecords(id)' = IF record.to # None
                             THEN RowRecords(id) \union {n}
                             ELSE RowRecords(id)
    BY <1>1 DEF RowRecords
  <1>3. /\ HourRecords(id) \subseteq 1 .. n - 1
        /\ HourRecords(id)' = IF record.to # None /\ record.hours # None
                              THEN HourRecords(id) \union {n}
                              ELSE HourRecords(id)
    BY <1>1, <1>2 DEF RowRecords, HourRecords
  <1>4. QED
    BY <1>2, <1>3 DEF n

\* An echo stays one while its entry is there.
LEMMA EchoStays ==
    ASSUME Foundation, ApprovalsSigned, [Next]_vars, NEW id \in live,
           id \in live', NEW k, Echo(id, k)
    PROVE  Echo(id, k)'
  <1>1. PICK j \in Records(id, {"APPROVED"}) :
           /\ j < k
           /\ audit[id][j].actor # audit[id][k].actor
           /\ requests[audit[id][j].actor].at = requests[audit[id][k].actor].at
    BY DEF Echo
  <1>2. k \in Records(id, {"APPROVED"})
    BY DEF Echo
  <1>3. /\ j \in Records(id, {"APPROVED"})' /\ k \in Records(id, {"APPROVED"})'
        /\ audit'[id][j] = audit[id][j] /\ audit'[id][k] = audit[id][k]
        /\ requests'[audit[id][j].actor] = requests[audit[id][j].actor]
        /\ requests'[audit[id][k].actor] = requests[audit[id][k].actor]
    BY <1>1, <1>2, SignaturesStay
  <1>4. /\ audit'[id][j].actor # audit'[id][k].actor
        /\ requests'[audit'[id][j].actor].at = requests'[audit'[id][k].actor].at
    BY <1>1, <1>3
  <1>5. QED
    BY <1>1, <1>3, <1>4 DEF Echo

\* The record of an echo is one.
LEMMA EchoedIsEcho ==
    ASSUME Foundation, ApprovalsSigned, NEW r \in Requests, NEW id \in live,
           [Next]_vars, id \in live', Echoed(r, id),
           NEW n, n = Len(audit[id]) + 1
    PROVE  Echo(id, n)'
  <1>1. id \in EntryIds /\ TypeOK
    BY DEF Foundation, TypeOK
  <1>3. /\ n \in Records(id, {"APPROVED"})'
        /\ audit'[id][n].actor = r
        /\ requests'[r].at = requests[r].at
    BY <1>1, SignatureAdded
  <1>4. PICK k \in Records(id, {"APPROVED"}) :
           requests[audit[id][k].actor].at = requests[r].at
    BY DEF Echoed, ApprovalsSigned, Signed
  <1>5. /\ k \in Records(id, {"APPROVED"})'
        /\ audit'[id][k] = audit[id][k]
        /\ requests'[audit[id][k].actor] = requests[audit[id][k].actor]
    BY <1>4, SignaturesStay
  <1>6. audit[id][k].actor # r
    <2>1. requests[audit[id][k].actor].phase = "done"
      BY <1>4 DEF ApprovalsSigned
    <2>2. QED
      BY <2>1 DEF Echoed
  <1>7. k < n
    <2>1. audit[id] \in Seq(AuditRecord) /\ k \in DOMAIN audit[id]
      BY <1>1 DEF TypeOK, Records
    <2>2. QED
      BY <2>1 DEF Records
  <1>8. /\ audit'[id][k].actor # audit'[id][n].actor
        /\ requests'[audit'[id][k].actor].at = requests'[audit'[id][n].actor].at
    BY <1>3, <1>4, <1>5, <1>6
  <1>9. QED
    BY <1>3, <1>5, <1>7, <1>8 DEF Echo

\* The status of an entry is told after a step whose record names it, or is an
\* echo.
LEMMA StatusExtended ==
    ASSUME TypeOK, NEW id \in EntryIds, NEW record, Extended(id, record),
           TellsStatus(id), \A k : Echo(id, k) => Echo(id, k)',
           NEW n, n = Len(audit[id]) + 1,
           \/ Names(id, record)
           \/ rows'[id] = rows[id] /\ Echo(id, n)'
    PROVE  TellsStatus(id)'
  <1>1. /\ n \in Nat \ {0}
        /\ DOMAIN audit[id] = 1 .. n - 1
        /\ DOMAIN audit'[id] = 1 .. n
        /\ \A k \in 1 .. n - 1 : audit'[id][k] = audit[id][k]
        /\ audit'[id][n] = record
    BY TrailGrows
  <1>2. /\ RowRecords(id) \subseteq 1 .. n - 1
        /\ record.to # None => RowRecords(id)' = RowRecords(id) \union {n}
        /\ record.to = None => RowRecords(id)' = RowRecords(id)
    BY NamingRecordsGrow
  <1>3. CASE Names(id, record) /\ record.to # None
    <2>1. /\ n \in RowRecords(id)'
          /\ \A j \in RowRecords(id)' : ~(j > n)
      BY <1>1, <1>2, <1>3
    <2>2. audit'[id][n].to = rows'[id].status
      BY <1>1, <1>3 DEF Names
    <2>3. QED
      BY <2>1, <2>2 DEF TellsStatus
  <1>4. CASE ~(Names(id, record) /\ record.to # None)
    <2>1. rows'[id].status = rows[id].status
      BY <1>4 DEF Names
    <2>2. \A j \in RowRecords(id)' \ RowRecords(id) : Echo(id, j)'
      BY <1>2, <1>4
    <2>3. PICK k \in RowRecords(id) :
             /\ audit[id][k].to = rows[id].status
             /\ \A j \in RowRecords(id) : j > k => Echo(id, j)
      BY DEF TellsStatus
    <2>4. k \in RowRecords(id)' /\ audit'[id][k] = audit[id][k]
      BY <1>1, <1>2, <2>3
    <2>5. audit'[id][k].to = rows'[id].status
      BY <2>1, <2>3, <2>4
    <2>6. \A j \in RowRecords(id)' : j > k => Echo(id, j)'
      BY <2>2, <2>3
    <2>7. QED
      BY <2>4, <2>5, <2>6 DEF TellsStatus
  <1>5. QED
    BY <1>3, <1>4

\* The hours and the reopening are told after a step that tells them.
LEMMA RestExtended ==
    ASSUME TypeOK, NEW id \in EntryIds, NEW record, Extended(id, record),
           TellsHours(id), TellsReopening(id), Tells(id, record)
    PROVE  TellsHours(id)' /\ TellsReopening(id)'
  <1> DEFINE n == Len(audit[id]) + 1
  <1>1. /\ n \in Nat \ {0}
        /\ DOMAIN audit[id] = 1 .. n - 1
        /\ DOMAIN audit'[id] = 1 .. n
        /\ \A k \in 1 .. n - 1 : audit'[id][k] = audit[id][k]
        /\ audit'[id][n] = record
    BY TrailGrows
  <1>2. /\ HourRecords(id) \subseteq 1 .. n - 1
        /\ record.to # None /\ record.hours # None =>
              HourRecords(id)' = HourRecords(id) \union {n}
        /\ ~(record.to # None /\ record.hours # None) =>
              HourRecords(id)' = HourRecords(id)
    BY NamingRecordsGrow
  <1> HIDE DEF n
  <1>4. TellsHours(id)'
    <2>1. CASE record.to # None /\ record.hours # None
      <3>1. Newest(HourRecords(id)', n)
        BY <1>1, <1>2, <2>1 DEF Newest
      <3>2. n \in DOMAIN audit'[id] /\ audit'[id][n] = record
        BY <1>1
      <3>3. rows'[id].value.hours = record.hours
        BY <2>1 DEF Tells
      <3>4. QED
        BY <3>1, <3>2, <3>3 DEF TellsHours
    <2>2. CASE ~(record.to # None /\ record.hours # None)
      <3>1. PICK k \in 1 .. n - 1 : /\ Newest(HourRecords(id), k)
                                    /\ audit[id][k].hours = rows[id].value.hours
        BY <1>1 DEF TellsHours
      <3>2. k \in 1 .. n /\ audit'[id][k] = audit[id][k]
        BY <1>1
      <3>3. Newest(HourRecords(id), k)'
        BY <1>2, <2>2, <3>1 DEF Newest
      <3>4. rows'[id].value.hours = rows[id].value.hours
        BY <2>2 DEF Tells
      <3>5. QED
        BY <1>1, <3>1, <3>2, <3>3, <3>4 DEF TellsHours
    <2>3. QED
      BY <2>1, <2>2
  <1>5. TellsReopening(id)'
    <2>1. /\ record.action \in {"REOPENED"} =>
                Records(id, {"REOPENED"})' = Records(id, {"REOPENED"}) \union {n}
          /\ record.action \notin {"REOPENED"} =>
                Records(id, {"REOPENED"})' = Records(id, {"REOPENED"})
      BY RecordsGrow DEF n
    <2>2. QED
      BY <2>1 DEF TellsReopening, Tells
  <1>6. QED
    BY <1>4, <1>5

\* The first record of an entry tells its status and its hours.
LEMMA AccountedFromBirth ==
    ASSUME Foundation, NEW r \in Requests, NEW id \in EntryIds, Born(r, id)
    PROVE  Accounted(id)'
  <1>1. PICK claim \in Claim :
           /\ rows'[id] = Draft(claim)
           /\ Extended(id, Audit("CREATED", r, None, "DRAFT",
                                 Column(claim.hours), None))
    BY DEF Born
  <1> DEFINE hours == Column(claim.hours)
             record == Audit("CREATED", r, None, "DRAFT", hours, None)
  <1>2. hours # None /\ "DRAFT" # None
    <2>1. hours \in StoredHours
      BY DEF StoredHours, Claim
    <2>2. QED
      BY <2>1, NullType DEF Status
  <1>3. /\ rows'[id].status = "DRAFT" /\ rows'[id].value.hours = hours
        /\ ~rows'[id].reopened
    BY <1>1 DEF Draft, Stored
  <1>4. record.to = "DRAFT" /\ record.hours = hours /\ record.action = "CREATED"
    BY DEF Audit
  <1>5. Extended(id, record)
    BY <1>1
  <1> HIDE DEF record, hours
  <1>6. audit[id] = <<>> /\ TypeOK
    BY DEF Born, Foundation
  <1>7. /\ RowRecords(id) = {} /\ HourRecords(id) = {}
        /\ Records(id, {"REOPENED"}) = {} /\ Len(audit[id]) + 1 = 1
    BY <1>6 DEF RowRecords, HourRecords, Records
  <1>8. /\ RowRecords(id)' = {1} /\ HourRecords(id)' = {1}
    BY <1>2, <1>4, <1>5, <1>6, <1>7, NamingRecordsGrow
  <1>9. Records(id, {"REOPENED"})' = {}
    BY <1>4, <1>5, <1>6, <1>7, RecordsGrow
  <1>10. 1 \in DOMAIN audit'[id] /\ audit'[id][1] = record
    BY <1>5, <1>6, <1>7, TrailGrows
  <1>11. Newest(HourRecords(id), 1)'
    BY <1>8 DEF Newest
  <1>12. TellsStatus(id)'
    BY <1>3, <1>4, <1>8, <1>10 DEF TellsStatus
  <1>13. QED
    BY <1>3, <1>4, <1>9, <1>10, <1>11, <1>12
       DEF Accounted, TellsHours, TellsReopening

\* Whatever a request does to an entry that was there, its record tells.
LEMMA TouchTells ==
    ASSUME Foundation, NEW r \in Requests, NEW id \in EntryIds, id \in live,
           id \in live', Touched(r, id)
    PROVE  \E record : /\ Extended(id, record) /\ Tells(id, record)
                       /\ Names(id, record) \/ Echoed(r, id)
  <1>1. rows[id] \in Row
    BY DEF Foundation, TypeOK
  <1>2. rows[id].value.hours \in StoredHours /\ rows[id].status \in Status
    BY <1>1 DEF Row, Value
  <1>3. rows[id].value.hours # None /\ "DRAFT" # None /\ "SUBMITTED" # None
        /\ "APPROVED" # None
    BY <1>2, NullType DEF Status
  <1>4. ASSUME NEW action, NEW from, NEW to, NEW hours, NEW payment
        PROVE  LET record == Audit(action, r, from, to, hours, payment)
               IN  /\ record.action = action /\ record.to = to
                   /\ record.hours = hours
    BY DEF Audit
  <1>5. CASE Rewritten(r, id)
    <2> DEFINE q == requests[r]
               row == Rewrite(q, id)
               record == Audit(EditAction(q, id), r, q.seen[id].status,
                               row.status, row.value.hours, None)
    <2>1. Extended(id, record) /\ rows'[id] = row
      BY <1>5 DEF Rewritten, Logged
    <2>2. /\ Committing(r, "upsert")
          /\ id \in DOMAIN q.seen
      BY <1>5 DEF Rewritten
    <2>3. row \in Row
      BY <2>2, CommittingType, RewriteType DEF Checked, Committing
    <2>4. row.status # None /\ row.value.hours # None
      <3> HIDE DEF row
      <3>1. row.status \in Status /\ row.value.hours \in StoredHours
        BY <2>3 DEF Row, Value
      <3>2. QED
        BY <3>1, NullType
    <2>5. row.reopened = rows[id].reopened
      BY RewriteFields
    <2>6. /\ record.to = row.status /\ record.hours = row.value.hours
          /\ record.action = EditAction(q, id)
      BY <1>4
    <2>7. EditAction(q, id) # "REOPENED"
      BY DEF EditAction
    <2> HIDE DEF record, row
    <2>8. Tells(id, record) /\ Names(id, record)
      BY <2>1, <2>4, <2>5, <2>6, <2>7 DEF Tells, Names
    <2>9. QED
      BY <2>1, <2>8
  <1>6. CASE Submitted(r, id)
    <2> DEFINE record == Audit("SUBMITTED", r, requests[r].seen[id].status,
                               "SUBMITTED", rows[id].value.hours, None)
    <2>1. Extended(id, record)
      BY <1>6 DEF Submitted, Logged
    <2>2. /\ rows'[id].status = "SUBMITTED"
          /\ rows'[id].value.hours = rows[id].value.hours
          /\ rows'[id].reopened = rows[id].reopened
      BY <1>1, <1>6 DEF Submitted, Row
    <2>3. /\ record.to = "SUBMITTED" /\ record.hours = rows[id].value.hours
          /\ record.action = "SUBMITTED"
      BY <1>4
    <2> HIDE DEF record
    <2>4. Tells(id, record) /\ Names(id, record)
      BY <1>3, <2>2, <2>3 DEF Tells, Names
    <2>5. QED
      BY <2>1, <2>4
  <1>7. CASE Approved(r, id)
    <2> DEFINE record == Audit("APPROVED", r, "SUBMITTED", "APPROVED", None, None)
    <2>1. Extended(id, record)
      BY <1>7 DEF Approved, Logged
    <2>2. /\ rows'[id].status = "APPROVED"
          /\ rows'[id].value.hours = rows[id].value.hours
          /\ rows'[id].reopened = rows[id].reopened
      BY <1>1, <1>7 DEF Approved, Row
    <2>3. /\ record.to = "APPROVED" /\ record.hours = None
          /\ record.action = "APPROVED"
      BY <1>4
    <2> HIDE DEF record
    <2>4. Tells(id, record) /\ Names(id, record)
      BY <1>3, <2>2, <2>3 DEF Tells, Names
    <2>5. QED
      BY <2>1, <2>4
  <1>8. CASE Reopened(r, id)
    <2> DEFINE record == Audit("REOPENED", r, requests[r].seen[id].status,
                               "DRAFT", rows[id].value.hours, None)
    <2>1. Extended(id, record)
      BY <1>8 DEF Reopened, Logged
    <2>2. /\ rows'[id].status = "DRAFT"
          /\ rows'[id].value.hours = rows[id].value.hours
          /\ rows'[id].reopened
      BY <1>1, <1>8 DEF Reopened, Row
    <2>3. /\ record.to = "DRAFT" /\ record.hours = rows[id].value.hours
          /\ record.action = "REOPENED"
      BY <1>4
    <2> HIDE DEF record
    <2>4. Tells(id, record) /\ Names(id, record)
      BY <1>3, <2>2, <2>3 DEF Tells, Names
    <2>5. QED
      BY <2>1, <2>4
  <1>9. CASE Paid(r, id)
    <2> DEFINE hours == requests[r].seen[id].value.hours
               record == Audit("PAYMENT_LINKED", r, None, None, hours,
                               requests[r].payment)
    <2>1. Extended(id, record)
      BY <1>9 DEF Paid, Logged
    <2>2. /\ rows'[id].status = rows[id].status
          /\ rows'[id].value.hours = rows[id].value.hours
          /\ rows'[id].reopened = rows[id].reopened
      BY <1>1, <1>9 DEF Paid, Row
    <2>3. record.to = None /\ record.action = "PAYMENT_LINKED"
      BY <1>4
    <2> HIDE DEF record
    <2>4. Tells(id, record) /\ Names(id, record)
      BY <1>3, <2>2, <2>3 DEF Tells, Names
    <2>5. QED
      BY <2>1, <2>4
  <1>10. CASE Echoed(r, id)
    <2> DEFINE record == Audit("APPROVED", r, "SUBMITTED", "APPROVED", None, None)
    <2>1. Extended(id, record) /\ rows'[id] = rows[id]
      BY <1>10 DEF Echoed, Logged
    <2>2. record.hours = None /\ record.action = "APPROVED"
      BY <1>4
    <2> HIDE DEF record
    <2>3. Tells(id, record)
      BY <2>1, <2>2 DEF Tells
    <2>4. QED
      BY <1>10, <2>1, <2>3
  <1>11. QED
    BY <1>5, <1>6, <1>7, <1>8, <1>9, <1>10 DEF Touched, Born, Gone

\* The newest status and hours on an entry's trail are the row's, but for echoes
\* of an approval, and the trail holds a reopening exactly if the row says so:
\* no write escapes the trail.
THEOREM TrailMatchesRow == Spec => []AuditMatchesRow
  <1>1. AuditMatchesRow <=> \A id \in live : Accounted(id)
    BY DEF AuditMatchesRow, Accounted, TellsStatus, TellsHours, TellsReopening
  <1>2. Init => AuditMatchesRow
    BY DEF Init, AuditMatchesRow
  <1>3. Foundation /\ ApprovalsSigned /\ AuditMatchesRow /\ [Next]_vars
            => AuditMatchesRow'
    <2> SUFFICES ASSUME Foundation, ApprovalsSigned, AuditMatchesRow,
                        [Next]_vars, NEW id \in live'
                 PROVE  Accounted(id)'
      BY DEF AuditMatchesRow, Accounted, TellsStatus, TellsHours,
             TellsReopening
    <2>1. id \in EntryIds
      <3>1. Foundation'
        BY FoundationStep
      <3>2. QED
        BY <3>1 DEF Foundation, TypeOK
    <2>2. TypeOK
      BY DEF Foundation
    <2>3. CASE Kept(id)
      <3>1. Accounted(id) /\ id \in live
        BY <1>1, <2>3 DEF Kept
      <3>2. /\ RowRecords(id)' = RowRecords(id)
            /\ HourRecords(id)' = HourRecords(id)
            /\ Records(id, {"REOPENED"})' = Records(id, {"REOPENED"})
            /\ audit'[id] = audit[id] /\ rows'[id] = rows[id]
        BY <2>3 DEF Kept, RowRecords, HourRecords, Records
      <3>3. \A k : Echo(id, k) => Echo(id, k)'
        BY <3>1, EchoStays
      <3>4. TellsStatus(id)'
        BY <3>1, <3>2, <3>3 DEF Accounted, TellsStatus
      <3>5. TellsHours(id)' /\ TellsReopening(id)'
        BY <3>1, <3>2 DEF Accounted, TellsHours, TellsReopening, Newest
      <3>6. QED
        BY <3>4, <3>5 DEF Accounted
    <2>4. ASSUME NEW r \in Requests, Touched(r, id)
          PROVE  Accounted(id)'
      <3>1. CASE id \in live
        <4>1. Accounted(id)
          BY <1>1, <3>1
        <4>2. PICK record : /\ Extended(id, record) /\ Tells(id, record)
                            /\ Names(id, record) \/ Echoed(r, id)
          BY <2>1, <2>4, <3>1, TouchTells
        <4>3. \A k : Echo(id, k) => Echo(id, k)'
          BY <3>1, EchoStays
        <4>4. PICK n : n = Len(audit[id]) + 1
          OBVIOUS
        <4>5. Echoed(r, id) => rows'[id] = rows[id] /\ Echo(id, n)'
          BY <2>1, <3>1, <4>1, <4>4, EchoedIsEcho DEF Echoed
        <4>6. TellsStatus(id)'
          BY <2>1, <2>2, <4>1, <4>2, <4>3, <4>4, <4>5, StatusExtended
             DEF Accounted
        <4>7. TellsHours(id)' /\ TellsReopening(id)'
          BY <2>1, <2>2, <4>1, <4>2, RestExtended DEF Accounted
        <4>8. QED
          BY <4>6, <4>7 DEF Accounted
      <3>2. CASE id \notin live
        <4>1. Born(r, id)
          BY <2>4, <3>2 DEF Touched, Gone, Rewritten, Submitted, Approved,
                            Echoed, Reopened, Paid, Logged
        <4>2. QED
          BY <2>1, <4>1, AccountedFromBirth
      <3>3. QED
        BY <3>1, <3>2
    <2>5. QED
      BY <2>1, <2>3, <2>4, EntryStep
  <1>4. QED
    BY <1>2, <1>3, FoundationHolds, ApprovalsSignedHolds, PTL DEF Spec
=============================================================================
