----------------------------- MODULE LeadsProofs -----------------------------
(***************************************************************************)
(* Leads keep their types and the engagement of their last conversion, and *)
(* a converted one is changed only by who was at work on it, for any       *)
(* number of requests, leads and engagements.                              *)
(***************************************************************************)
EXTENDS Leads, TLAPS, SequenceTheorems

\* A request that is to write knows what it will do, and to which lead.
Placed(r) == requests[r].phase = "write" =>
                 /\ requests[r].lead \in Leads
                 /\ requests[r].op \in Operation
                 /\ leads[requests[r].lead] # None

\* Who may still write to a converted lead has been seen at work on it.
Witnessed(r) == requests[r].phase = "write" /\ Converted(requests[r].lead) =>
                    r \in witnesses[requests[r].lead]

\* A lead that is not there has no conversions: nothing removes a lead.
Fresh == \A l \in Leads : leads[l] = None => links[l] = <<>>

Inductive == /\ TypeOK
             /\ Fresh
             /\ \A r \in Requests : Placed(r)
             /\ \A r \in Requests : Witnessed(r)
             /\ LinkIsLastConversion

\* What a commit does to the lead it was placed on.
LEMMA CommitsAreTyped ==
    ASSUME TypeOK, \A q \in Requests : Placed(q), NEW r \in Requests,
           StatusCommit(r) \/ NoteCommit(r) \/ ConvertCommit(r)
    PROVE  \E l \in Leads :
               /\ l = requests[r].lead /\ requests[r].phase = "write"
               /\ leads[l] \in Lead
               /\ \E lead \in Lead : leads' = [leads EXCEPT ![l] = lead]
               /\ leads'[l] \in Lead
               /\ Finish(r) /\ Witness(l)
               /\ \/ /\ links' = links
                     /\ leads'[l].engagement = leads[l].engagement
                  \/ \E e \in Engagements :
                        /\ links' = [links EXCEPT ![l] = Append(@, e)]
                        /\ leads'[l].engagement = e
  <1>1. ASSUME NEW l \in Leads, NEW op, Write(r, op, l)
        PROVE  /\ l = requests[r].lead /\ requests[r].phase = "write"
               /\ leads[l] \in Lead /\ Finish(r)
    BY <1>1 DEF Write, Placed, TypeOK
  <1>2. CASE StatusCommit(r)
    <2>1. PICK l \in Leads, status \in Status :
              /\ Write(r, "status", l)
              /\ leads' = [leads EXCEPT ![l] = WithStatus(@, status)]
              /\ Witness(l) /\ links' = links
      BY <1>2 DEF StatusCommit
    <2>2. leads[l] \in Lead
      BY <1>1, <2>1
    <2>3. /\ WithStatus(leads[l], status) \in Lead
          /\ WithStatus(leads[l], status).engagement = leads[l].engagement
      BY <2>2 DEF WithStatus, Lead
    <2>4. leads'[l] = WithStatus(leads[l], status)
      BY <2>1 DEF TypeOK
    <2>5. QED
      BY <1>1, <2>1, <2>2, <2>3, <2>4
  <1>3. CASE NoteCommit(r)
    <2>1. PICK l \in Leads :
              /\ Write(r, "note", l)
              /\ leads' = [leads EXCEPT ![l].notes = Append(@, r)]
              /\ Witness(l) /\ links' = links
      BY <1>3 DEF NoteCommit
    <2>2. leads[l] \in Lead
      BY <1>1, <2>1
    <2> DEFINE lead == [leads[l] EXCEPT !.notes = Append(@, r)]
    <2>3. lead \in Lead /\ lead.engagement = leads[l].engagement
      <3>1. Append(leads[l].notes, r) \in Seq(Requests)
        BY <2>2 DEF Lead
      <3>2. QED
        BY <2>2, <3>1 DEF Lead
    <2>4. leads' = [leads EXCEPT ![l] = lead] /\ leads'[l] = lead
      BY <2>1 DEF TypeOK
    <2>5. QED
      BY <1>1, <2>1, <2>2, <2>3, <2>4
  <1>4. CASE ConvertCommit(r)
    <2>1. PICK l \in Leads, e \in Engagements :
              /\ Write(r, "convert", l)
              /\ leads' = [leads EXCEPT ![l].status = "CONVERTED",
                                        ![l].engagement = e]
              /\ Witness(l)
              /\ links' = [links EXCEPT ![l] = Append(@, e)]
      BY <1>4 DEF ConvertCommit
    <2>2. leads[l] \in Lead
      BY <1>1, <2>1
    <2> DEFINE lead == [leads[l] EXCEPT !.status = "CONVERTED", !.engagement = e]
    <2>3. lead \in Lead /\ lead.engagement = e
      BY <2>2 DEF Lead, Status
    <2>4. leads' = [leads EXCEPT ![l] = lead] /\ leads'[l] = lead
      BY <2>1 DEF TypeOK
    <2>5. QED
      BY <1>1, <2>1, <2>2, <2>3, <2>4
  <1>5. QED
    BY <1>2, <1>3, <1>4

LEMMA LinksLast ==
    ASSUME NEW s \in Seq(Engagements), NEW e \in Engagements
    PROVE  /\ Append(s, e) # <<>> /\ Append(s, e) \in Seq(Engagements)
           /\ Append(s, e)[Len(Append(s, e))] = e
  BY AppendProperties, EmptySeq

\* Every step of a request.
LEMMA HandleCases ==
    ASSUME [Next]_vars
    PROVE  \/ UNCHANGED vars
           \/ \E r \in Requests : Intake(r)
           \/ \E r \in Requests, op \in Operation : Find(r, op)
           \/ \E r \in Requests : StatusCommit(r) \/ NoteCommit(r) \/ ConvertCommit(r)
           \/ \E r \in Requests : Abort(r)
  BY DEF Next, Handle, StatusRead, NoteRead, ConvertRead, Operation

LEMMA InductiveStep == Inductive /\ [Next]_vars => Inductive'
  <1> SUFFICES ASSUME Inductive, [Next]_vars PROVE Inductive'
    OBVIOUS
  <1> USE NoneAssumption
  <1>1. CASE UNCHANGED vars
    BY <1>1 DEF Inductive, TypeOK, Fresh, Placed, Witnessed, Converted, vars,
       LinkIsLastConversion
  <1>2. ASSUME NEW r \in Requests, Intake(r) PROVE Inductive'
    <2> DEFINE fresh == [status |-> "SUBMITTED", engagement |-> None, notes |-> <<>>]
    <2>1. PICK l \in Leads :
              /\ requests[r].phase = "new" /\ leads[l] = None
              /\ leads' = [leads EXCEPT ![l] = fresh]
              /\ requests' = [requests EXCEPT ![r] = Idle("done")]
              /\ UNCHANGED <<links, witnesses>>
      BY <1>2 DEF Intake
    <2>2. fresh \in Lead /\ Idle("done") \in Request
      BY EmptySeq DEF Lead, Status, Request, Idle
    <2>3. TypeOK'
      BY <2>1, <2>2 DEF Inductive, TypeOK
    <2>4. \A q \in Requests : Placed(q)'
      BY <2>1, <2>2 DEF Inductive, TypeOK, Placed, Idle
    <2>5. \A q \in Requests : Witnessed(q)'
      BY <2>1, <2>2 DEF Inductive, TypeOK, Placed, Witnessed, Converted, Idle
    <2>6. LinkIsLastConversion'
      <3>1. links[l] = <<>>
        BY <2>1 DEF Inductive, Fresh
      <3>2. QED
        BY <2>1, <2>2, <3>1 DEF Inductive, TypeOK, LinkIsLastConversion
    <2>7. Fresh'
      BY <2>1, <2>2 DEF Inductive, TypeOK, Fresh
    <2>8. QED
      BY <2>3, <2>4, <2>5, <2>6, <2>7 DEF Inductive
  <1>3. ASSUME NEW r \in Requests, NEW op \in Operation, Find(r, op) PROVE Inductive'
    <2>1. PICK l \in Leads :
              /\ Open(l)
              /\ requests' = [requests EXCEPT ![r] =
                     [phase |-> "write", op |-> op, lead |-> l]]
              /\ UNCHANGED <<leads, links, witnesses>>
      BY <1>3 DEF Find
    <2>2. TypeOK'
      BY <2>1 DEF Inductive, TypeOK, Request
    <2>3. \A q \in Requests : Placed(q)'
      BY <2>1 DEF Inductive, TypeOK, Placed, Open
    <2>4. \A q \in Requests : Witnessed(q)'
      BY <2>1 DEF Inductive, TypeOK, Witnessed, Open, Converted
    <2>5. LinkIsLastConversion'
      BY <2>1 DEF Inductive, LinkIsLastConversion
    <2>6. Fresh'
      BY <2>1 DEF Inductive, Fresh
    <2>7. QED
      BY <2>2, <2>3, <2>4, <2>5, <2>6 DEF Inductive
  <1>4. ASSUME NEW r \in Requests, StatusCommit(r) \/ NoteCommit(r) \/ ConvertCommit(r)
        PROVE  Inductive'
    <2>1. PICK l \in Leads :
              /\ l = requests[r].lead /\ requests[r].phase = "write"
              /\ leads[l] \in Lead
              /\ \E lead \in Lead : leads' = [leads EXCEPT ![l] = lead]
              /\ leads'[l] \in Lead
              /\ Finish(r) /\ Witness(l)
              /\ \/ /\ links' = links
                    /\ leads'[l].engagement = leads[l].engagement
                 \/ \E e \in Engagements :
                       /\ links' = [links EXCEPT ![l] = Append(@, e)]
                       /\ leads'[l].engagement = e
      BY <1>4, CommitsAreTyped DEF Inductive
    <2>2. PICK lead \in Lead : leads' = [leads EXCEPT ![l] = lead]
      BY <2>1
    <2>3. Idle("done") \in Request /\ requests' = [requests EXCEPT ![r] = Idle("done")]
      BY <2>1 DEF Request, Idle, Finish
    <2>4. AtWork(l) \in SUBSET Requests
      BY DEF AtWork
    <2>5. TypeOK'
      <3>1. links' \in [Leads -> Seq(Engagements)]
        <4>1. links[l] \in Seq(Engagements)
          BY <2>1 DEF Inductive, TypeOK
        <4>2. ASSUME NEW e \in Engagements PROVE Append(links[l], e) \in Seq(Engagements)
          BY <4>1, LinksLast
        <4>3. CASE links' = links
          BY <4>3 DEF Inductive, TypeOK
        <4>4. ASSUME NEW e \in Engagements, links' = [links EXCEPT ![l] = Append(@, e)]
              PROVE  links' \in [Leads -> Seq(Engagements)]
          BY <4>2, <4>4 DEF Inductive, TypeOK
        <4>5. QED
          BY <2>1, <4>3, <4>4
      <3>2. witnesses' \in [Leads -> SUBSET Requests]
        BY <2>1, <2>4 DEF Inductive, TypeOK, Witness
      <3>3. QED
        BY <2>2, <2>3, <3>1, <3>2 DEF Inductive, TypeOK
    <2>6. ASSUME NEW q \in Requests PROVE Placed(q)'
      BY <2>2, <2>3 DEF Inductive, TypeOK, Placed, Idle
    <2>7. ASSUME NEW q \in Requests PROVE Witnessed(q)'
      <3> SUFFICES ASSUME (requests[q].phase = "write")',
                          Converted(requests[q].lead)'
                   PROVE  (q \in witnesses[requests[q].lead])'
        BY DEF Witnessed
      <3>1. q # r /\ requests'[q] = requests[q] /\ requests[q].phase = "write"
        BY <2>3 DEF Inductive, TypeOK, Idle
      <3>2. CASE requests[q].lead # l
        BY <2>1, <2>2, <3>1, <3>2 DEF Inductive, TypeOK, Witnessed, Converted, Witness
      <3>3. CASE requests[q].lead = l /\ Converted(l)
        BY <2>1, <3>1, <3>3 DEF Inductive, Witnessed, Witness
      <3>4. CASE requests[q].lead = l /\ ~Converted(l)
        <4>1. q \in AtWork(l)
          BY <3>1, <3>4 DEF AtWork
        <4>2. leads'[l].status = "CONVERTED"
          BY <3>1, <3>4 DEF Converted
        <4>3. QED
          BY <2>1, <3>1, <3>4, <4>1, <4>2 DEF Inductive, TypeOK, Witness
      <3>5. QED
        BY <3>2, <3>3, <3>4
    <2>8. LinkIsLastConversion'
      <3> SUFFICES ASSUME NEW k \in Leads, leads'[k] # None
                   PROVE  leads'[k].engagement = IF links'[k] = <<>> THEN None
                                                 ELSE links'[k][Len(links'[k])]
        BY DEF LinkIsLastConversion
      <3>1. CASE k # l
        BY <2>1, <2>2, <3>1 DEF Inductive, TypeOK, LinkIsLastConversion
      <3>2. CASE k = l /\ links' = links
        <4>1. leads[l] # None /\ leads'[l].engagement = leads[l].engagement
          BY <2>1, <2>2, <3>2, LinksLast DEF Inductive, TypeOK
        <4>2. QED
          BY <2>1, <3>2, <4>1 DEF Inductive, LinkIsLastConversion
      <3>3. ASSUME k = l, NEW e \in Engagements,
                   links' = [links EXCEPT ![l] = Append(@, e)],
                   leads'[l].engagement = e
            PROVE  leads'[k].engagement = IF links'[k] = <<>> THEN None
                                          ELSE links'[k][Len(links'[k])]
        BY <3>3, LinksLast DEF Inductive, TypeOK
      <3>4. QED
        BY <2>1, <3>1, <3>2, <3>3
    <2>9. Fresh'
      <3> SUFFICES ASSUME NEW k \in Leads, leads'[k] = None PROVE links'[k] = <<>>
        BY DEF Fresh
      <3>1. k # l /\ leads[k] = None
        BY <2>1, <2>2 DEF Inductive, TypeOK
      <3>2. QED
        BY <2>1, <3>1 DEF Inductive, TypeOK, Fresh
    <2>10. QED
      BY <2>5, <2>6, <2>7, <2>8, <2>9 DEF Inductive
  <1>5. ASSUME NEW r \in Requests, Abort(r) PROVE Inductive'
    <2>1. Idle("done") \in Request /\ requests' = [requests EXCEPT ![r] = Idle("done")]
          /\ UNCHANGED <<leads, links, witnesses>>
      BY <1>5 DEF Request, Idle, Abort, Finish
    <2>2. TypeOK'
      BY <2>1 DEF Inductive, TypeOK
    <2>3. \A q \in Requests : Placed(q)' /\ Witnessed(q)'
      BY <2>1 DEF Inductive, TypeOK, Placed, Witnessed, Converted, Idle
    <2>4. LinkIsLastConversion'
      BY <2>1 DEF Inductive, LinkIsLastConversion
    <2>5. Fresh'
      BY <2>1 DEF Inductive, Fresh
    <2>6. QED
      BY <2>2, <2>3, <2>4, <2>5 DEF Inductive
  <1>6. QED
    BY <1>1, <1>2, <1>3, <1>4, <1>5, HandleCases

THEOREM InductiveHolds == Spec => []Inductive
  <1>1. Init => Inductive
    BY EmptySeq DEF Init, Inductive, TypeOK, Fresh, Placed, Witnessed, LinkIsLastConversion,
       Idle, Request
  <1>2. QED
    BY <1>1, InductiveStep, PTL DEF Spec

\* The leads, their links and the requests keep their types.
THEOREM LeadsTyped == Spec => []TypeOK
  <1>1. Inductive => TypeOK
    BY DEF Inductive
  <1>2. QED
    BY <1>1, InductiveHolds, PTL

\* The engagement of a lead is the one of its last conversion, whatever statuses
\* and notes were written over it since.
THEOREM LastConversionLinks == Spec => []LinkIsLastConversion
  <1>1. Inductive => LinkIsLastConversion
    BY DEF Inductive
  <1>2. QED
    BY <1>1, InductiveHolds, PTL

\* Nobody who finds a lead converted can change it.
THEOREM ConvertedIsClosed == Spec => OnlyOverlappingWritesLand
  <1> DEFINE Closed == \A l \in Leads : Converted(l) /\ leads'[l] # leads[l] =>
                          \E r \in witnesses[l] : requests[r].lead = l
                                                  /\ requests'[r].phase = "done"
  <1>1. Inductive /\ [Next]_vars => [Closed]_vars
    <2> SUFFICES ASSUME Inductive, [Next]_vars, NEW l \in Leads,
                        Converted(l), leads'[l] # leads[l]
                 PROVE  \E r \in witnesses[l] : requests[r].lead = l
                                                /\ requests'[r].phase = "done"
      OBVIOUS
    <2>1. ASSUME NEW r \in Requests, StatusCommit(r) \/ NoteCommit(r) \/ ConvertCommit(r)
          PROVE  \E q \in witnesses[l] : requests[q].lead = l
                                         /\ requests'[q].phase = "done"
      <3>1. /\ requests[r].phase = "write" /\ Finish(r)
            /\ \E lead \in Lead : leads' = [leads EXCEPT ![requests[r].lead] = lead]
        BY <2>1, CommitsAreTyped DEF Inductive
      <3>2. requests[r].lead = l
        BY <3>1 DEF Inductive, TypeOK
      <3>3. r \in witnesses[l]
        BY <3>1, <3>2 DEF Inductive, Witnessed
      <3>4. requests'[r].phase = "done"
        BY <3>1 DEF Inductive, TypeOK, Finish, Idle
      <3>5. QED
        BY <3>2, <3>3, <3>4
    <2>2. ASSUME NEW r \in Requests, Intake(r) PROVE FALSE
      BY <2>2 DEF Inductive, TypeOK, Intake, Converted
    <2>3. QED
      BY <2>1, <2>2, HandleCases DEF Find, Abort, vars
  <1>2. QED
    BY <1>1, InductiveHolds, PTL DEF Spec, OnlyOverlappingWritesLand
=============================================================================
