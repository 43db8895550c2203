------------------------------- MODULE Leads -------------------------------
(***************************************************************************)
(* Engagement leads: customers hand them in, talent managers review them,  *)
(* note what they learn and convert them into engagements                  *)
(* (engagement-leads.service.ts).                                          *)
(*                                                                         *)
(* Each handler but the intake finds the lead in one statement, refuses a  *)
(* converted one, and updates it by id in another: two steps here.         *)
(***************************************************************************)
EXTENDS Naturals, Sequences

CONSTANTS
    Requests,    \* API calls; each is issued at most once
    Calls,       \* Calls[r]: the operations r may be
    Leads,       \* lead ids
    Engagements, \* engagement ids a client links a lead to
    None         \* SQL NULL, or no row

Operation == {"intake", "status", "note", "convert"}
Status == {"SUBMITTED", "UNDER_REVIEW", "QUALIFIED", "CONVERTED", "REJECTED"}

ASSUME CallsAssumption == Calls \in [Requests -> SUBSET Operation]

VARIABLES
    leads,     \* the EngagementLead table with its notes
    requests,  \* the state of every API call
    links,     \* history: the engagements each lead was converted into
    witnesses  \* history: who was at work on a lead when it was converted

vars == <<leads, requests, links, witnesses>>

-----------------------------------------------------------------------------
(* Data *)

\* A note is known by the request that wrote it.
Lead == [status: Status, engagement: Engagements \union {None},
         notes: Seq(Requests)]

\* A request that has found its lead waits to write.
Request == [phase: {"new", "write", "done"},
            op: Operation \union {None},
            lead: Leads \union {None}]

ASSUME NoneAssumption ==
    None \notin Operation \union Leads \union Engagements \union Lead

Idle(phase) == [phase |-> phase, op |-> None, lead |-> None]

TypeOK ==
    /\ leads \in [Leads -> Lead \union {None}]
    /\ requests \in [Requests -> Request]
    /\ links \in [Leads -> Seq(Engagements)]
    /\ witnesses \in [Leads -> SUBSET Requests]

AtWork(l) == {r \in Requests : requests[r].phase = "write" /\ requests[r].lead = l}

Converted(l) == leads[l] # None /\ leads[l].status = "CONVERTED"

\* Mutant: every lead may be written to.
OpenAnyway(l) == leads[l] # None

Open(l) == leads[l] # None /\ ~Converted(l)

-----------------------------------------------------------------------------
(* Handlers *)

\* Either form of the intake creates a lead that nobody has looked at.
Intake(r) ==
    \E l \in Leads :
        /\ requests[r].phase = "new" /\ "intake" \in Calls[r]
        /\ leads[l] = None
        /\ leads' = [leads EXCEPT ![l] =
               [status |-> "SUBMITTED", engagement |-> None, notes |-> <<>>]]
        /\ requests' = [requests EXCEPT ![r] = Idle("done")]
        /\ UNCHANGED <<links, witnesses>>

Find(r, op) ==
    \E l \in Leads :
        /\ requests[r].phase = "new" /\ op \in Calls[r]
        /\ Open(l)
        /\ requests' = [requests EXCEPT ![r] =
               [phase |-> "write", op |-> op, lead |-> l]]
        /\ UNCHANGED <<leads, links, witnesses>>

StatusRead(r) == Find(r, "status")
NoteRead(r) == Find(r, "note")
ConvertRead(r) == Find(r, "convert")

Finish(r) == requests' = [requests EXCEPT ![r] = Idle("done")]

\* Whoever is at work on a lead that becomes CONVERTED has seen it open.
Witness(l) ==
    witnesses' = IF ~Converted(l) /\ leads'[l].status = "CONVERTED"
                 THEN [witnesses EXCEPT ![l] = AtWork(l)]
                 ELSE witnesses

Write(r, op, l) == /\ requests[r].phase = "write"
                   /\ requests[r].op = op
                   /\ l = requests[r].lead
                   /\ Finish(r)

\* Mutant: a lead that is reviewed anew loses its engagement.
WithStatusAlone(lead, status) == [lead EXCEPT !.status = status,
                                              !.engagement = None]

WithStatus(lead, status) == [lead EXCEPT !.status = status]

\* Any status may be set, CONVERTED included; the engagement stays.
StatusCommit(r) ==
    \E l \in Leads, status \in Status :
        /\ Write(r, "status", l)
        /\ leads' = [leads EXCEPT ![l] = WithStatus(@, status)]
        /\ Witness(l)
        /\ UNCHANGED links

NoteCommit(r) ==
    \E l \in Leads :
        /\ Write(r, "note", l)
        /\ leads' = [leads EXCEPT ![l].notes = Append(@, r)]
        /\ Witness(l)
        /\ UNCHANGED links

ConvertCommit(r) ==
    \E l \in Leads, e \in Engagements :
        /\ Write(r, "convert", l)
        /\ leads' = [leads EXCEPT ![l].status = "CONVERTED",
                                  ![l].engagement = e]
        /\ Witness(l)
        /\ links' = [links EXCEPT ![l] = Append(@, e)]

\* A refused note, a failed statement, a lost process.
Abort(r) == /\ requests[r].phase = "write"
            /\ Finish(r)
            /\ UNCHANGED <<leads, links, witnesses>>

Init ==
    /\ leads = [l \in Leads |-> None]
    /\ requests = [r \in Requests |-> Idle("new")]
    /\ links = [l \in Leads |-> <<>>]
    /\ witnesses = [l \in Leads |-> {}]

Handle(r) == \/ Intake(r) \/ StatusRead(r) \/ NoteRead(r) \/ ConvertRead(r)
             \/ StatusCommit(r) \/ NoteCommit(r) \/ ConvertCommit(r)
             \/ Abort(r)

Next == \E r \in Requests : Handle(r)

Spec == Init /\ [][Next]_vars

-----------------------------------------------------------------------------
(* What leads promise *)

\* A lead names the engagement of the conversion that was written last, also
\* when a status decided before the conversion was written over it.
LinkIsLastConversion ==
    \A l \in Leads : leads[l] # None =>
        leads[l].engagement = IF links[l] = <<>> THEN None
                              ELSE links[l][Len(links[l])]

\* A converted lead is changed only by requests that were at work on it when it
\* was converted: whoever comes later is refused, and the damage of a race ends
\* with the requests in the race.
OnlyOverlappingWritesLand ==
    [][\A l \in Leads : Converted(l) /\ leads'[l] # leads[l] =>
          \E r \in witnesses[l] : requests[r].lead = l
                                  /\ requests'[r].phase = "done"]_vars
=============================================================================
