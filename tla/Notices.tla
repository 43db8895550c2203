------------------------------ MODULE Notices -------------------------------
(***************************************************************************)
(* What the API tells the world after it has committed a change: lifecycle *)
(* events on the bus and emails, themselves events for the mail sender     *)
(* (timesheet-events, timesheet-email, assignment-offer-email,             *)
(* assignment-offer-response-email, application-status-email and           *)
(* event-bus services, and their callers).                                 *)
(*                                                                         *)
(* Nothing is queued or retried: a call sends its notices one kind after   *)
(* another, the members of one kind in parallel, and then answers.  Every  *)
(* lookup and every post may fail, and the process may be lost with what   *)
(* it has not sent.                                                        *)
(***************************************************************************)
EXTENDS Naturals, Sequences

CONSTANTS
    Requests,  \* API calls; each is issued at most once
    Ops,       \* Ops[r]: the operations r may be
    People,    \* user ids
    About,     \* About[r]: the members, applicant or new manager r concerns
    Talent,    \* the talent managers of the project, as projects-api has them
    Templates, \* the kinds of mail a template is configured for
    None       \* no operation yet

Operation == {"upsert", "submit", "approve", "reopen", "grant", "select",
              "update", "respond", "decide"}

\* The kinds of notice, timesheet topics first.
Timesheet == {"submitted", "unsubmitted", "approved", "reopened", "override"}
Kind == Timesheet \union {"granted", "assigned", "offer", "updated",
                          "response", "decision"}

ASSUME OpsAssumption == Ops \in [Requests -> SUBSET Operation]
ASSUME PeopleAssumption ==
    /\ About \in [Requests -> SUBSET People]
    /\ Talent \subseteq People
    /\ Templates \subseteq Kind
    /\ None \notin Operation
    /\ "topic" \notin People

VARIABLES
    managers, \* who holds the manager role of the engagement now
    calls,    \* the state of every API call
    sent,     \* history: the notices on the bus, per call
    failed,   \* history: the notices given up, per call: the post or the lookup
              \* failed, or there was no address
    since     \* history: who was a manager ever, and always, since a call committed

vars == <<managers, calls, sent, failed, since>>

-----------------------------------------------------------------------------
(* Which notices a change has *)

\* The kinds in the order a call sends them; those without an entry or an
\* assignment behind them are left out.
Scripts(op) ==
    CASE op = "upsert" -> {<<>>, <<"unsubmitted">>, <<"override">>,
                           <<"unsubmitted", "override">>}
      [] op = "submit" -> {<<"submitted">>}
      [] op = "approve" -> {<<>>, <<"approved">>}
      [] op = "reopen" -> {<<"reopened">>}
      [] op = "grant" -> {<<"granted">>}
      [] op = "select" -> {<<"assigned">>, <<"assigned", "offer">>,
                           <<"assigned", "updated">>}
      [] op = "update" -> {<<>>, <<"offer">>, <<"updated">>, <<"assigned", "offer">>,
                           <<"offer", "updated">>, <<"assigned", "offer", "updated">>}
      [] op = "respond" -> {<<>>, <<"response">>}
      [] op = "decide" -> {<<>>, <<"decision">>}

\* The application is answered for without waiting for its email.
Detached(op) == op = "decide"

-----------------------------------------------------------------------------
(* Data *)

Notice == [kind: Kind, to: People \union {"topic"}]

Call == [phase: {"new", "post", "find", "mail", "done", "lost"},
         op: Operation \union {None},
         script: Seq(Kind),
         at: Nat,
         due: SUBSET People,
         answered: BOOLEAN]

TypeOK ==
    /\ managers \subseteq People
    /\ calls \in [Requests -> Call]
    /\ sent \in [Requests -> SUBSET Notice]
    /\ failed \in [Requests -> SUBSET Notice]
    /\ since \in [Requests -> [ever: SUBSET People, always: SUBSET People]]

Due(kind, people) == [kind: {kind}, to: people]

Current(r) == calls[r].script[calls[r].at]

\* The stage a call is in when it comes to a kind of its script: "done", and the
\* successful answer to the client, behind the last one.
Enter(call, at) ==
    IF at > Len(call.script)
    THEN [call EXCEPT !.at = at, !.due = {}, !.phase = "done", !.answered = TRUE]
    ELSE [call EXCEPT !.at = at, !.due = {},
              !.phase = IF call.script[at] \in Timesheet THEN "post" ELSE "find"]

-----------------------------------------------------------------------------
(* Steps *)

\* The change commits; whom it concerns is known, whom to tell is not.
Commit(r) ==
    \E op \in Ops[r] : \E script \in Scripts(op) :
        /\ calls[r].phase = "new"
        /\ calls' = [calls EXCEPT ![r] =
               Enter([@ EXCEPT !.op = op, !.script = script,
                               !.answered = Detached(op)], 1)]
        /\ since' = [since EXCEPT ![r] = [ever |-> managers, always |-> managers]]
        /\ UNCHANGED <<managers, sent, failed>>

\* Mutant: a bus failure skips the email.
AfterPostOnSuccess(r, ok) ==
    calls' = [calls EXCEPT ![r] =
        IF ok THEN [@ EXCEPT !.phase = "find"] ELSE Enter(@, @.at + 1)]

\* Mutant: a bus failure fails the call.
AfterPostOrThrow(r, ok) ==
    calls' = [calls EXCEPT ![r].phase = IF ok THEN "find" ELSE "done"]

\* Whether the event was posted makes no difference to what follows.
AfterPost(r, ok) == calls' = [calls EXCEPT ![r].phase = "find"]

Record(r, ok, notices) ==
    /\ sent' = IF ok THEN [sent EXCEPT ![r] = @ \union notices] ELSE sent
    /\ failed' = IF ok THEN failed ELSE [failed EXCEPT ![r] = @ \union notices]

PostEvent(r) ==
    \E ok \in BOOLEAN :
        /\ calls[r].phase = "post"
        /\ AfterPost(r, ok)
        /\ Record(r, ok, Due(Current(r), {"topic"}))
        /\ UNCHANGED <<managers, since>>

\* An event of its own needs no template.
Reachable(kind) == kind \in Templates \union {"assigned"}

\* Mutant: managers that were removed are not left out.
AddressedOnceManaged(r) ==
    CASE Current(r) = "submitted" -> People
      [] Current(r) = "response" -> Talent
      [] OTHER -> About[r]

Addressed(r) ==
    CASE Current(r) = "submitted" -> managers
      [] Current(r) = "response" -> Talent
      [] OTHER -> About[r]

\* The recipients are looked up when the mail is written: one without an address,
\* or whose lookup fails, is left out.  The addresses of the talent managers are
\* looked up in one batch, which may find any of them.
FindRecipients(r) ==
    /\ calls[r].phase = "find"
    /\ Reachable(Current(r))
    /\ \E found \in SUBSET Addressed(r) :
        /\ Current(r) = "assigned" => found = Addressed(r)
        /\ calls' = [calls EXCEPT ![r] =
               IF found = {} THEN Enter(@, @.at + 1)
               ELSE [@ EXCEPT !.phase = "mail", !.due = found]]
        /\ Record(r, FALSE, Due(Current(r), Addressed(r) \ found))
        /\ UNCHANGED <<managers, since>>

SkipUnconfigured(r) ==
    /\ calls[r].phase = "find"
    /\ ~Reachable(Current(r))
    /\ calls' = [calls EXCEPT ![r] = Enter(@, @.at + 1)]
    /\ UNCHANGED <<managers, sent, failed, since>>

\* One of the parallel posts settles; the last one ends the stage.
Publish(r) ==
    \E to \in calls[r].due, ok \in BOOLEAN :
        /\ calls[r].phase = "mail"
        /\ calls' = [calls EXCEPT ![r] =
               IF @.due = {to} THEN Enter(@, @.at + 1)
               ELSE [@ EXCEPT !.due = calls[r].due \ {to}]]
        /\ Record(r, ok, Due(Current(r), {to}))
        /\ UNCHANGED <<managers, since>>

\* The process is lost, and with it what the call has not sent.
Crash(r) ==
    /\ calls[r].phase \in {"post", "find", "mail"}
    /\ calls' = [calls EXCEPT ![r].phase = "lost"]
    /\ UNCHANGED <<managers, sent, failed, since>>

\* Managers are granted and removed by other calls.
ManagersChange ==
    \E p \in People :
        /\ managers' = IF p \in managers THEN managers \ {p} ELSE managers \union {p}
        /\ since' = [r \in Requests |->
               IF calls[r].phase = "new" THEN since[r]
               ELSE [ever |-> since[r].ever \union managers',
                     always |-> since[r].always \intersect managers']]
        /\ UNCHANGED <<calls, sent, failed>>

Init ==
    /\ managers \in SUBSET People
    /\ calls = [r \in Requests |-> [phase |-> "new", op |-> None, script |-> <<>>,
                                    at |-> 0, due |-> {}, answered |-> FALSE]]
    /\ sent = [r \in Requests |-> {}]
    /\ failed = [r \in Requests |-> {}]
    /\ since = [r \in Requests |-> [ever |-> {}, always |-> {}]]

Send(r) == PostEvent(r) \/ FindRecipients(r) \/ SkipUnconfigured(r) \/ Publish(r)

Next == \/ \E r \in Requests : Commit(r) \/ Send(r) \/ Crash(r)
        \/ ManagersChange

\* Every lookup and every post settles, as an answer or as a broken connection, and
\* the runtime resumes the call that waits for it; a peer that keeps a connection
\* open for ever is not considered.  Nothing makes a failed one succeed.
Fairness == \A r \in Requests : WF_vars(Send(r))

Spec == Init /\ [][Next]_vars /\ Fairness

-----------------------------------------------------------------------------
(* What notices promise *)

Told(r, kind) == {n.to : n \in {m \in sent[r] : m.kind = kind}} \ {"topic"}

Missed(r, kind) == {n.to : n \in {m \in failed[r] : m.kind = kind}} \ {"topic"}

\* A submission is mailed to managers only: to nobody who was not one at some
\* moment since the commit, and never to one removed before it, although
\* managers come and go while it is on its way (sendForEvent).
OnlyManagersAreTold ==
    \A r \in Requests : Told(r, "submitted") \subseteq since[r].ever

Passed(r) == {calls[r].script[i] : i \in 1 .. (calls[r].at - 1)}

MustHear(r, kind) == CASE kind = "submitted" -> since[r].always
                       [] kind = "response" -> Talent
                       [] OTHER -> About[r]

\* One failure costs one notice.  Whoever had to hear of a change has been told,
\* or that very notice has failed or had no address: not posting an event does
\* not keep its email from going out, nor one recipient's failure another's.
OneFailureOneNotice ==
    \A r \in Requests : calls[r].phase # "lost" => \A kind \in Passed(r) :
        /\ Reachable(kind) =>
               MustHear(r, kind) \subseteq Told(r, kind) \union Missed(r, kind)
        /\ kind \in Timesheet =>
               [kind |-> kind, to |-> "topic"] \in sent[r] \union failed[r]

\* Whatever fails on the way, a call that has committed is answered as a success,
\* unless its process is lost: notices are no reason to fail it (emit, the email
\* services: "never throws").
AnsweredAfterCommit ==
    \A r \in Requests : calls[r].phase \in {"post", "find", "mail"}
        ~> calls[r].answered \/ calls[r].phase = "lost"
=============================================================================
