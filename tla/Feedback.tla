------------------------------ MODULE Feedback ------------------------------
(***************************************************************************)
(* Feedback on an assignment and the experiences its member writes down    *)
(* (feedback.service.ts, member-experience.service.ts).                    *)
(*                                                                         *)
(* A talent manager writes feedback directly or sends a customer a link;   *)
(* whoever holds the link's secret answers until it expires, as often as   *)
(* they like.  Every statement is a step.  No handler deletes an           *)
(* assignment, or a row; a row has the name of the request that made it.   *)
(***************************************************************************)
EXTENDS Naturals, Sequences

CONSTANTS
    Requests,    \* API calls; each is issued at most once
    Calls,       \* Calls[r]: the operations r may be
    Caller,      \* Caller[r]: the user r authenticates as
    Assignments, \* the assignments; none is ever deleted
    Member,      \* Member[a]: the member assigned
    Tokens,      \* secret tokens, drawn at random: any draw may collide
    MaxAttempts, \* draws per link
    None         \* SQL NULL, or no row

Operation == {"link", "create", "submit", "describe", "revise"}

ASSUME CallsAssumption == Calls \in [Requests -> SUBSET Operation]
ASSUME AttemptsAssumption == MaxAttempts \in Nat \ {0}

VARIABLES
    feedback,    \* the EngagementFeedback table
    experiences, \* the MemberExperience table
    requests,    \* the state of every API call
    replies,     \* history: the secret each link request returned
    answers,     \* history: the submissions committed to each row, in order
    late         \* history: the submissions under way when a link expired

history == <<replies, answers, late>>

vars == <<feedback, experiences, requests, history>>

-----------------------------------------------------------------------------
(* Data *)

Caused == Requests \union {None}

\* Text and rating are known by the request that gave them; the text of a link
\* nobody has answered is empty.
Row == [assignment: Assignments, text: Caused, rating: Caused,
        token: Tokens \union {None}, expired: BOOLEAN]

Experience == [assignment: Assignments, text: Requests]

ASSUME NoneAssumption == None \notin Requests \union Tokens \union Operation
                                    \union Row \union Experience

\* An optional field that is null passes validation and is written.
Given == {"given", "null", "absent"}

Answer == [by: Requests, rating: Given]

Request == [phase: {"new", "draw", "find", "write", "done"},
            op: Operation \union {None},
            assignment: Assignments \union {None},
            row: Caused,
            attempt: 0 .. MaxAttempts]

TypeOK ==
    /\ feedback \in [Requests -> Row \union {None}]
    /\ experiences \in [Requests -> Experience \union {None}]
    /\ requests \in [Requests -> Request]
    /\ replies \in [Requests -> Tokens \union {None}]
    /\ answers \in [Requests -> Seq(Answer)]
    /\ late \in [Requests -> SUBSET Requests]

State(phase, op, a, row, attempt) ==
    [phase |-> phase, op |-> op, assignment |-> a, row |-> row,
     attempt |-> attempt]

Idle(phase) == State(phase, None, None, None, 0)

Finish(r) == requests' = [requests EXCEPT ![r] = Idle("done")]

Starts(r, op) == requests[r].phase = "new" /\ op \in Calls[r]

Writes(r, op) == requests[r].phase = "write" /\ requests[r].op = op

-----------------------------------------------------------------------------
(* Feedback *)

\* The assignment exists; which engagement it belongs to never changes.
FindAssignment(r, op, phase) ==
    \E a \in Assignments :
        /\ Starts(r, op)
        /\ requests' = [requests EXCEPT ![r] = State(phase, op, a, None, 1)]
        /\ UNCHANGED <<experiences, feedback, history>>

LinkRead(r) == FindAssignment(r, "link", "draw")
CreateRead(r) == FindAssignment(r, "create", "write")

\* Mutant: the column is not unique.
NeverTaken(t) == FALSE

Taken(t) == \E f \in Requests : feedback[f] # None /\ feedback[f].token = t

\* Mutant: draws are not counted.
DrawUncounted(r) == UNCHANGED requests

\* A secret that is taken is drawn again, up to the last attempt.
DrawAgain(r) ==
    IF requests[r].attempt < MaxAttempts
    THEN requests' = [requests EXCEPT ![r].attempt = @ + 1]
    ELSE Finish(r)

DrawTaken(r) ==
    /\ requests[r].phase = "draw"
    /\ \E t \in Tokens : Taken(t)
    /\ DrawAgain(r)
    /\ UNCHANGED <<experiences, feedback, history>>

DrawFresh(r) ==
    \E t \in Tokens :
        /\ requests[r].phase = "draw"
        /\ ~Taken(t)
        /\ feedback' = [feedback EXCEPT ![r] =
               [assignment |-> requests[r].assignment, text |-> None,
                rating |-> None, token |-> t, expired |-> FALSE]]
        /\ replies' = [replies EXCEPT ![r] = t]
        /\ Finish(r)
        /\ UNCHANGED <<experiences, answers, late>>

CreateWrite(r) ==
    \E rating \in Given :
        /\ Writes(r, "create")
        /\ feedback' = [feedback EXCEPT ![r] =
               [assignment |-> requests[r].assignment, text |-> r,
                rating |-> IF rating = "given" THEN r ELSE None,
                token |-> None, expired |-> FALSE]]
        /\ Finish(r)
        /\ UNCHANGED <<experiences, history>>

\* Mutant: an expired link is good for whoever has it.
LiveUnlessGone(f) == feedback[f] # None /\ feedback[f].token # None

Live(f) == /\ feedback[f] # None
           /\ feedback[f].token # None
           /\ ~feedback[f].expired

\* validateSecretToken, for a submission.
SubmitRead(r) ==
    \E f \in Requests :
        /\ Starts(r, "submit")
        /\ Live(f)
        /\ requests' = [requests EXCEPT ![r] =
               State("write", "submit", None, f, 0)]
        /\ UNCHANGED <<experiences, feedback, history>>

\* Mutant: a rating that is not given is cleared.
RatingReplaced(row, r, rating) == IF rating = "given" THEN r ELSE None

\* A rating that is not given is not among the updated columns; a null one is.
Rating(row, r, rating) == CASE rating = "given" -> r
                            [] rating = "null" -> None
                            [] rating = "absent" -> row.rating

SubmitWrite(r) ==
    \E rating \in Given :
        LET f == requests[r].row IN
        /\ Writes(r, "submit")
        /\ feedback' = [feedback EXCEPT ![f].text = r,
                            ![f].rating = Rating(feedback[f], r, rating)]
        /\ answers' = [answers EXCEPT ![f] =
               Append(@, [by |-> r, rating |-> rating])]
        /\ Finish(r)
        /\ UNCHANGED <<experiences, replies, late>>

-----------------------------------------------------------------------------
(* Experiences *)

Owns(r, a) == Member[a] = Caller[r]

DescribeRead(r) ==
    \E a \in Assignments :
        /\ Starts(r, "describe") /\ Owns(r, a)
        /\ requests' = [requests EXCEPT ![r] = State("write", "describe", a, None, 0)]
        /\ UNCHANGED <<experiences, feedback, history>>

DescribeWrite(r) ==
    /\ Writes(r, "describe")
    /\ experiences' = [experiences EXCEPT ![r] =
           [assignment |-> requests[r].assignment, text |-> r]]
    /\ Finish(r)
    /\ UNCHANGED <<feedback, history>>

ReviseRead(r) ==
    \E a \in Assignments :
        /\ Starts(r, "revise")
        /\ requests' = [requests EXCEPT ![r] = State("find", "revise", a, None, 0)]
        /\ UNCHANGED <<experiences, feedback, history>>

\* Mutant: the assignment of the path need not be the experience's.
FoundAnywhere(x, a) == experiences[x] # None

FoundAt(x, a) == experiences[x] # None /\ experiences[x].assignment = a

\* The experience is the assignment's, then the caller is the member.
ReviseFind(r) ==
    \E x \in Requests :
        LET a == requests[r].assignment IN
        /\ requests[r].phase = "find"
        /\ FoundAt(x, a)
        /\ Owns(r, a)
        /\ requests' = [requests EXCEPT ![r] = State("write", "revise", a, x, 0)]
        /\ UNCHANGED <<experiences, feedback, history>>

ReviseWrite(r) ==
    LET x == requests[r].row IN
    /\ Writes(r, "revise")
    /\ experiences' = [experiences EXCEPT ![x].text = r]
    /\ Finish(r)
    /\ UNCHANGED <<feedback, history>>

-----------------------------------------------------------------------------
(* The rest of the world *)

\* Any statement fails, the experience that is named is another assignment's or
\* another member's, or the process is lost.
Abort(r) ==
    /\ requests[r].phase \in {"draw", "find", "write"}
    /\ Finish(r)
    /\ UNCHANGED <<experiences, feedback, history>>

\* The clock passes secretTokenExpiresAt.
Expire(f) ==
    /\ Live(f)
    /\ feedback' = [feedback EXCEPT ![f].expired = TRUE]
    /\ late' = [late EXCEPT ![f] =
           {r \in Requests : Writes(r, "submit") /\ requests[r].row = f}]
    /\ UNCHANGED <<experiences, requests, replies, answers>>

Init ==
    /\ feedback = [f \in Requests |-> None]
    /\ experiences = [x \in Requests |-> None]
    /\ requests = [r \in Requests |-> Idle("new")]
    /\ replies = [r \in Requests |-> None]
    /\ answers = [f \in Requests |-> <<>>]
    /\ late = [f \in Requests |-> {}]

Begin(r) == LinkRead(r) \/ CreateRead(r) \/ SubmitRead(r) \/ DescribeRead(r)
            \/ ReviseRead(r)

Draw(r) == DrawTaken(r) \/ DrawFresh(r)

Continue(r) == Draw(r) \/ CreateWrite(r) \/ SubmitWrite(r)
               \/ DescribeWrite(r) \/ ReviseFind(r) \/ ReviseWrite(r)

Next == \E r \in Requests : Begin(r) \/ Continue(r) \/ Abort(r) \/ Expire(r)

Spec == Init /\ [][Next]_vars

\* The database answers every statement and the runtime resumes its caller:
\* a request under way takes its next step.  That it aborts is never promised.
Fairness == \A r \in Requests : WF_vars(Continue(r))

FairSpec == Spec /\ Fairness

-----------------------------------------------------------------------------
(* What feedback promises *)

\* A link opens the feedback it was generated for: the secret a caller was given
\* is the secret of one row, the caller's, although draws collide
\* (generateFeedbackLink's retries, the unique column).
LinkOpensItsRow ==
    \A r \in Requests : replies[r] # None =>
        \A f \in Requests : feedback[f] # None /\ feedback[f].token = replies[r]
                               <=> f = r

RatedBy(f) == {i \in DOMAIN answers[f] : answers[f][i].rating # "absent"}

LastRated(f) == CHOOSE i \in RatedBy(f) : \A j \in RatedBy(f) : j <= i

\* The rating of an answer that has one, be it null.
RatingOf(answer) == IF answer.rating = "given" THEN answer.by ELSE None

\* A link's row holds the text submitted last and the rating of the last
\* submission that named one: a submission without the field leaves the rating,
\* one with a null in it takes the rating back, however submissions interleave.
\* Feedback written directly never changes (submitAnonymousFeedback).
LastAnswerStands ==
    \A f \in Requests : feedback[f] # None =>
        IF feedback[f].token = None
        THEN feedback[f].text = f /\ feedback[f].rating \in {f, None}
        ELSE /\ feedback[f].text = (IF answers[f] = <<>> THEN None
                                    ELSE answers[f][Len(answers[f])].by)
             /\ feedback[f].rating = (IF RatedBy(f) = {} THEN None
                                      ELSE RatingOf(answers[f][LastRated(f)]))

\* An expired link is answered only by submissions that passed the check before
\* it expired (validateSecretToken, then the update).
ExpiredIsFinal ==
    [][\A f \in Requests :
          feedback[f] # None /\ feedback[f].expired /\ answers'[f] # answers[f]
          => \E r \in late[f], rating \in Given :
                answers'[f] = Append(answers[f], [by |-> r, rating |-> rating])]_vars

\* What is written down as a member's experience of an assignment was written
\* by that member, whatever path the caller put together from an assignment of
\* their own and another's experience (update's membership checks).
ExperiencesAreOwn ==
    \A x \in Requests : experiences[x] # None =>
        Member[experiences[x].assignment] = Caller[experiences[x].text]

\* A link request ends, whatever the draws: collisions cannot keep it going.
LinkEnds ==
    \A r \in {s \in Requests : "link" \in Calls[s]} :
        requests[r].phase = "draw" ~> requests[r].phase = "done"
=============================================================================
