--------------------------- MODULE FeedbackProofs ---------------------------
(***************************************************************************)
(* The properties of Feedback, for any number of requests, assignments,    *)
(* tokens and draws.                                                       *)
(***************************************************************************)
EXTENDS Feedback, TLAPS, SequenceTheorems, WellFoundedInduction

Made(x) == x \in Requests /\ requests[x].phase = "done"

\* A submission found a link, and if it has expired meanwhile the submission is
\* among those that were under way.
AnswersTo(r, f) ==
    /\ Made(f)
    /\ feedback[f] # None /\ feedback[f].token # None
    /\ feedback[f].expired => r \in late[f]

\* The experience a revision found is of an assignment of the caller.
Revises(r, x) ==
    Made(x) /\ experiences[x] # None /\ Owns(r, experiences[x].assignment)

\* What r in the state q relies on.
Sound(r, q) ==
    /\ \/ q.phase \in {"draw", "find"}
       \/ q.phase = "write" /\ q.op \in {"create", "describe"}
       => q.assignment \in Assignments
    /\ q.phase = "write" /\ q.op = "describe" => Owns(r, q.assignment)
    /\ q.phase = "write" /\ q.op = "submit" => AnswersTo(r, q.row)
    /\ q.phase = "write" /\ q.op = "revise" => Revises(r, q.row)

\* A request that has not ended has written nothing, so nothing is about it.
Unspent(r) ==
    requests[r].phase # "done" =>
        /\ feedback[r] = None /\ experiences[r] = None
        /\ replies[r] = None /\ answers[r] = <<>>

\* A link has its row, a row keeps the secret that was returned for it, and what was written to it was
\* written by requests that have ended.
Known(f) ==
    /\ replies[f] # None => feedback[f] # None
    /\ feedback[f] # None =>
        /\ feedback[f].token = replies[f]
        /\ \A r \in Requests : r \in {feedback[f].text, feedback[f].rating} => Made(r)

\* The unique column.
TokensUnique ==
    \A f, g \in Requests :
        feedback[f] # None /\ feedback[g] # None
        /\ feedback[f].token = feedback[g].token /\ feedback[f].token # None => f = g

Inductive ==
    /\ TypeOK
    /\ \A r \in Requests : Sound(r, requests[r]) /\ Unspent(r) /\ Known(r)
    /\ TokensUnique
    /\ LastAnswerStands
    /\ ExperiencesAreOwn

-----------------------------------------------------------------------------
(* Steps that only move the request *)

LEMMA Moves ==
    ASSUME Inductive, NEW r \in Requests, NEW q \in Request,
           requests[r].phase # "done", Sound(r, q),
           requests' = [requests EXCEPT ![r] = q],
           UNCHANGED <<experiences, feedback, history>>
    PROVE  Inductive'
  <1>1. \A s \in Requests : requests'[s] = IF s = r THEN q ELSE requests[s]
    BY DEF Inductive, TypeOK
  <1>2. \A x : Made(x) => Made(x)'
    BY <1>1 DEF Made
  <1>3. TypeOK'
    BY DEF Inductive, TypeOK, history
  <1>4. ASSUME NEW s \in Requests PROVE Sound(s, requests[s])'
    <2>1. Sound(s, requests'[s])
      BY <1>1 DEF Inductive
    <2>2. QED
      BY <2>1, <1>2 DEF Sound, AnswersTo, Revises, Owns, history
  <1>5. ASSUME NEW s \in Requests PROVE Unspent(s)' /\ Known(s)'
    BY <1>1, <1>2 DEF Inductive, Unspent, Known, history
  <1>6. TokensUnique' /\ ExperiencesAreOwn'
    BY DEF Inductive, TokensUnique, ExperiencesAreOwn, history
  <1>7. LastAnswerStands'
    <2>1. feedback' = feedback /\ answers' = answers
      BY DEF history
    <2>2. LastAnswerStands
      BY DEF Inductive
    <2>3. ASSUME NEW f \in Requests
          PROVE  RatedBy(f)' = RatedBy(f) /\ LastRated(f)' = LastRated(f)
      <3>1. RatedBy(f)' = RatedBy(f)
        BY <2>1 DEF RatedBy
      <3>2. QED
        BY <3>1, Zenon DEF LastRated
    <2>4. QED
      BY <2>1, <2>2, <2>3 DEF LastAnswerStands
  <1>8. QED
    BY <1>3, <1>4, <1>5, <1>6, <1>7 DEF Inductive

LEMMA IdleRequest == Idle("done") \in Request /\ \A r : Sound(r, Idle("done"))
  BY AttemptsAssumption, NoneAssumption DEF Idle, State, Request, Sound, Operation, Caused

\* Each of these steps is such a move.
LEMMA BeginMoves ==
    ASSUME Inductive, NEW r \in Requests, Begin(r) PROVE Inductive'
  <1> USE CallsAssumption, AttemptsAssumption, NoneAssumption
  <1>1. ASSUME NEW op \in {"link", "create"}, NEW phase \in {"draw", "write"},
               FindAssignment(r, op, phase), op = "link" => phase = "draw"
        PROVE  Inductive'
    <2>1. PICK a \in Assignments :
              /\ Starts(r, op)
              /\ requests' = [requests EXCEPT ![r] = State(phase, op, a, None, 1)]
              /\ UNCHANGED <<experiences, feedback, history>>
      BY <1>1 DEF FindAssignment
    <2>2. /\ State(phase, op, a, None, 1) \in Request
          /\ Sound(r, State(phase, op, a, None, 1))
      BY <1>1 DEF State, Request, Sound, Operation, Caused, Inductive, TypeOK
    <2>3. QED
      BY <2>1, <2>2, Moves DEF Starts
  <1>2. CASE SubmitRead(r)
    <2>1. PICK f \in Requests :
              /\ Starts(r, "submit") /\ Live(f)
              /\ requests' = [requests EXCEPT ![r] =
                     State("write", "submit", None, f, 0)]
              /\ UNCHANGED <<experiences, feedback, history>>
      BY <1>2 DEF SubmitRead
    <2>2. State("write", "submit", None, f, 0) \in Request
      BY DEF State, Request, Operation, Caused
    <2>3. AnswersTo(r, f)
      BY <2>1 DEF Live, AnswersTo, Made, Inductive, Unspent
    <2>4. Sound(r, State("write", "submit", None, f, 0))
      BY <2>3 DEF Sound, State
    <2>5. QED
      BY <2>1, <2>2, <2>4, Moves DEF Starts
  <1>3. CASE DescribeRead(r)
    <2>1. PICK a \in Assignments :
              /\ Starts(r, "describe") /\ Owns(r, a)
              /\ requests' = [requests EXCEPT ![r] =
                     State("write", "describe", a, None, 0)]
              /\ UNCHANGED <<experiences, feedback, history>>
      BY <1>3 DEF DescribeRead
    <2>2. /\ State("write", "describe", a, None, 0) \in Request
          /\ Sound(r, State("write", "describe", a, None, 0))
      BY <2>1 DEF State, Request, Sound, Operation, Caused, Inductive, TypeOK
    <2>3. QED
      BY <2>1, <2>2, Moves DEF Starts
  <1>4. CASE ReviseRead(r)
    <2>1. PICK a \in Assignments :
              /\ Starts(r, "revise")
              /\ requests' = [requests EXCEPT ![r] = State("find", "revise", a, None, 0)]
              /\ UNCHANGED <<experiences, feedback, history>>
      BY <1>4 DEF ReviseRead
    <2>2. /\ State("find", "revise", a, None, 0) \in Request
          /\ Sound(r, State("find", "revise", a, None, 0))
      BY <2>1 DEF State, Request, Sound, Operation, Caused, Inductive, TypeOK
    <2>3. QED
      BY <2>1, <2>2, Moves DEF Starts
  <1>5. QED
    BY <1>1, <1>2, <1>3, <1>4 DEF Begin, LinkRead, CreateRead

LEMMA EndMoves ==
    ASSUME Inductive, NEW r \in Requests, Abort(r) PROVE Inductive'
  <1>1. requests[r].phase # "done"
    BY DEF Abort
  <1>2. /\ requests' = [requests EXCEPT ![r] = Idle("done")]
        /\ UNCHANGED <<experiences, feedback, history>>
    BY DEF Abort, Finish
  <1>3. QED
    BY <1>1, <1>2, IdleRequest, Moves

LEMMA DrawMoves ==
    ASSUME Inductive, NEW r \in Requests, DrawTaken(r) PROVE Inductive'
  <1>1. /\ requests[r].phase = "draw" /\ DrawAgain(r)
        /\ UNCHANGED <<experiences, feedback, history>>
    BY DEF DrawTaken
  <1>2. CASE requests[r].attempt < MaxAttempts
    <2> DEFINE q == [requests[r] EXCEPT !.attempt = @ + 1]
    <2>1. requests[r] \in Request
      BY DEF Inductive, TypeOK
    <2>2. requests' = [requests EXCEPT ![r] = q]
      BY <1>1, <1>2 DEF DrawAgain
    <2>3. q \in Request /\ q.phase = "draw" /\ q.assignment = requests[r].assignment
      BY <2>1, <1>1, <1>2, AttemptsAssumption DEF Request
    <2>4. Sound(r, requests[r])
      BY DEF Inductive
    <2>5. Sound(r, q)
      BY <2>3, <2>4, <1>1 DEF Sound
    <2> HIDE DEF q
    <2>6. QED
      BY <1>1, <2>2, <2>3, <2>5, Moves
  <1>3. CASE ~(requests[r].attempt < MaxAttempts)
    BY <1>1, <1>3, IdleRequest, Moves DEF DrawAgain, Finish
  <1>4. QED
    BY <1>2, <1>3

LEMMA FindMoves ==
    ASSUME Inductive, NEW r \in Requests, ReviseFind(r) PROVE Inductive'
  <1> USE AttemptsAssumption
  <1> DEFINE a == requests[r].assignment
  <1>1. PICK x \in Requests :
            /\ requests[r].phase = "find" /\ FoundAt(x, a) /\ Owns(r, a)
            /\ requests' = [requests EXCEPT ![r] = State("write", "revise", a, x, 0)]
            /\ UNCHANGED <<experiences, feedback, history>>
    BY DEF ReviseFind
  <1>2. a \in Assignments
    BY <1>1 DEF Inductive, Sound
  <1>3. State("write", "revise", a, x, 0) \in Request
    BY <1>2 DEF State, Request, Operation, Caused
  <1>4. Revises(r, x)
    BY <1>1 DEF FoundAt, Revises, Made, Inductive, Unspent
  <1>5. Sound(r, State("write", "revise", a, x, 0))
    BY <1>4 DEF Sound, State
  <1>6. QED
    BY <1>1, <1>3, <1>5, Moves

-----------------------------------------------------------------------------
(* Steps that write *)

\* A request that ends is done; the others are where they were.
LEMMA Ends ==
    ASSUME Inductive, NEW r \in Requests, Finish(r)
    PROVE  /\ requests' \in [Requests -> Request]
           /\ \A s \in Requests : requests'[s] = IF s = r THEN Idle("done") ELSE requests[s]
           /\ \A x : Made(x) => Made(x)'
           /\ Made(r)'
  <1>1. requests' = [requests EXCEPT ![r] = Idle("done")] /\ Idle("done") \in Request
    BY IdleRequest DEF Finish
  <1>2. requests \in [Requests -> Request]
    BY DEF Inductive, TypeOK
  <1>3. Idle("done").phase = "done"
    BY DEF Idle, State
  <1>4. QED
    BY <1>1, <1>2, <1>3 DEF Made

\* What keeps what was answered and said of a row keeps the rest.
LEMMA StandsAlike ==
    ASSUME NEW f \in Requests, answers'[f] = answers[f]
    PROVE  RatedBy(f)' = RatedBy(f) /\ LastRated(f)' = LastRated(f)
  <1>1. RatedBy(f)' = RatedBy(f)
    BY DEF RatedBy
  <1>2. QED
    BY <1>1, Zenon DEF LastRated

LEMMA NewRow ==
    ASSUME Inductive, NEW r \in Requests, requests[r].phase # "done", NEW row \in Row,
           feedback' = [feedback EXCEPT ![r] = row],
           replies' = [replies EXCEPT ![r] = row.token],
           UNCHANGED <<experiences, answers, late>>, Finish(r),
           row.token # None => ~Taken(row.token),
           IF row.token = None THEN row.text = r /\ row.rating \in {r, None}
                               ELSE row.text = None /\ row.rating = None
    PROVE  Inductive'
  <1> USE NoneAssumption
  <1>1. /\ \A f \in Requests : feedback'[f] = IF f = r THEN row ELSE feedback[f]
        /\ \A f \in Requests : replies'[f] = IF f = r THEN row.token ELSE replies[f]
    BY DEF Inductive, TypeOK
  <1>2. TypeOK'
    <2>1. row.token \in Tokens \union {None}
      BY DEF Row
    <2>2. QED
      BY <2>1, Ends DEF Inductive, TypeOK
  <1>3. ASSUME NEW s \in Requests PROVE Sound(s, requests[s])'
    <2>1. CASE s = r
      BY <2>1, Ends, IdleRequest DEF Sound, Idle, State
    <2>2. CASE s # r
      <3>1. requests'[s] = requests[s] /\ Sound(s, requests[s])
        BY <2>2, Ends DEF Inductive
      <3>2. \A f : AnswersTo(s, f) => AnswersTo(s, f)'
        BY <1>1, Ends DEF AnswersTo, Made
      <3>3. \A x : Revises(s, x) => Revises(s, x)'
        BY Ends DEF Revises, Owns
      <3>4. QED
        BY <3>1, <3>2, <3>3 DEF Sound, Owns
    <2>3. QED
      BY <2>1, <2>2
  <1>4. ASSUME NEW s \in Requests PROVE Unspent(s)'
    BY <1>1, Ends DEF Inductive, Unspent, Idle, State
  <1>5. ASSUME NEW s \in Requests PROVE Known(s)'
    <2>1. CASE s = r
      BY <2>1, <1>1, Ends DEF Known
    <2>2. CASE s # r
      BY <2>2, <1>1, Ends DEF Inductive, Known
    <2>3. QED
      BY <2>1, <2>2
  <1>6. TokensUnique'
    BY <1>1 DEF Inductive, TokensUnique, Taken
  <1>7. LastAnswerStands'
    <2> SUFFICES ASSUME NEW f \in Requests, feedback'[f] # None
                 PROVE  IF feedback'[f].token = None
                        THEN feedback'[f].text = f /\ feedback'[f].rating \in {f, None}
                        ELSE /\ feedback'[f].text = (IF answers[f] = <<>> THEN None
                                    ELSE answers[f][Len(answers[f])].by)
                             /\ feedback'[f].rating = (IF RatedBy(f) = {} THEN None
                                      ELSE RatingOf(answers[f][LastRated(f)]))
      BY StandsAlike DEF LastAnswerStands
    <2>1. CASE f = r
      <3>1. answers[f] = <<>>
        BY <2>1 DEF Inductive, Unspent
      <3>2. RatedBy(f) = {}
        BY <3>1 DEF RatedBy
      <3>3. QED
        BY <2>1, <3>1, <3>2, <1>1
    <2>2. CASE f # r
      BY <2>2, <1>1 DEF Inductive, LastAnswerStands
    <2>3. QED
      BY <2>1, <2>2
  <1>8. ExperiencesAreOwn'
    BY DEF Inductive, ExperiencesAreOwn
  <1>9. QED
    BY <1>2, <1>3, <1>4, <1>5, <1>6, <1>7, <1>8 DEF Inductive

LEMMA DrawFreshStep ==
    ASSUME Inductive, NEW r \in Requests, DrawFresh(r) PROVE Inductive'
  <1>1. PICK t \in Tokens :
            /\ requests[r].phase = "draw"
            /\ ~Taken(t)
            /\ feedback' = [feedback EXCEPT ![r] =
                   [assignment |-> requests[r].assignment, text |-> None,
                    rating |-> None, token |-> t, expired |-> FALSE]]
            /\ replies' = [replies EXCEPT ![r] = t]
            /\ Finish(r)
            /\ UNCHANGED <<experiences, answers, late>>
    BY DEF DrawFresh
  <1> DEFINE row == [assignment |-> requests[r].assignment, text |-> None,
                     rating |-> None, token |-> t, expired |-> FALSE]
  <1>assigned. requests[r].assignment \in Assignments
    BY <1>1 DEF Inductive, Sound
  <1>2. row \in Row /\ t # None
    BY <1>1, <1>assigned, NoneAssumption DEF Row, Caused
  <1>3. row.token = t /\ row.text = None /\ row.rating = None
    OBVIOUS
  <1> HIDE DEF row
  <1>4. feedback' = [feedback EXCEPT ![r] = row]
    BY <1>1 DEF row
  <1>5. QED
    BY <1>1, <1>2, <1>3, <1>4, NewRow

LEMMA CreateStep ==
    ASSUME Inductive, NEW r \in Requests, CreateWrite(r) PROVE Inductive'
  <1>1. PICK rating \in Given :
            /\ Writes(r, "create")
            /\ feedback' = [feedback EXCEPT ![r] =
                   [assignment |-> requests[r].assignment, text |-> r,
                    rating |-> IF rating = "given" THEN r ELSE None,
                    token |-> None, expired |-> FALSE]]
            /\ Finish(r)
            /\ UNCHANGED <<experiences, history>>
    BY DEF CreateWrite
  <1> DEFINE row == [assignment |-> requests[r].assignment, text |-> r,
                     rating |-> IF rating = "given" THEN r ELSE None,
                     token |-> None, expired |-> FALSE]
  <1>assigned. requests[r].assignment \in Assignments
    BY <1>1 DEF Inductive, Sound, Writes
  <1>2. row \in Row
    BY <1>assigned DEF Row, Caused
  <1>3. row.token = None /\ row.text = r /\ row.rating \in {r, None}
    OBVIOUS
  <1>4. requests[r].phase # "done"
    BY <1>1 DEF Writes
  <1>5. replies' = [replies EXCEPT ![r] = None]
    BY <1>1, <1>4 DEF Inductive, Unspent, TypeOK, history
  <1> HIDE DEF row
  <1>6. feedback' = [feedback EXCEPT ![r] = row]
    BY <1>1 DEF row
  <1>7. UNCHANGED <<experiences, answers, late>>
    BY <1>1 DEF history
  <1>8. QED
    BY <1>1, <1>2, <1>3, <1>4, <1>5, <1>6, <1>7, NewRow

\* One more answer: the last with a rating is it, if it has one, or is the same.
LEMMA OneMoreAnswer ==
    ASSUME NEW f \in Requests, answers[f] \in Seq(Answer), NEW answer \in Answer,
           answers'[f] = Append(answers[f], answer)
    PROVE  LET n == Len(answers[f]) + 1 IN
           /\ answers'[f] # <<>> /\ Len(answers'[f]) = n /\ answers'[f][n] = answer
           /\ answers'[f] \in Seq(Answer)
           /\ answer.rating # "absent" => RatedBy(f)' # {} /\ LastRated(f)' = n
           /\ answer.rating = "absent" =>
                  /\ RatedBy(f)' = RatedBy(f) /\ LastRated(f)' = LastRated(f)
                  /\ \A i \in RatedBy(f) : answers'[f][i] = answers[f][i]
  <1> DEFINE n == Len(answers[f]) + 1
  <1>1. /\ answers'[f] # <<>> /\ Len(answers'[f]) = n /\ answers'[f][n] = answer
        /\ answers'[f] \in Seq(Answer)
        /\ \A i \in 1 .. Len(answers[f]) : answers'[f][i] = answers[f][i]
    BY AppendProperties
  <1>2. /\ DOMAIN answers[f] = 1 .. Len(answers[f]) /\ DOMAIN answers'[f] = 1 .. n
        /\ Len(answers[f]) \in Nat
    BY <1>1, LenProperties
  <1>3. RatedBy(f)' = RatedBy(f) \union (IF answer.rating # "absent" THEN {n} ELSE {})
    BY <1>1, <1>2 DEF RatedBy
  <1>4. \A i \in RatedBy(f) : i \in 1 .. Len(answers[f])
    BY <1>2 DEF RatedBy
  <1>5. ASSUME answer.rating # "absent" PROVE LastRated(f)' = n
    <2>1. n \in RatedBy(f)' /\ \A j \in RatedBy(f)' : j \in Nat /\ j <= n
      BY <1>2, <1>3, <1>4, <1>5
    <2>2. \A i \in RatedBy(f)' : n <= i => i = n
      BY <2>1, <1>2
    <2>3. QED
      BY <2>1, <2>2 DEF LastRated
  <1>6. ASSUME answer.rating = "absent"
        PROVE  RatedBy(f)' = RatedBy(f) /\ LastRated(f)' = LastRated(f)
    <2>1. RatedBy(f)' = RatedBy(f)
      BY <1>3, <1>6
    <2>2. QED
      BY <2>1, Zenon DEF LastRated
  <1>7. QED
    BY <1>1, <1>3, <1>4, <1>5, <1>6

LEMMA SomeLeast ==
    ASSUME NEW S \in SUBSET Nat, S # {} PROVE \E n \in S : \A m \in S : n <= m
  <1>1. PICK n \in S : \A m \in S : ~(<<m, n>> \in OpToRel(<, Nat))
    BY NatLessThanWellFounded, WFMin
  <1>2. \A m \in S : ~(m < n)
    BY <1>1 DEF OpToRel
  <1>3. QED
    BY <1>2

\* Answers are numbered, so among those with a rating there is a last.
LEMMA LastRatedIs ==
    ASSUME NEW f \in Requests, answers[f] \in Seq(Answer), RatedBy(f) # {}
    PROVE  LastRated(f) \in RatedBy(f)
  <1> DEFINE n == Len(answers[f])
             Behind == {n - i : i \in RatedBy(f)}
  <1>1. n \in Nat /\ RatedBy(f) \subseteq 1 .. n
    BY LenProperties DEF RatedBy
  <1>2. Behind \in SUBSET Nat /\ Behind # {}
    BY <1>1
  <1> HIDE DEF Behind
  <1>3. PICK d \in Behind : \A e \in Behind : d <= e
    BY <1>2, SomeLeast
  <1> USE DEF Behind
  <1>4. PICK i \in RatedBy(f) : d = n - i
    OBVIOUS
  <1>5. \A j \in RatedBy(f) : n - i <= n - j
    BY <1>3, <1>4
  <1>6. \A j \in RatedBy(f) : j <= i
    BY <1>1, <1>5
  <1>7. QED
    BY <1>6 DEF LastRated

\* What a submission writes.
LEMMA SubmitWrites ==
    ASSUME Inductive, NEW r \in Requests, SubmitWrite(r)
    PROVE  \E rating \in Given, f \in Requests :
               /\ Writes(r, "submit") /\ f = requests[r].row /\ f # r
               /\ AnswersTo(r, f) /\ feedback[f] # None /\ feedback[f] \in Row
               /\ Finish(r)
               /\ feedback' \in [Requests -> Row \union {None}]
               /\ \A g \in Requests : g # f => feedback'[g] = feedback[g]
               /\ feedback'[f] = [feedback[f] EXCEPT !.text = r,
                                     !.rating = Rating(feedback[f], r, rating)]
               /\ answers' = [answers EXCEPT ![f] =
                      Append(@, [by |-> r, rating |-> rating])]
               /\ UNCHANGED <<experiences, replies, late>>
  <1> DEFINE f == requests[r].row
  <1>1. PICK rating \in Given :
            /\ Writes(r, "submit")
            /\ feedback' = [feedback EXCEPT ![f].text = r,
                                ![f].rating = Rating(feedback[f], r, rating)]
            /\ answers' = [answers EXCEPT ![f] =
                   Append(@, [by |-> r, rating |-> rating])]
            /\ Finish(r)
            /\ UNCHANGED <<experiences, replies, late>>
    BY DEF SubmitWrite
  <1>2. AnswersTo(r, f)
    BY <1>1 DEF Inductive, Sound, Writes
  <1>3. f \in Requests /\ f # r /\ feedback[f] # None /\ feedback[f] \in Row
    BY <1>1, <1>2 DEF AnswersTo, Made, Writes, Inductive, TypeOK
  <1> DEFINE row == [feedback[f] EXCEPT !.text = r, !.rating = Rating(feedback[f], r, rating)]
  <1>4. row \in Row
    BY <1>3 DEF Row, Caused, Rating, Given
  <1>5. feedback' = [feedback EXCEPT ![f] = row]
    BY <1>1, <1>3 DEF Row, Inductive, TypeOK
  <1> HIDE DEF row
  <1>6. /\ feedback' \in [Requests -> Row \union {None}] /\ feedback'[f] = row
        /\ \A g \in Requests : g # f => feedback'[g] = feedback[g]
    BY <1>3, <1>4, <1>5 DEF Inductive, TypeOK
  <1>7. QED
    BY <1>1, <1>2, <1>3, <1>6 DEF row

\* A rating is one that was there, the answer's, or none.
LEMMA RatingKnown ==
    ASSUME NEW row, NEW r, NEW rating \in Given
    PROVE  Rating(row, r, rating) \in {row.rating, r, None}
  BY DEF Rating, Given

LEMMA SubmitStep ==
    ASSUME Inductive, NEW r \in Requests, SubmitWrite(r) PROVE Inductive'
  <1>1. PICK rating \in Given, f \in Requests :
               /\ Writes(r, "submit") /\ f = requests[r].row /\ f # r
               /\ AnswersTo(r, f) /\ feedback[f] # None /\ feedback[f] \in Row
               /\ Finish(r)
               /\ feedback' \in [Requests -> Row \union {None}]
               /\ \A g \in Requests : g # f => feedback'[g] = feedback[g]
               /\ feedback'[f] = [feedback[f] EXCEPT !.text = r,
                                     !.rating = Rating(feedback[f], r, rating)]
               /\ answers' = [answers EXCEPT ![f] =
                      Append(@, [by |-> r, rating |-> rating])]
               /\ UNCHANGED <<experiences, replies, late>>
    BY SubmitWrites
  <1> DEFINE answer == [by |-> r, rating |-> rating]
  <1>rows. /\ f \in Requests /\ feedback[f] # None
           /\ \A g \in Requests : g # f => feedback'[g] = feedback[g]
           /\ experiences' = experiences
           /\ replies' = replies /\ late' = late
    BY <1>1
  <1>ends. /\ requests' \in [Requests -> Request]
           /\ \A s \in Requests : requests'[s] = IF s = r THEN Idle("done") ELSE requests[s]
           /\ \A x : Made(x) => Made(x)'
    BY <1>1, Ends
  <1>2. /\ feedback'[f].text = r
        /\ feedback'[f].rating = Rating(feedback[f], r, rating)
        /\ feedback'[f].token = feedback[f].token
        /\ feedback'[f].expired = feedback[f].expired
    BY <1>1 DEF Row
  <1>kept. feedback'[f] # None
    <2>1. Rating(feedback[f], r, rating) \in Caused
      BY <1>1, RatingKnown DEF Row, Caused
    <2>2. feedback'[f] \in Row
      BY <1>1, <2>1 DEF Row, Caused
    <2>3. QED
      BY <2>2, NoneAssumption
  <1>3. answers \in [Requests -> Seq(Answer)] /\ answer \in Answer
    BY DEF Inductive, TypeOK, Answer
  <1>4. /\ answers'[f] = Append(answers[f], answer)
        /\ \A g \in Requests : g # f => answers'[g] = answers[g]
    BY <1>1, <1>3
  <1>5. Made(f) /\ Made(r)' /\ feedback[f].token # None
    BY <1>1, Ends DEF AnswersTo
  <1>6. TypeOK'
    <2>1. answers'[f] \in Seq(Answer)
      BY <1>3, <1>4, AppendProperties
    <2>2. answers' \in [Requests -> Seq(Answer)]
      BY <1>1, <1>3, <2>1
    <2>3. QED
      BY <1>1, <2>2, Ends DEF Inductive, TypeOK, Answer
  <1>7. ASSUME NEW s \in Requests PROVE Sound(s, requests[s])'
    <2>1. CASE s = r
      BY <2>1, <1>ends DEF Sound, Idle, State
    <2>2. CASE s # r
      <3>1. requests'[s] = requests[s] /\ Sound(s, requests[s])
        BY <2>2, <1>ends DEF Inductive
      <3>2. \A g : AnswersTo(s, g) => AnswersTo(s, g)'
        BY <1>rows, <1>2, <1>5, <1>kept, <1>ends DEF AnswersTo, Made
      <3>3. \A x : Revises(s, x) => Revises(s, x)'
        BY <1>rows, <1>ends DEF Revises, Owns
      <3>4. QED
        BY <3>1, <3>2, <3>3 DEF Sound, Owns
    <2>3. QED
      BY <2>1, <2>2
  <1>8. ASSUME NEW s \in Requests PROVE Unspent(s)'
    BY <1>rows, <1>4, <1>5, <1>ends DEF Inductive, Unspent, Idle, State, Made
  <1>9. ASSUME NEW s \in Requests PROVE Known(s)'
    <2>1. Known(s)
      BY DEF Inductive
    <2>2. QED
      <3>1. feedback'[f].rating \in {feedback[f].rating, r, None}
        BY <1>2, RatingKnown
      <3>2. \A t \in Requests : t \in {feedback'[f].text, feedback'[f].rating}
                                => Made(t)'
        <4> SUFFICES ASSUME NEW t \in Requests,
                            t \in {feedback'[f].text, feedback'[f].rating}
                     PROVE  Made(t)'
          OBVIOUS
        <4>1. t = r \/ t = feedback[f].rating
          BY <1>2, <3>1, NoneAssumption
        <4>2. t = feedback[f].rating => Made(t)
          BY <1>rows DEF Inductive, Known
        <4>3. QED
          BY <4>1, <4>2, <1>5, <1>ends
      <3>3. QED
        BY <2>1, <3>2, <1>rows, <1>2, <1>kept, <1>ends DEF Known
  <1>10. TokensUnique'
    BY <1>rows, <1>2 DEF Inductive, TokensUnique
  <1>11. LastAnswerStands'
    <2> SUFFICES ASSUME NEW g \in Requests, feedback'[g] # None
                 PROVE  IF feedback'[g].token = None
                        THEN feedback'[g].text = g /\ feedback'[g].rating \in {g, None}
                        ELSE /\ feedback'[g].text = (IF answers'[g] = <<>> THEN None
                                    ELSE answers'[g][Len(answers'[g])].by)
                             /\ feedback'[g].rating = (IF RatedBy(g)' = {} THEN None
                                      ELSE RatingOf(answers'[g][LastRated(g)']))
      BY DEF LastAnswerStands
    <2>1. CASE g # f
      <3>1. feedback'[g] = feedback[g] /\ answers'[g] = answers[g]
        BY <2>1, <1>1, <1>4
      <3>2. RatedBy(g)' = RatedBy(g) /\ LastRated(g)' = LastRated(g)
        BY <3>1, StandsAlike
      <3>3. QED
        BY <3>1, <3>2 DEF Inductive, LastAnswerStands
    <2>2. CASE g = f
      <3> DEFINE n == Len(answers[f]) + 1
      <3>1. /\ answers'[f] # <<>> /\ Len(answers'[f]) = n /\ answers'[f][n] = answer
            /\ rating # "absent" => RatedBy(f)' # {} /\ LastRated(f)' = n
            /\ rating = "absent" =>
                   /\ RatedBy(f)' = RatedBy(f) /\ LastRated(f)' = LastRated(f)
                   /\ \A i \in RatedBy(f) : answers'[f][i] = answers[f][i]
        BY <1>3, <1>4, OneMoreAnswer
      <3>2. feedback[f].rating = IF RatedBy(f) = {} THEN None
                                 ELSE RatingOf(answers[f][LastRated(f)])
        BY <1>1, <1>5 DEF Inductive, LastAnswerStands
      <3>3. RatedBy(f) # {} => LastRated(f) \in RatedBy(f)
        BY <1>3, LastRatedIs
      <3>4. feedback'[f].rating = IF RatedBy(f)' = {} THEN None
                                  ELSE RatingOf(answers'[f][LastRated(f)'])
        <4>1. CASE rating = "absent"
          BY <4>1, <1>2, <3>1, <3>2, <3>3 DEF Rating
        <4>2. CASE rating # "absent"
          BY <4>2, <1>1, <1>2, <3>1 DEF Rating, RatingOf, Given
        <4>3. QED
          BY <4>1, <4>2
      <3>5. QED
        BY <2>2, <1>2, <1>5, <3>1, <3>4
    <2>3. QED
      BY <2>1, <2>2
  <1>12. ExperiencesAreOwn'
    BY <1>rows DEF Inductive, ExperiencesAreOwn
  <1>13. QED
    BY <1>6, <1>7, <1>8, <1>9, <1>10, <1>11, <1>12 DEF Inductive

\* A request that ends having written only experiences, each its caller's own.
LEMMA ExperienceStep ==
    ASSUME Inductive, NEW r \in Requests, requests[r].phase # "done", Finish(r),
           NEW x \in Requests, NEW experience \in Experience, x = r \/ Made(x),
           Member[experience.assignment] = Caller[experience.text],
           experiences[x] # None => experience.assignment = experiences[x].assignment,
           x # r => experiences[x] # None,
           experiences' = [experiences EXCEPT ![x] = experience],
           UNCHANGED <<feedback, history>>
    PROVE  Inductive'
  <1>1. /\ \A y \in Requests : experiences'[y] = IF y = x THEN experience ELSE experiences[y]
        /\ experiences' \in [Requests -> Experience \union {None}]
        /\ feedback' = feedback
        /\ replies' = replies /\ answers' = answers /\ late' = late
    BY DEF Inductive, TypeOK, history
  <1>2. /\ requests' \in [Requests -> Request]
        /\ \A s \in Requests : requests'[s] = IF s = r THEN Idle("done") ELSE requests[s]
        /\ \A y : Made(y) => Made(y)'
        /\ Made(r)' /\ ~Made(r)
    BY Ends DEF Made
  <1>3. TypeOK'
    BY <1>1, <1>2 DEF Inductive, TypeOK
  <1>4. ASSUME NEW s \in Requests PROVE Sound(s, requests[s])'
    <2>1. CASE s = r
      BY <2>1, <1>2 DEF Sound, Idle, State
    <2>2. CASE s # r
      <3>1. requests'[s] = requests[s] /\ Sound(s, requests[s])
        BY <2>2, <1>2 DEF Inductive
      <3>2. \A f : AnswersTo(s, f) => AnswersTo(s, f)'
        BY <1>1, <1>2 DEF AnswersTo
      <3>3. \A y : Revises(s, y) => Revises(s, y)'
        BY <1>1, <1>2, NoneAssumption DEF Revises, Owns, Made
      <3>4. QED
        BY <3>1, <3>2, <3>3 DEF Sound, Owns
    <2>3. QED
      BY <2>1, <2>2
  <1>5. ASSUME NEW s \in Requests PROVE Unspent(s)' /\ Known(s)'
    <2>1. Unspent(s) /\ Known(s)
      BY DEF Inductive
    <2>2. Unspent(s)'
      BY <2>1, <1>1, <1>2 DEF Unspent, Made, Idle, State
    <2>3. Known(s)'
      BY <2>1, <1>1, <1>2 DEF Known
    <2>4. QED
      BY <2>2, <2>3
  <1>6. TokensUnique'
    BY <1>1 DEF Inductive, TokensUnique
  <1>7. LastAnswerStands'
    BY <1>1, StandsAlike DEF Inductive, LastAnswerStands
  <1>8. ExperiencesAreOwn'
    BY <1>1 DEF Inductive, ExperiencesAreOwn
  <1>9. QED
    BY <1>3, <1>4, <1>5, <1>6, <1>7, <1>8 DEF Inductive

LEMMA DescribeStep ==
    ASSUME Inductive, NEW r \in Requests, DescribeWrite(r) PROVE Inductive'
  <1> DEFINE experience == [assignment |-> requests[r].assignment, text |-> r]
  <1>1. /\ Writes(r, "describe") /\ Finish(r)
        /\ experiences' = [experiences EXCEPT ![r] = experience]
        /\ UNCHANGED <<feedback, history>>
    BY DEF DescribeWrite
  <1>2. requests[r].phase # "done" /\ experiences[r] = None
    BY <1>1 DEF Writes, Inductive, Unspent
  <1>3. /\ requests[r].assignment \in Assignments
        /\ Owns(r, requests[r].assignment)
    BY <1>1 DEF Writes, Inductive, Sound
  <1>4. experience \in Experience /\ Member[experience.assignment] = Caller[experience.text]
    BY <1>3 DEF Experience, Owns
  <1> HIDE DEF experience
  <1>5. QED
    BY <1>1, <1>2, <1>4, ExperienceStep

LEMMA ReviseStep ==
    ASSUME Inductive, NEW r \in Requests, ReviseWrite(r) PROVE Inductive'
  <1> DEFINE x == requests[r].row
             experience == [experiences[x] EXCEPT !.text = r]
  <1>1. /\ Writes(r, "revise") /\ Finish(r)
        /\ experiences' = [experiences EXCEPT ![x].text = r]
        /\ UNCHANGED <<feedback, history>>
    BY DEF ReviseWrite
  <1>2. requests[r].phase # "done"
    BY <1>1 DEF Writes
  <1>3. Revises(r, x)
    BY <1>1 DEF Writes, Inductive, Sound
  <1>4. /\ x \in Requests /\ Made(x) /\ experiences[x] # None
        /\ Owns(r, experiences[x].assignment)
    BY <1>1, <1>3 DEF Revises, Made
  <1>5. experiences[x] \in Experience
    BY <1>1, <1>4 DEF Inductive, TypeOK
  <1>6. /\ experience \in Experience
        /\ experience.assignment = experiences[x].assignment
        /\ experience.text = r
    BY <1>5 DEF Experience
  <1>7. experiences' = [experiences EXCEPT ![x] = experience]
    BY <1>1
  <1>8. Member[experience.assignment] = Caller[experience.text]
    BY <1>4, <1>6 DEF Owns
  <1> HIDE DEF experience
  <1>9. QED
    BY <1>1, <1>2, <1>4, <1>6, <1>7, <1>8, ExperienceStep

-----------------------------------------------------------------------------
(* The rest of the world *)

\* A link that expires changes in nothing else, and every submission to it that is
\* under way becomes late.
LEMMA ExpireStep ==
    ASSUME Inductive, NEW f \in Requests, Expire(f) PROVE Inductive'
  <1>1. /\ Live(f)
        /\ feedback' = [feedback EXCEPT ![f].expired = TRUE]
        /\ late' = [late EXCEPT ![f] =
               {r \in Requests : Writes(r, "submit") /\ requests[r].row = f}]
        /\ experiences' = experiences
        /\ requests' = requests /\ replies' = replies /\ answers' = answers
    BY DEF Expire
  <1>2. feedback[f] # None /\ feedback[f] \in Row
    BY <1>1 DEF Live, Inductive, TypeOK
  <1> DEFINE row == [feedback[f] EXCEPT !.expired = TRUE]
  <1>3. /\ row \in Row /\ row # None
        /\ row.text = feedback[f].text /\ row.rating = feedback[f].rating
        /\ row.token = feedback[f].token /\ row.assignment = feedback[f].assignment
    BY <1>2, NoneAssumption DEF Row
  <1>4. feedback' = [feedback EXCEPT ![f] = row]
    BY <1>1
  <1> HIDE DEF row
  <1>5. /\ feedback' \in [Requests -> Row \union {None}]
        /\ \A g \in Requests : feedback'[g] = IF g = f THEN row ELSE feedback[g]
    BY <1>3, <1>4 DEF Inductive, TypeOK
  <1>6. /\ late' \in [Requests -> SUBSET Requests]
        /\ \A g \in Requests :
               late'[g] = IF g = f THEN {r \in Requests : /\ Writes(r, "submit")
                                                          /\ requests[r].row = f}
                          ELSE late[g]
    BY <1>1 DEF Inductive, TypeOK
  <1>7. TypeOK'
    BY <1>1, <1>5, <1>6 DEF Inductive, TypeOK
  <1>8. ASSUME NEW s \in Requests PROVE Sound(s, requests[s])'
    <2>1. Sound(s, requests[s])
      BY DEF Inductive
    <2>2. ASSUME requests[s].phase = "write", requests[s].op = "submit"
          PROVE  AnswersTo(s, requests[s].row)'
      <3>1. AnswersTo(s, requests[s].row)
        BY <2>1, <2>2 DEF Sound
      <3>2. QED
        BY <3>1, <2>2, <1>1, <1>2, <1>3, <1>5, <1>6 DEF AnswersTo, Made, Writes
    <2>3. \A x : Revises(s, x) => Revises(s, x)'
      BY <1>1 DEF Revises, Owns, Made
    <2>4. QED
      BY <1>1, <2>1, <2>2, <2>3 DEF Sound, Owns
  <1>9. ASSUME NEW s \in Requests PROVE Unspent(s)' /\ Known(s)'
    <2>1. Unspent(s) /\ Known(s)
      BY DEF Inductive
    <2>2. Unspent(s)'
      BY <2>1, <1>1, <1>2, <1>5 DEF Unspent
    <2>3. Known(s)'
      BY <2>1, <1>1, <1>2, <1>3, <1>5 DEF Known, Made
    <2>4. QED
      BY <2>2, <2>3
  <1>10. TokensUnique' /\ ExperiencesAreOwn'
    BY <1>1, <1>2, <1>3, <1>5 DEF Inductive, TokensUnique, ExperiencesAreOwn
  <1>11. LastAnswerStands'
    BY <1>1, <1>2, <1>3, <1>5, StandsAlike DEF Inductive, LastAnswerStands
  <1>12. QED
    BY <1>7, <1>8, <1>9, <1>10, <1>11 DEF Inductive

-----------------------------------------------------------------------------
(* What follows *)

LEMMA Initial == Init => Inductive
  <1> SUFFICES ASSUME Init PROVE Inductive
    OBVIOUS
  <1>1. Idle("new") \in Request /\ Idle("new").phase = "new"
    BY AttemptsAssumption DEF Idle, State, Request, Operation, Caused
  <1>2. TypeOK
    BY <1>1, EmptySeq DEF Init, TypeOK
  <1>3. QED
    BY <1>1, <1>2 DEF Init, Inductive, Sound, Unspent, Known, TokensUnique,
       LastAnswerStands, ExperiencesAreOwn

LEMMA InductiveStep == Inductive /\ [Next]_vars => Inductive'
  <1> SUFFICES ASSUME Inductive, [Next]_vars PROVE Inductive'
    OBVIOUS
  <1>1. CASE UNCHANGED vars
    <2>1. /\ UNCHANGED <<feedback, experiences, requests>>
          /\ UNCHANGED <<replies, answers, late>>
      BY <1>1 DEF vars, history
    <2>2. LastAnswerStands'
      BY <2>1, StandsAlike DEF Inductive, LastAnswerStands
    <2>3. TypeOK' /\ TokensUnique' /\ ExperiencesAreOwn'
      BY <2>1 DEF Inductive, TypeOK, TokensUnique, ExperiencesAreOwn
    <2>4. ASSUME NEW r \in Requests PROVE Sound(r, requests[r])'
      BY <2>1 DEF Inductive, Sound, AnswersTo, Revises, Made, Owns
    <2>5. ASSUME NEW r \in Requests PROVE Unspent(r)' /\ Known(r)'
      BY <2>1 DEF Inductive, Unspent, Known, Made
    <2>6. QED
      BY <2>2, <2>3, <2>4, <2>5 DEF Inductive
  <1>2. CASE Next
    BY <1>2, BeginMoves, EndMoves, DrawMoves, FindMoves, DrawFreshStep, CreateStep, SubmitStep,
       DescribeStep, ReviseStep, ExpireStep DEF Next, Continue, Draw
  <1>3. QED
    BY <1>1, <1>2

THEOREM InductiveHolds == Spec => []Inductive
  BY Initial, InductiveStep, PTL DEF Spec

\* The tables, the requests and what is remembered of them keep their types.
THEOREM FeedbackTyped == Spec => []TypeOK
  <1>1. Inductive => TypeOK
    BY DEF Inductive
  <1>2. QED
    BY <1>1, InductiveHolds, PTL

\* The secret a caller was given is that of one row, the caller's.
THEOREM LinksAreTheirOwn == Spec => []LinkOpensItsRow
  <1>1. Inductive => LinkOpensItsRow
    BY DEF Inductive, Known, TokensUnique, LinkOpensItsRow
  <1>2. QED
    BY <1>1, InductiveHolds, PTL

\* A row holds what was submitted to it last.
THEOREM LastAnswersStand == Spec => []LastAnswerStands
  <1>1. Inductive => LastAnswerStands
    BY DEF Inductive
  <1>2. QED
    BY <1>1, InductiveHolds, PTL

\* Experiences are written by the member they are of.
THEOREM MembersWriteTheirOwn == Spec => []ExperiencesAreOwn
  <1>1. Inductive => ExperiencesAreOwn
    BY DEF Inductive
  <1>2. QED
    BY <1>1, InductiveHolds, PTL

\* Only a submission adds an answer.
LEMMA OthersAnswerNothing ==
    ASSUME Inductive, [Next]_vars, ~\E r \in Requests : SubmitWrite(r)
    PROVE  answers' = answers
  BY DEF Next, vars, history, Begin, LinkRead, CreateRead, FindAssignment, SubmitRead,
     DescribeRead, ReviseRead, Continue, Draw, DrawTaken, DrawFresh, CreateWrite,
     DescribeWrite, ReviseFind, ReviseWrite, Abort, Expire

\* What an expired link is answered with was under way when it expired.
THEOREM ExpiryIsFinal == Spec => ExpiredIsFinal
  <1> DEFINE Final(f) ==
        feedback[f] # None /\ feedback[f].expired /\ answers'[f] # answers[f]
        => \E r \in late[f], rating \in Given :
              answers'[f] = Append(answers[f], [by |-> r, rating |-> rating])
  <1>1. ASSUME Inductive, [Next]_vars, NEW f \in Requests PROVE Final(f)
    <2> SUFFICES ASSUME feedback[f] # None, feedback[f].expired, answers'[f] # answers[f]
                 PROVE  \E r \in late[f], rating \in Given :
                           answers'[f] = Append(answers[f],
                                                [by |-> r, rating |-> rating])
      OBVIOUS
    <2>1. PICK r \in Requests : SubmitWrite(r)
      BY <1>1, OthersAnswerNothing
    <2>2. PICK rating \in Given, g \in Requests :
               /\ Writes(r, "submit") /\ g = requests[r].row /\ g # r
               /\ AnswersTo(r, g) /\ feedback[g] # None /\ feedback[g] \in Row
               /\ Finish(r)
               /\ feedback' \in [Requests -> Row \union {None}]
               /\ \A e \in Requests : e # g => feedback'[e] = feedback[e]
               /\ feedback'[g] = [feedback[g] EXCEPT !.text = r,
                                     !.rating = Rating(feedback[g], r, rating)]
               /\ answers' = [answers EXCEPT ![g] =
                      Append(@, [by |-> r, rating |-> rating])]
               /\ UNCHANGED <<experiences, replies, late>>
      BY <1>1, <2>1, SubmitWrites
    <2>3. answers \in [Requests -> Seq(Answer)]
      BY <1>1 DEF Inductive, TypeOK, Answer
    <2>4. g = f
      BY <2>2, <2>3
    <2>5. answers'[f] = Append(answers[f], [by |-> r, rating |-> rating])
      BY <2>2, <2>3, <2>4
    <2>6. r \in late[f]
      BY <2>2, <2>4 DEF AnswersTo
    <2>7. QED
      BY <2>5, <2>6
  <1>2. Inductive /\ [Next]_vars => [\A f \in Requests : Final(f)]_vars
    BY <1>1
  <1>3. QED
    BY <1>2, InductiveHolds, PTL DEF Spec, ExpiredIsFinal
=============================================================================
