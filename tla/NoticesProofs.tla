---------------------------- MODULE NoticesProofs ----------------------------
(***************************************************************************)
(* The safety of Notices, for any number of calls, people and managers     *)
(* that come and go, and any choice of templates.                          *)
(***************************************************************************)
EXTENDS Notices, TLAPS

\* A kind is settled when everybody who has to hear of it has been told or given
\* up, and its event has been posted or given up.
Heard(r, kind) == MustHear(r, kind) \subseteq Told(r, kind) \union Missed(r, kind)
Posted(r, kind) == [kind |-> kind, to |-> "topic"] \in sent[r] \union failed[r]
Settled(r, kind) == /\ Reachable(kind) => Heard(r, kind)
                    /\ kind \in Timesheet => Posted(r, kind)

Underway(r) == calls[r].phase \in {"post", "find", "mail"}

\* A call under way is at a kind of its script; its event is dealt with before
\* anybody is looked up, and whoever has to hear of it and has not is due.
AtKind(r) ==
    /\ Underway(r) => calls[r].at \in 1 .. Len(calls[r].script)
    /\ calls[r].phase \in {"find", "mail"} /\ Current(r) \in Timesheet
           => Posted(r, Current(r))
    /\ calls[r].phase = "mail" =>
           MustHear(r, Current(r)) \subseteq
               Told(r, Current(r)) \union Missed(r, Current(r)) \union calls[r].due

\* Whoever a submission is about to be mailed to, or was mailed to, was a manager.
DueToManagers(r) ==
    calls[r].phase = "mail" /\ Current(r) = "submitted"
        => calls[r].due \subseteq since[r].ever

\* Before a call commits it has sent nothing; from then on the managers of the
\* moment are between those who always were and those who ever were.
Unsent(r) == calls[r].phase = "new" => calls[r].at = 0 /\ sent[r] = {}
Between(r) == calls[r].phase # "new" => /\ since[r].always \subseteq managers
                                        /\ managers \subseteq since[r].ever

\* The two properties, of one call.
ToldManagers(r) == Told(r, "submitted") \subseteq since[r].ever
Heeded(r) == calls[r].phase # "lost" => \A kind \in Passed(r) : Settled(r, kind)

Sound(r) == /\ AtKind(r)
            /\ DueToManagers(r)
            /\ Unsent(r)
            /\ Between(r)
            /\ ToldManagers(r)
            /\ Heeded(r)

Inductive == TypeOK /\ \A r \in Requests : Sound(r)

-----------------------------------------------------------------------------
(* Data *)

LEMMA ScriptsType ==
    ASSUME NEW op \in Operation, NEW script \in Scripts(op)
    PROVE  script \in Seq(Kind)
  <1>1. {"submitted", "unsubmitted", "approved", "reopened", "override", "granted",
         "assigned", "offer", "updated", "response", "decision"} = Kind
    BY DEF Kind, Timesheet
  <1>2. /\ <<>> \in Seq(Kind)
        /\ \A k \in Kind : <<k>> \in Seq(Kind)
        /\ \A k, l \in Kind : <<k, l>> \in Seq(Kind)
        /\ \A k, l, m \in Kind : <<k, l, m>> \in Seq(Kind)
    OBVIOUS
  <1>3. \/ script = <<>>
        \/ \E k \in Kind : script = <<k>>
        \/ \E k, l \in Kind : script = <<k, l>>
        \/ \E k, l, m \in Kind : script = <<k, l, m>>
    <2>1. CASE op = "upsert"
      BY <2>1, <1>1, Zenon DEF Scripts
    <2>2. CASE op = "submit"
      BY <2>2, <1>1, Zenon DEF Scripts
    <2>3. CASE op = "approve"
      BY <2>3, <1>1, Zenon DEF Scripts
    <2>4. CASE op = "reopen"
      BY <2>4, <1>1, Zenon DEF Scripts
    <2>5. CASE op = "grant"
      BY <2>5, <1>1, Zenon DEF Scripts
    <2>6. CASE op = "select"
      BY <2>6, <1>1, Zenon DEF Scripts
    <2>7. CASE op = "update"
      BY <2>7, <1>1, Zenon DEF Scripts
    <2>8. CASE op = "respond"
      BY <2>8, <1>1, Zenon DEF Scripts
    <2>9. CASE op = "decide"
      BY <2>9, <1>1, Zenon DEF Scripts
    <2> QED
      BY <2>1, <2>2, <2>3, <2>4, <2>5, <2>6, <2>7, <2>8, <2>9 DEF Operation
  <1>4. QED
    BY <1>2, <1>3, Zenon

\* Where a call stands when it comes to the kind after at - 1 others.
LEMMA Entered ==
    ASSUME NEW c \in Call, NEW at \in Nat \ {0}
    PROVE  /\ Enter(c, at) \in Call
           /\ Enter(c, at).at = at
           /\ Enter(c, at).script = c.script
           /\ Enter(c, at).due = {}
           /\ Enter(c, at).phase \in {"post", "find", "done"}
           /\ Enter(c, at).phase # "done" => at \in 1 .. Len(c.script)
           /\ Enter(c, at).phase = "find" => c.script[at] \notin Timesheet
  <1>1. CASE at > Len(c.script)
    BY <1>1 DEF Enter, Call
  <1>2. CASE ~(at > Len(c.script))
    <2>1. at \in 1 .. Len(c.script) /\ c.script \in Seq(Kind)
      BY <1>2 DEF Call
    <2>2. Enter(c, at) = [c EXCEPT !.at = at, !.due = {}, !.phase =
              IF c.script[at] \in Timesheet THEN "post" ELSE "find"]
      BY <1>2 DEF Enter
    <2>3. QED
      BY <2>1, <2>2 DEF Call
  <1>3. QED
    BY <1>1, <1>2

\* A post that succeeds or fails is on record either way.
LEMMA Recorded ==
    ASSUME TypeOK, NEW r \in Requests, NEW ok \in BOOLEAN,
           NEW kind \in Kind, NEW people \in SUBSET (People \union {"topic"}),
           Record(r, ok, Due(kind, people))
    PROVE  /\ sent' \in [Requests -> SUBSET Notice]
           /\ failed' \in [Requests -> SUBSET Notice]
           /\ \A s \in Requests \ {r} : sent'[s] = sent[s] /\ failed'[s] = failed[s]
           /\ sent'[r] = IF ok THEN sent[r] \union Due(kind, people) ELSE sent[r]
           /\ failed'[r] = IF ok THEN failed[r]
                           ELSE failed[r] \union Due(kind, people)
  BY DEF Record, Due, TypeOK, Notice

\* Who has been told of a kind, or missed, read from the record.
LEMMA InTold ==
    ASSUME NEW r, NEW kind, NEW p
    PROVE  p \in Told(r, kind) <=>
               p # "topic" /\ \E n \in sent[r] : n.kind = kind /\ n.to = p
  BY DEF Told

LEMMA InMissed ==
    ASSUME NEW r, NEW kind, NEW p
    PROVE  p \in Missed(r, kind) <=>
               p # "topic" /\ \E n \in failed[r] : n.kind = kind /\ n.to = p
  BY DEF Missed

LEMMA InDue ==
    ASSUME NEW kind, NEW people
    PROVE  /\ \A p \in people : [kind |-> kind, to |-> p] \in Due(kind, people)
           /\ \A n \in Due(kind, people) : n.kind = kind /\ n.to \in people
  BY DEF Due

\* What has been recorded of a kind, after more of it is.
LEMMA ToldMore ==
    ASSUME NEW r \in Requests, NEW kind, NEW other, NEW people,
           sent'[r] = sent[r] \union Due(other, people)
    PROVE  Told(r, kind)' = Told(r, kind) \union
                            (IF kind = other THEN people \ {"topic"} ELSE {})
  <1>1. ASSUME NEW p
        PROVE  p \in Told(r, kind)' <=>
                   p # "topic" /\ \E n \in sent'[r] : n.kind = kind /\ n.to = p
    BY DEF Told
  <1>2. ASSUME NEW p
        PROVE  p \in Told(r, kind)' <=>
                   \/ p \in Told(r, kind)
                   \/ p # "topic" /\ kind = other /\ p \in people
    <2>1. p \in Told(r, kind)' => \/ p \in Told(r, kind)
                                  \/ p # "topic" /\ kind = other /\ p \in people
      BY <1>1, InTold, InDue
    <2>2. p \in Told(r, kind) => p \in Told(r, kind)'
      BY <1>1, InTold
    <2>3. ASSUME p # "topic", kind = other, p \in people
          PROVE  p \in Told(r, kind)'
      <3>1. [kind |-> kind, to |-> p] \in sent'[r]
        BY <2>3, InDue
      <3>2. QED
        BY <3>1, <2>3, <1>1
    <2>4. QED
      BY <2>1, <2>2, <2>3
  <1>3. QED
    BY <1>2

LEMMA MissedMore ==
    ASSUME NEW r \in Requests, NEW kind, NEW other, NEW people,
           failed'[r] = failed[r] \union Due(other, people)
    PROVE  Missed(r, kind)' = Missed(r, kind) \union
                              (IF kind = other THEN people \ {"topic"} ELSE {})
  <1>1. ASSUME NEW p
        PROVE  p \in Missed(r, kind)' <=>
                   p # "topic" /\ \E n \in failed'[r] : n.kind = kind /\ n.to = p
    BY DEF Missed
  <1>2. ASSUME NEW p
        PROVE  p \in Missed(r, kind)' <=>
                   \/ p \in Missed(r, kind)
                   \/ p # "topic" /\ kind = other /\ p \in people
    <2>1. p \in Missed(r, kind)' => \/ p \in Missed(r, kind)
                                    \/ p # "topic" /\ kind = other /\ p \in people
      BY <1>1, InMissed, InDue
    <2>2. p \in Missed(r, kind) => p \in Missed(r, kind)'
      BY <1>1, InMissed
    <2>3. ASSUME p # "topic", kind = other, p \in people
          PROVE  p \in Missed(r, kind)'
      <3>1. [kind |-> kind, to |-> p] \in failed'[r]
        BY <2>3, InDue
      <3>2. QED
        BY <3>1, <2>3, <1>1
    <2>4. QED
      BY <2>1, <2>2, <2>3
  <1>3. QED
    BY <1>2

\* Nothing on record is lost again, so that what was settled stays so.
LEMMA SettledStays ==
    ASSUME NEW r \in Requests, NEW kind, Settled(r, kind),
           sent[r] \subseteq sent'[r], failed[r] \subseteq failed'[r],
           since'[r].always \subseteq since[r].always
    PROVE  Settled(r, kind)'
  <1>1. /\ Told(r, kind) \subseteq Told(r, kind)'
        /\ Missed(r, kind) \subseteq Missed(r, kind)'
    BY DEF Told, Missed
  <1>2. MustHear(r, kind)' \subseteq MustHear(r, kind)
    BY DEF MustHear
  <1>3. QED
    BY <1>1, <1>2 DEF Settled, Heard, Posted

-----------------------------------------------------------------------------
(* One call moves *)

\* The other calls do not notice.
LEMMA OthersStay ==
    ASSUME Inductive, NEW r \in Requests, NEW s \in Requests \ {r},
           UNCHANGED <<managers, calls[s], sent[s], failed[s], since[s]>>
    PROVE  Sound(s)'
  <1>1. /\ calls'[s] = calls[s] /\ sent'[s] = sent[s] /\ failed'[s] = failed[s]
        /\ since'[s] = since[s] /\ managers' = managers
    OBVIOUS
  <1>2. Sound(s)
    BY DEF Inductive
  <1>3. \A kind : /\ Told(s, kind)' = Told(s, kind)
                  /\ Missed(s, kind)' = Missed(s, kind)
                  /\ MustHear(s, kind)' = MustHear(s, kind)
                  /\ Posted(s, kind)' = Posted(s, kind)
    BY <1>1 DEF Told, Missed, MustHear, Posted
  <1>4. \A kind : Settled(s, kind)' = Settled(s, kind)
    BY <1>3 DEF Settled, Heard
  <1>5. Current(s)' = Current(s) /\ Passed(s)' = Passed(s)
    BY <1>1 DEF Current, Passed
  <1>6. AtKind(s)' /\ DueToManagers(s)'
    BY <1>1, <1>2, <1>3, <1>5 DEF Sound, AtKind, DueToManagers, Underway
  <1>7. Unsent(s)' /\ Between(s)'
    BY <1>1, <1>2 DEF Sound, Unsent, Between
  <1>8. ToldManagers(s)' /\ Heeded(s)'
    BY <1>1, <1>2, <1>3, <1>4, <1>5 DEF Sound, ToldManagers, Heeded
  <1>9. QED
    BY <1>6, <1>7, <1>8 DEF Sound

\* A call goes on to the next kind once the one it is at is settled.
LEMMA Passes ==
    ASSUME Inductive, NEW r \in Requests, Underway(r),
           calls'[r] = Enter(calls[r], calls[r].at + 1),
           UNCHANGED <<managers, since[r]>>,
           sent[r] \subseteq sent'[r], failed[r] \subseteq failed'[r],
           NEW current, current = Current(r), Settled(r, current)', ToldManagers(r)'
    PROVE  calls'[r] \in Call /\ Sound(r)'
  <1> DEFINE c == calls[r]
  <1>1. c \in Call /\ c.at \in 1 .. Len(c.script) /\ c.at + 1 \in Nat \ {0}
    BY DEF Inductive, TypeOK, Sound, AtKind, Call
  <1>2. /\ calls'[r] \in Call
        /\ calls'[r].at = c.at + 1
        /\ calls'[r].script = c.script
        /\ calls'[r].phase \in {"post", "find", "done"}
        /\ calls'[r].phase # "done" => c.at + 1 \in 1 .. Len(c.script)
        /\ calls'[r].phase = "find" => c.script[c.at + 1] \notin Timesheet
    <2> DEFINE at == c.at + 1
               e == Enter(c, at)
    <2>1. c \in Call /\ at \in Nat \ {0}
      BY <1>1
    <2>2. /\ e \in Call /\ e.at = at /\ e.script = c.script
          /\ e.phase \in {"post", "find", "done"}
          /\ e.phase # "done" => at \in 1 .. Len(c.script)
          /\ e.phase = "find" => c.script[at] \notin Timesheet
      <3> HIDE DEF at, c
      <3> QED
        BY <2>1, Entered, Zenon
    <2>3. calls'[r] = e
      OBVIOUS
    <2> HIDE DEF e
    <2> QED
      BY <2>2, <2>3
  <1>3. AtKind(r)' /\ DueToManagers(r)' /\ Unsent(r)'
    BY <1>2 DEF AtKind, DueToManagers, Unsent, Underway, Current
  <1>4. Between(r)'
    BY <1>2 DEF Inductive, Sound, Between, Underway
  <1>5. \A kind \in Passed(r)' : kind \in Passed(r) \/ kind = current
    BY <1>1, <1>2 DEF Passed, Current
  <1>6. \A kind \in Passed(r) : Settled(r, kind)
    BY DEF Inductive, Sound, Heeded, Underway
  <1>7. Heeded(r)'
    <2> SUFFICES ASSUME NEW kind \in Passed(r)'
                 PROVE  Settled(r, kind)'
      BY DEF Heeded
    <2>1. CASE kind \in Passed(r)
      BY <2>1, <1>6, SettledStays
    <2>2. CASE kind = current
      BY <2>2
    <2>3. QED
      BY <2>1, <2>2, <1>5
  <1>8. QED
    BY <1>2, <1>3, <1>4, <1>7 DEF Sound
-----------------------------------------------------------------------------
(* The steps *)

\* A step of one call, which leaves the others and the managers alone.
LEMMA OneMoves ==
    ASSUME Inductive, NEW r \in Requests, NEW call \in Call,
           calls' = [calls EXCEPT ![r] = call],
           sent' \in [Requests -> SUBSET Notice],
           failed' \in [Requests -> SUBSET Notice],
           \A s \in Requests \ {r} : sent'[s] = sent[s] /\ failed'[s] = failed[s],
           UNCHANGED <<managers, since>>,
           Sound(r)'
    PROVE  Inductive'
  <1>1. TypeOK'
    BY DEF Inductive, TypeOK
  <1>2. \A s \in Requests \ {r} : calls'[s] = calls[s]
    BY DEF Inductive, TypeOK
  <1>3. \A s \in Requests \ {r} : Sound(s)'
    BY <1>2, OthersStay
  <1>4. QED
    BY <1>1, <1>3 DEF Inductive

LEMMA CommitKeeps ==
    ASSUME Inductive, NEW r \in Requests, Commit(r)
    PROVE  Inductive'
  <1>0. PICK op \in Ops[r] : \E script \in Scripts(op) :
            calls' = [calls EXCEPT ![r] =
                Enter([@ EXCEPT !.op = op, !.script = script,
                                !.answered = Detached(op)], 1)]
    BY DEF Commit
  <1>1. PICK script \in Scripts(op) :
            calls' = [calls EXCEPT ![r] =
                Enter([@ EXCEPT !.op = op, !.script = script,
                                !.answered = Detached(op)], 1)]
    BY <1>0
  <1>2. /\ calls[r].phase = "new"
        /\ since' = [since EXCEPT ![r] = [ever |-> managers, always |-> managers]]
        /\ UNCHANGED <<managers, sent, failed>>
    BY DEF Commit
  <1> DEFINE c == [calls[r] EXCEPT !.op = op, !.script = script,
                                   !.answered = Detached(op)]
             e == Enter(c, 1)
  <1>3. c \in Call /\ c.script = script
    <2>1. calls[r] \in Call /\ op \in Operation
      BY OpsAssumption DEF Inductive, TypeOK
    <2>2. script \in Seq(Kind)
      BY <2>1, ScriptsType
    <2>3. Detached(op) \in BOOLEAN
      BY DEF Detached
    <2>4. QED
      BY <2>1, <2>2, <2>3 DEF Call
  <1>4. /\ e \in Call /\ e.at = 1
        /\ e.phase \in {"post", "find", "done"}
        /\ e.phase # "done" => 1 \in 1 .. Len(e.script)
        /\ e.phase = "find" => e.script[1] \notin Timesheet
    BY <1>3, Entered
  <1>5. calls'[r] = e /\ \A s \in Requests \ {r} : calls'[s] = calls[s]
    BY <1>1 DEF Inductive, TypeOK
  <1>6. TypeOK'
    BY <1>1, <1>2, <1>4 DEF Inductive, TypeOK
  <1>7. /\ since'[r] = [ever |-> managers, always |-> managers]
        /\ \A s \in Requests \ {r} : since'[s] = since[s]
    BY <1>2 DEF Inductive, TypeOK
  <1> HIDE DEF c, e
  <1>8. AtKind(r)' /\ DueToManagers(r)' /\ Unsent(r)'
    BY <1>4, <1>5 DEF AtKind, DueToManagers, Unsent, Underway, Current
  <1>9. Between(r)'
    BY <1>2, <1>7 DEF Between
  <1>10. sent'[r] = {}
    BY <1>2 DEF Inductive, Sound, Unsent
  <1>11. ToldManagers(r)' /\ Heeded(r)'
    BY <1>10, <1>4, <1>5 DEF ToldManagers, Told, Heeded, Passed
  <1>12. \A s \in Requests \ {r} : Sound(s)'
    BY <1>2, <1>5, <1>7, OthersStay
  <1>13. QED
    BY <1>6, <1>8, <1>9, <1>11, <1>12 DEF Inductive, Sound

LEMMA PostEventKeeps ==
    ASSUME Inductive, NEW r \in Requests, PostEvent(r)
    PROVE  Inductive'
  <1>1. PICK ok \in BOOLEAN : Record(r, ok, Due(Current(r), {"topic"}))
    BY DEF PostEvent
  <1>2. /\ calls[r].phase = "post"
        /\ calls' = [calls EXCEPT ![r].phase = "find"]
        /\ UNCHANGED <<managers, since>>
    BY DEF PostEvent, AfterPost
  <1>3. calls[r] \in Call /\ calls[r].at \in 1 .. Len(calls[r].script)
    BY <1>2 DEF Inductive, TypeOK, Sound, AtKind, Underway
  <1>4. PICK kind \in Kind : kind = Current(r)
    BY <1>3 DEF Call, Current
  <1>5. /\ sent' \in [Requests -> SUBSET Notice]
        /\ failed' \in [Requests -> SUBSET Notice]
        /\ \A s \in Requests \ {r} : sent'[s] = sent[s] /\ failed'[s] = failed[s]
        /\ sent'[r] = IF ok THEN sent[r] \union Due(kind, {"topic"}) ELSE sent[r]
        /\ failed'[r] = IF ok THEN failed[r]
                        ELSE failed[r] \union Due(kind, {"topic"})
    <2>1. Record(r, ok, Due(kind, {"topic"}))
      BY <1>1, <1>4
    <2>2. TypeOK /\ {"topic"} \in SUBSET (People \union {"topic"})
      BY DEF Inductive
    <2>3. QED
      BY <2>1, <2>2, Recorded
  <1> DEFINE call == [calls[r] EXCEPT !.phase = "find"]
  <1>6. call \in Call /\ calls' = [calls EXCEPT ![r] = call] /\ calls'[r] = call
    BY <1>2, <1>3 DEF Inductive, TypeOK, Call
  <1>7. /\ call.phase = "find" /\ call.at = calls[r].at
        /\ call.script = calls[r].script
    BY <1>3 DEF Call
  <1> HIDE DEF call
  <1>8. Posted(r, kind)'
    <2>1. [kind |-> kind, to |-> "topic"] \in Due(kind, {"topic"})
      BY DEF Due
    <2>2. QED
      BY <2>1, <1>5 DEF Posted
  <1>9. Current(r)' = kind /\ Passed(r)' = Passed(r)
    BY <1>4, <1>6, <1>7 DEF Current, Passed
  <1>10. AtKind(r)' /\ DueToManagers(r)' /\ Unsent(r)' /\ Between(r)'
    BY <1>2, <1>3, <1>6, <1>7, <1>8, <1>9
       DEF Inductive, Sound, AtKind, DueToManagers, Unsent, Between, Underway
  <1>11. ToldManagers(r)'
    <2>1. Told(r, "submitted")' = Told(r, "submitted")
      <3>1. CASE ok
        <4>1. sent'[r] = sent[r] \union Due(kind, {"topic"})
          BY <3>1, <1>5
        <4>2. Told(r, "submitted")' = Told(r, "submitted") \union
                  (IF "submitted" = kind THEN {"topic"} \ {"topic"} ELSE {})
          BY <4>1, ToldMore
        <4>3. QED
          BY <4>2
      <3>2. CASE ~ok
        BY <3>2, <1>5 DEF Told
      <3>3. QED
        BY <3>1, <3>2
    <2>2. QED
      BY <2>1, <1>2 DEF Inductive, Sound, ToldManagers
  <1>12. Heeded(r)'
    <2>1. \A k \in Passed(r) : Settled(r, k)
      BY <1>2 DEF Inductive, Sound, Heeded
    <2>2. sent[r] \subseteq sent'[r] /\ failed[r] \subseteq failed'[r]
      BY <1>5
    <2>3. \A k \in Passed(r) : Settled(r, k)'
      BY <2>1, <2>2, <1>2, SettledStays
    <2>4. QED
      BY <2>3, <1>9 DEF Heeded
  <1>13. Sound(r)'
    BY <1>10, <1>11, <1>12 DEF Sound
  <1>14. QED
    BY <1>2, <1>5, <1>6, <1>13, OneMoves

\* Whoever has to hear of the current kind is addressed.
LEMMA MustHearIsAddressed ==
    ASSUME Inductive, NEW r \in Requests, Underway(r)
    PROVE  /\ Addressed(r) \subseteq People
           /\ MustHear(r, Current(r)) \subseteq Addressed(r)
           /\ Current(r) = "submitted" => Addressed(r) \subseteq since[r].ever
  <1>1. managers \subseteq People /\ Talent \subseteq People /\ About[r] \subseteq People
    BY PeopleAssumption DEF Inductive, TypeOK
  <1>2. since[r].always \subseteq managers /\ managers \subseteq since[r].ever
    BY DEF Inductive, Sound, Between, Underway
  <1>3. QED
    BY <1>1, <1>2 DEF Addressed, MustHear

LEMMA FindRecipientsKeeps ==
    ASSUME Inductive, NEW r \in Requests, FindRecipients(r)
    PROVE  Inductive'
  <1>1. calls[r].phase = "find" /\ UNCHANGED <<managers, since>>
    BY DEF FindRecipients
  <1>2. calls[r] \in Call /\ calls[r].at \in 1 .. Len(calls[r].script) /\ Underway(r)
    BY <1>1 DEF Inductive, TypeOK, Sound, AtKind, Underway
  <1>3. PICK kind \in Kind : kind = Current(r)
    BY <1>2 DEF Call, Current
  <1>4. PICK found \in SUBSET Addressed(r) :
            /\ calls' = [calls EXCEPT ![r] =
                   IF found = {} THEN Enter(@, @.at + 1)
                   ELSE [@ EXCEPT !.phase = "mail", !.due = found]]
            /\ Record(r, FALSE, Due(Current(r), Addressed(r) \ found))
    BY DEF FindRecipients
  <1>5. PICK people \in SUBSET People : people = Addressed(r)
    BY <1>2, MustHearIsAddressed
  <1>6. /\ MustHear(r, kind) \subseteq people
        /\ kind = "submitted" => people \subseteq since[r].ever
    BY <1>2, <1>3, <1>5, MustHearIsAddressed
  <1>7. /\ sent' \in [Requests -> SUBSET Notice]
        /\ failed' \in [Requests -> SUBSET Notice]
        /\ \A s \in Requests \ {r} : sent'[s] = sent[s] /\ failed'[s] = failed[s]
        /\ sent'[r] = sent[r]
        /\ failed'[r] = failed[r] \union Due(kind, people \ found)
    <2>1. Record(r, FALSE, Due(kind, people \ found))
      BY <1>3, <1>4, <1>5
    <2>2. TypeOK /\ people \ found \in SUBSET (People \union {"topic"})
      BY DEF Inductive
    <2>3. FALSE \in BOOLEAN
      OBVIOUS
    <2>4. QED
      BY <2>1, <2>2, <2>3, Recorded
  <1>8. /\ \A k : Told(r, k)' = Told(r, k)
        /\ Missed(r, kind)' = Missed(r, kind) \union (people \ found)
        /\ MustHear(r, kind)' = MustHear(r, kind)
    <2>1. \A k : Told(r, k)' = Told(r, k)
      BY <1>7 DEF Told
    <2>2. Missed(r, kind)' = Missed(r, kind) \union ((people \ found) \ {"topic"})
      BY <1>7, MissedMore
    <2>3. (people \ found) \ {"topic"} = people \ found
      BY PeopleAssumption
    <2>4. MustHear(r, kind)' = MustHear(r, kind)
      BY <1>1 DEF MustHear
    <2>5. QED
      BY <2>1, <2>2, <2>3, <2>4
  <1>9. sent[r] \subseteq sent'[r] /\ failed[r] \subseteq failed'[r]
    BY <1>7
  <1>10. kind \in Timesheet => Posted(r, kind)'
    <2>1. kind \in Timesheet => Posted(r, kind)
      BY <1>1, <1>3 DEF Inductive, Sound, AtKind
    <2>2. QED
      BY <2>1, <1>9 DEF Posted
  <1>11. ToldManagers(r)'
    BY <1>1, <1>8 DEF Inductive, Sound, ToldManagers
  <1> DEFINE call == IF found = {} THEN Enter(calls[r], calls[r].at + 1)
                     ELSE [calls[r] EXCEPT !.phase = "mail", !.due = found]
  <1>12. calls' = [calls EXCEPT ![r] = call] /\ calls'[r] = call
    BY <1>4 DEF Inductive, TypeOK
  <1>13. CASE found = {}
    <2>1. Settled(r, kind)'
      BY <1>6, <1>8, <1>10, <1>13 DEF Settled, Heard
    <2>2. calls'[r] = Enter(calls[r], calls[r].at + 1)
      BY <1>12, <1>13
    <2>3. call \in Call /\ Sound(r)'
      BY <2>1, <2>2, <1>1, <1>2, <1>3, <1>9, <1>11, <1>12, Passes
    <2> HIDE DEF call
    <2>4. QED
      BY <2>3, <1>1, <1>7, <1>12, OneMoves
  <1>14. CASE found # {}
    <2>1. /\ call \in Call /\ call.phase = "mail" /\ call.due = found
          /\ call.at = calls[r].at /\ call.script = calls[r].script
      BY <1>2, <1>5, <1>14 DEF Call
    <2> HIDE DEF call
    <2>2. Current(r)' = kind /\ Passed(r)' = Passed(r)
      BY <2>1, <1>3, <1>12 DEF Current, Passed
    <2>3. AtKind(r)'
      <3>1. MustHear(r, kind)' \subseteq Told(r, kind)' \union Missed(r, kind)' \union found
        BY <1>6, <1>8
      <3>2. QED
        BY <3>1, <2>1, <2>2, <1>2, <1>10, <1>12 DEF AtKind, Underway
    <2>4. DueToManagers(r)'
      BY <2>1, <2>2, <1>1, <1>5, <1>6, <1>12 DEF DueToManagers
    <2>5. Unsent(r)' /\ Between(r)'
      BY <2>1, <1>1, <1>12 DEF Inductive, Sound, Unsent, Between
    <2>6. Heeded(r)'
      <3>1. \A k \in Passed(r) : Settled(r, k)
        BY <1>1 DEF Inductive, Sound, Heeded
      <3>2. \A k \in Passed(r) : Settled(r, k)'
        BY <3>1, <1>1, <1>9, SettledStays
      <3>3. QED
        BY <3>2, <2>2 DEF Heeded
    <2>7. Sound(r)'
      BY <2>3, <2>4, <2>5, <2>6, <1>11 DEF Sound
    <2>8. QED
      BY <2>1, <2>7, <1>1, <1>7, <1>12, OneMoves
  <1>15. QED
    BY <1>13, <1>14

LEMMA SkipUnconfiguredKeeps ==
    ASSUME Inductive, NEW r \in Requests, SkipUnconfigured(r)
    PROVE  Inductive'
  <1>1. /\ calls[r].phase = "find" /\ ~Reachable(Current(r))
        /\ calls' = [calls EXCEPT ![r] = Enter(calls[r], calls[r].at + 1)]
        /\ UNCHANGED <<managers, sent, failed, since>>
    BY DEF SkipUnconfigured
  <1>2. calls[r] \in Call /\ calls[r].at \in 1 .. Len(calls[r].script) /\ Underway(r)
    BY <1>1 DEF Inductive, TypeOK, Sound, AtKind, Underway
  <1>3. PICK kind \in Kind : kind = Current(r)
    BY <1>2 DEF Call, Current
  <1>4. Settled(r, kind)'
    <2>1. kind \in Timesheet => Posted(r, kind)'
      BY <1>1, <1>3 DEF Inductive, Sound, AtKind, Posted
    <2>2. QED
      BY <2>1, <1>1, <1>3 DEF Settled, Reachable
  <1>5. ToldManagers(r)'
    BY <1>1 DEF Inductive, Sound, ToldManagers, Told
  <1> DEFINE call == Enter(calls[r], calls[r].at + 1)
  <1>6. calls' = [calls EXCEPT ![r] = call] /\ calls'[r] = call
    BY <1>1 DEF Inductive, TypeOK
  <1>7. call \in Call /\ Sound(r)'
    BY <1>1, <1>2, <1>3, <1>4, <1>5, <1>6, Passes
  <1> HIDE DEF call
  <1>8. sent' \in [Requests -> SUBSET Notice] /\ failed' \in [Requests -> SUBSET Notice]
    BY <1>1 DEF Inductive, TypeOK
  <1>9. QED
    BY <1>1, <1>6, <1>7, <1>8, OneMoves

LEMMA PublishKeeps ==
    ASSUME Inductive, NEW r \in Requests, Publish(r)
    PROVE  Inductive'
  <1>1. calls[r].phase = "mail" /\ UNCHANGED <<managers, since>>
    BY DEF Publish
  <1>2. calls[r] \in Call /\ calls[r].at \in 1 .. Len(calls[r].script) /\ Underway(r)
    BY <1>1 DEF Inductive, TypeOK, Sound, AtKind, Underway
  <1>3. PICK kind \in Kind : kind = Current(r)
    BY <1>2 DEF Call, Current
  <1>4. PICK to \in calls[r].due, ok \in BOOLEAN :
            /\ calls' = [calls EXCEPT ![r] =
                   IF @.due = {to} THEN Enter(@, @.at + 1)
                   ELSE [@ EXCEPT !.due = calls[r].due \ {to}]]
            /\ Record(r, ok, Due(Current(r), {to}))
    BY DEF Publish
  <1>5. to \in People /\ to # "topic" /\ calls[r].due \subseteq People
    BY <1>2, PeopleAssumption DEF Call
  <1>6. /\ sent' \in [Requests -> SUBSET Notice]
        /\ failed' \in [Requests -> SUBSET Notice]
        /\ \A s \in Requests \ {r} : sent'[s] = sent[s] /\ failed'[s] = failed[s]
        /\ sent'[r] = IF ok THEN sent[r] \union Due(kind, {to}) ELSE sent[r]
        /\ failed'[r] = IF ok THEN failed[r] ELSE failed[r] \union Due(kind, {to})
    <2>1. Record(r, ok, Due(kind, {to}))
      BY <1>3, <1>4
    <2>2. Due(kind, {to}) \in SUBSET Notice
      BY <1>5 DEF Due, Notice
    <2>3. QED
      BY <2>1, <2>2 DEF Record, Inductive, TypeOK
  <1>7. /\ Told(r, kind) \union Missed(r, kind) \union {to} \subseteq
               Told(r, kind)' \union Missed(r, kind)'
        /\ \A k : Told(r, k)' \subseteq
               Told(r, k) \union (IF k = kind THEN {to} ELSE {})
    <2>1. {to} \ {"topic"} = {to}
      BY <1>5
    <2>2. CASE ok
      <3>1. sent'[r] = sent[r] \union Due(kind, {to}) /\ failed'[r] = failed[r]
        BY <2>2, <1>6
      <3>2. \A k : Told(r, k)' = Told(r, k) \union (IF k = kind THEN {to} \ {"topic"} ELSE {})
        BY <3>1, ToldMore
      <3>3. \A k : Missed(r, k)' = Missed(r, k)
        BY <3>1 DEF Missed
      <3>4. QED
        BY <3>2, <3>3, <2>1
    <2>3. CASE ~ok
      <3>1. failed'[r] = failed[r] \union Due(kind, {to}) /\ sent'[r] = sent[r]
        BY <2>3, <1>6
      <3>2. Missed(r, kind)' = Missed(r, kind) \union ({to} \ {"topic"})
        BY <3>1, MissedMore
      <3>3. \A k : Told(r, k)' = Told(r, k)
        BY <3>1 DEF Told
      <3>4. QED
        BY <3>2, <3>3, <2>1
    <2>4. QED
      BY <2>2, <2>3
  <1>8. sent[r] \subseteq sent'[r] /\ failed[r] \subseteq failed'[r]
    BY <1>6
  <1>9. MustHear(r, kind)' = MustHear(r, kind)
    BY <1>1 DEF MustHear
  <1>10. MustHear(r, kind) \subseteq Told(r, kind) \union Missed(r, kind) \union calls[r].due
    BY <1>1, <1>3 DEF Inductive, Sound, AtKind
  <1>11. kind \in Timesheet => Posted(r, kind)'
    <2>1. kind \in Timesheet => Posted(r, kind)
      BY <1>1, <1>3 DEF Inductive, Sound, AtKind
    <2>2. QED
      BY <2>1, <1>8 DEF Posted
  <1>12. ToldManagers(r)'
    <2>1. kind = "submitted" => to \in since[r].ever
      BY <1>1, <1>3 DEF Inductive, Sound, DueToManagers
    <2>2. Told(r, "submitted") \subseteq since[r].ever
      BY DEF Inductive, Sound, ToldManagers
    <2>3. Told(r, "submitted")' \subseteq since[r].ever
      BY <2>1, <2>2, <1>7
    <2>4. QED
      BY <2>3, <1>1 DEF ToldManagers
  <1> DEFINE call == IF calls[r].due = {to} THEN Enter(calls[r], calls[r].at + 1)
                     ELSE [calls[r] EXCEPT !.due = calls[r].due \ {to}]
  <1>13. calls' = [calls EXCEPT ![r] = call] /\ calls'[r] = call
    <2>1. calls' = [calls EXCEPT ![r] = call]
      <3>1. CASE calls[r].due = {to}
        BY <3>1, <1>4
      <3>2. CASE calls[r].due # {to}
        BY <3>2, <1>4
      <3>3. QED
        BY <3>1, <3>2
    <2>2. QED
      BY <2>1 DEF Inductive, TypeOK
  <1>14. CASE calls[r].due = {to}
    <2>1. Settled(r, kind)'
      BY <1>7, <1>9, <1>10, <1>11, <1>14 DEF Settled, Heard
    <2>2. calls'[r] = Enter(calls[r], calls[r].at + 1)
      BY <1>13, <1>14
    <2>3. call \in Call /\ Sound(r)'
      BY <2>1, <2>2, <1>1, <1>2, <1>3, <1>8, <1>12, <1>13, Passes
    <2> HIDE DEF call
    <2>4. QED
      BY <2>3, <1>1, <1>6, <1>13, OneMoves
  <1>15. CASE calls[r].due # {to}
    <2>1. /\ call \in Call /\ call.phase = "mail" /\ call.due = calls[r].due \ {to}
          /\ call.at = calls[r].at /\ call.script = calls[r].script
      BY <1>1, <1>2, <1>15 DEF Call
    <2> HIDE DEF call
    <2>2. Current(r)' = kind /\ Passed(r)' = Passed(r)
      BY <2>1, <1>3, <1>13 DEF Current, Passed
    <2>3. AtKind(r)'
      <3>1. MustHear(r, kind)' \subseteq
                Told(r, kind)' \union Missed(r, kind)' \union (calls[r].due \ {to})
        BY <1>7, <1>9, <1>10
      <3>2. QED
        BY <3>1, <2>1, <2>2, <1>2, <1>11, <1>13 DEF AtKind, Underway
    <2>4. DueToManagers(r)'
      BY <2>1, <2>2, <1>1, <1>3, <1>13 DEF Inductive, Sound, DueToManagers
    <2>5. Unsent(r)' /\ Between(r)'
      BY <2>1, <1>1, <1>13 DEF Inductive, Sound, Unsent, Between
    <2>6. Heeded(r)'
      <3>1. \A k \in Passed(r) : Settled(r, k)
        BY <1>1 DEF Inductive, Sound, Heeded
      <3>2. \A k \in Passed(r) : Settled(r, k)'
        BY <3>1, <1>1, <1>8, SettledStays
      <3>3. QED
        BY <3>2, <2>2 DEF Heeded
    <2>7. Sound(r)'
      BY <2>3, <2>4, <2>5, <2>6, <1>12 DEF Sound
    <2>8. QED
      BY <2>1, <2>7, <1>1, <1>6, <1>13, OneMoves
  <1>16. QED
    BY <1>14, <1>15

LEMMA CrashKeeps ==
    ASSUME Inductive, NEW r \in Requests, Crash(r)
    PROVE  Inductive'
  <1> DEFINE call == [calls[r] EXCEPT !.phase = "lost"]
  <1>1. /\ calls[r].phase \in {"post", "find", "mail"}
        /\ calls' = [calls EXCEPT ![r] = call]
        /\ UNCHANGED <<managers, sent, failed, since>>
    BY DEF Crash
  <1>2. call \in Call /\ call.phase = "lost" /\ calls'[r] = call
    BY <1>1 DEF Inductive, TypeOK, Call
  <1> HIDE DEF call
  <1>3. AtKind(r)' /\ DueToManagers(r)' /\ Unsent(r)' /\ Heeded(r)'
    BY <1>2 DEF AtKind, DueToManagers, Unsent, Heeded, Underway
  <1>4. Between(r)' /\ ToldManagers(r)'
    BY <1>1 DEF Inductive, Sound, Between, ToldManagers, Told
  <1>5. Sound(r)'
    BY <1>3, <1>4 DEF Sound
  <1>6. sent' \in [Requests -> SUBSET Notice] /\ failed' \in [Requests -> SUBSET Notice]
    BY <1>1 DEF Inductive, TypeOK
  <1>7. QED
    BY <1>1, <1>2, <1>5, <1>6, OneMoves

\* Managers come and go: the calls under way owe no more than before, and whoever
\* was one at some moment is still remembered.
LEMMA ManagersChangeKeeps ==
    ASSUME Inductive, ManagersChange
    PROVE  Inductive'
  <1>1. /\ managers' \subseteq People
        /\ since' = [r \in Requests |->
               IF calls[r].phase = "new" THEN since[r]
               ELSE [ever |-> since[r].ever \union managers',
                     always |-> since[r].always \intersect managers']]
        /\ UNCHANGED <<calls, sent, failed>>
    BY DEF ManagersChange, Inductive, TypeOK
  <1>2. TypeOK'
    BY <1>1 DEF Inductive, TypeOK
  <1>3. ASSUME NEW r \in Requests
        PROVE  Sound(r)'
    <2>1. Sound(r) /\ since[r] \in [ever: SUBSET People, always: SUBSET People]
      BY DEF Inductive, TypeOK
    <2>2. /\ since'[r].always \subseteq since[r].always
          /\ since[r].ever \subseteq since'[r].ever
          /\ calls[r].phase # "new" => /\ since'[r].always \subseteq managers'
                                       /\ managers' \subseteq since'[r].ever
      BY <1>1, <2>1
    <2>3. \A k : /\ Told(r, k)' = Told(r, k) /\ Missed(r, k)' = Missed(r, k)
                 /\ Posted(r, k)' = Posted(r, k)
                 /\ MustHear(r, k)' \subseteq MustHear(r, k)
      BY <1>1, <2>2 DEF Told, Missed, Posted, MustHear
    <2>4. Current(r)' = Current(r) /\ Passed(r)' = Passed(r)
      BY <1>1 DEF Current, Passed
    <2>5. AtKind(r)'
      BY <1>1, <2>1, <2>3, <2>4 DEF Sound, AtKind, Underway
    <2>6. DueToManagers(r)' /\ Unsent(r)' /\ Between(r)'
      BY <1>1, <2>1, <2>2, <2>4 DEF Sound, DueToManagers, Unsent, Between
    <2>7. ToldManagers(r)'
      BY <2>1, <2>2, <2>3 DEF Sound, ToldManagers
    <2>8. Heeded(r)'
      <3>1. \A k \in Passed(r) : Settled(r, k) => Settled(r, k)'
        BY <1>1, <2>2, SettledStays
      <3>2. QED
        BY <3>1, <1>1, <2>1, <2>4 DEF Sound, Heeded
    <2>9. QED
      BY <2>5, <2>6, <2>7, <2>8 DEF Sound
  <1>4. QED
    BY <1>2, <1>3 DEF Inductive

-----------------------------------------------------------------------------
(* The properties *)

LEMMA InitInductive == Init => Inductive
  <1> SUFFICES ASSUME Init PROVE Inductive
    OBVIOUS
  <1>1. TypeOK
    BY DEF Init, TypeOK, Call
  <1>2. ASSUME NEW r \in Requests PROVE Sound(r)
    <2>1. /\ calls[r].phase = "new" /\ calls[r].at = 0
          /\ sent[r] = {} /\ calls[r].script = <<>>
      BY DEF Init
    <2>2. Passed(r) = {} /\ Told(r, "submitted") = {}
      BY <2>1 DEF Passed, Told
    <2>3. QED
      BY <2>1, <2>2 DEF Sound, AtKind, DueToManagers, Unsent, Between,
                        ToldManagers, Heeded, Underway
  <1>3. QED
    BY <1>1, <1>2 DEF Inductive

LEMMA StepInductive == Inductive /\ [Next]_vars => Inductive'
  <1> SUFFICES ASSUME Inductive, [Next]_vars PROVE Inductive'
    OBVIOUS
  <1>1. CASE UNCHANGED vars
    <2>1. TypeOK'
      BY <1>1 DEF vars, Inductive, TypeOK
    <2>2. \A r \in Requests : Sound(r)'
      BY <1>1 DEF vars, Inductive, Sound, AtKind, DueToManagers, Unsent, Between,
                  ToldManagers, Heeded, Settled, Heard, Posted, Underway, Current,
                  Passed, Told, Missed, MustHear
    <2>3. QED
      BY <2>1, <2>2 DEF Inductive
  <1>2. ASSUME NEW r \in Requests, Commit(r) PROVE Inductive'
    BY <1>2, CommitKeeps
  <1>3. ASSUME NEW r \in Requests, Send(r) PROVE Inductive'
    BY <1>3, PostEventKeeps, FindRecipientsKeeps, SkipUnconfiguredKeeps, PublishKeeps
       DEF Send
  <1>4. ASSUME NEW r \in Requests, Crash(r) PROVE Inductive'
    BY <1>4, CrashKeeps
  <1>5. CASE ManagersChange
    BY <1>5, ManagersChangeKeeps
  <1>6. QED
    BY <1>1, <1>2, <1>3, <1>4, <1>5 DEF Next

\* What a call relies on between its stages holds of every call, always.
THEOREM InductiveHolds == Spec => []Inductive
  BY InitInductive, StepInductive, PTL DEF Spec

\* The register of managers, the calls and the two histories keep their types,
\* whichever notices are sent and lost.
THEOREM NoticesTyped == Spec => []TypeOK
  <1>1. Inductive => TypeOK
    BY DEF Inductive
  <1>2. QED
    BY <1>1, InductiveHolds, PTL

\* Nobody is mailed about a submission who was not a manager at some moment since
\* it committed, however managers come and go before the mail is written.
THEOREM ManagersAreTold == Spec => []OnlyManagersAreTold
  <1>1. Inductive => OnlyManagersAreTold
    BY DEF Inductive, Sound, ToldManagers, OnlyManagersAreTold
  <1>2. QED
    BY <1>1, InductiveHolds, PTL

\* Whoever had to hear of a change a call is past has been told, or that very notice
\* was given up: no failure costs another notice, of any call to any number of people.
THEOREM FailuresStayApart == Spec => []OneFailureOneNotice
  <1>1. Inductive => OneFailureOneNotice
    BY DEF Inductive, Sound, Heeded, Settled, Heard, Posted, OneFailureOneNotice
  <1>2. QED
    BY <1>1, InductiveHolds, PTL
=============================================================================
