--------------------------- MODULE EngagementReads ---------------------------
(***************************************************************************)
(* Who sees which engagement, and how much of it: the public list, the     *)
(* active list, the caller's own assignments and the detail, from the      *)
(* controller's checks to the row that is returned.                        *)
(*                                                                         *)
(* db is [engagements, applications, assignments]; a caller is [kind,      *)
(* roles, userId]; a query has the facets of EngagementQueryDto, None when *)
(* absent.  Paging and sorting choose among the rows of an answer and are  *)
(* left out, names and references are reduced to whether they are there.   *)
(***************************************************************************)
EXTENDS Naturals, FiniteSets

CONSTANTS
    None,           \* an absent facet or identifier
    TestProjects,   \* getTestProjectIds
    SkillNamed      \* the skill of each name that the skills service knows, if it answers

Any == "Any"        \* ANY_LOCATION

ActiveStatuses == {"SELECTED", "ASSIGNED"}
MyStatuses == {"SELECTED", "ASSIGNED", "COMPLETED", "TERMINATED"}

PrivateRoles == {"Administrator", "TalentManager"}   \* includePrivateRoles

(***************************************************************************)
(* The controller's checks.                                                *)
(***************************************************************************)
\* canViewAssignmentDetails, and assertCanIncludePrivate.
MaySeePrivate(caller) ==
    \/ caller.kind = "machine"
    \/ caller.kind = "human" /\ caller.roles \intersect PrivateRoles # {}

\* getUserIdentifier.
Identifier(caller) ==
    IF caller.kind = "human" /\ caller.userId # None THEN caller.userId ELSE "system"

\* The status an appliedByMe request is refused with, or None.
AppliedByMeError(caller) ==
    CASE caller.kind = "anonymous" -> 401
      [] caller.kind = "machine" -> 403
      [] OTHER -> IF caller.userId = None THEN 401 ELSE None

\* The user an appliedByMe request is about.
AppliedBy(caller, q) == IF q.appliedByMe THEN caller.userId ELSE None

MemberScoped(caller, q) == q.includePrivate /\ AppliedBy(caller, q) # None

\* The effective includePrivate: without the right to it, it is ignored.
ListsPrivate(caller, q) ==
    q.includePrivate /\ (MemberScoped(caller, q) \/ MaySeePrivate(caller))

(***************************************************************************)
(* What a list matches.                                                    *)
(***************************************************************************)
\* A country or a time zone suffices, and so does Any in either.
InLocation(e, q) ==
    q.countries # None \/ q.timeZones # None =>
        \/ q.countries # None /\ e.countries \intersect q.countries # {}
        \/ q.timeZones # None /\ e.timeZones \intersect q.timeZones # {}
        \/ Any \in e.countries
        \/ Any \in e.timeZones

\* projectIds wins over projectId.
InProject(e, q) ==
    IF q.projectIds # None THEN e.project \in q.projectIds
    ELSE q.projectId \in {None, e.project}

\* resolveSkillFilterValues: ids stand for themselves, names for the skill they name.  What
\* is neither is of no engagement, whose skills are ids.
SkillsOf(values) == values \union {SkillNamed[n] : n \in values \intersect DOMAIN SkillNamed}

HasSkill(e, q) == q.skills # None => e.skills \intersect SkillsOf(q.skills) # {}

\* A search looks at the text, and at the skill of that name if there is one.
IsSearched(e, q) ==
    q.search # None =>
        e.title = q.search \/ e.skills \intersect SkillsOf({q.search}) # {}

Applied(db, e, user) ==
    \E p \in db.applications : p.engagement = e.id /\ p.userId = user

AssignmentsOf(db, e, user) ==
    {a \in db.assignments : a.engagement = e.id /\ a.memberId = user}

IsMine(db, e, caller, q) ==
    LET user == AppliedBy(caller, q) IN
    user # None =>
        \/ Applied(db, e, user)
        \/ MemberScoped(caller, q) /\ AssignmentsOf(db, e, user) # {}

Matches(db, e, caller, q) ==
    /\ ~ListsPrivate(caller, q) => ~e.isPrivate /\ e.status # "ON_HOLD"
    /\ InProject(e, q)
    /\ q.status \in {None, e.status}
    /\ IsSearched(e, q)
    /\ HasSkill(e, q)
    /\ q.role \in {None, e.role}
    /\ q.excludeTestProjects => e.project \notin TestProjects
    /\ IsMine(db, e, caller, q)
    /\ InLocation(e, q)

(***************************************************************************)
(* What is returned of a match.  internal stands for the account metadata, *)
(* email for the creator's address, assignments is None where the field is *)
(* left out.                                                               *)
(***************************************************************************)
Row(e, assignments, internal, email) ==
    [id |-> e.id, isPrivate |-> e.isPrivate, status |-> e.status,
     assignments |-> assignments, internal |-> internal, email |-> email]

\* serializePublicEngagement.
PublicRow(e) == Row(e, None, FALSE, FALSE)

ListRow(db, e, caller, q) ==
    CASE MemberScoped(caller, q) ->
            Row(e, AssignmentsOf(db, e, AppliedBy(caller, q)), FALSE, FALSE)
      [] ListsPrivate(caller, q) /\ ~MemberScoped(caller, q) ->
            Row(e, {a \in db.assignments : a.engagement = e.id}, TRUE, TRUE)
      [] OTHER -> PublicRow(e)

Answer(rows) == [status |-> 200, rows |-> rows]
Refusal(status) == [status |-> status, rows |-> {}]

\* GET /engagements.
List(db, caller, q) ==
    CASE q.appliedByMe /\ AppliedByMeError(caller) # None ->
            Refusal(AppliedByMeError(caller))
      [] /\ ~(q.appliedByMe /\ AppliedByMeError(caller) # None)
         /\ q.status = "ON_HOLD" /\ ~MemberScoped(caller, q) /\ ~MaySeePrivate(caller) ->
            Refusal(401)
      [] OTHER ->
            Answer({ListRow(db, e, caller, q) :
                       e \in {f \in db.engagements : Matches(db, f, caller, q)}})

\* A mutant of ActiveList: a private engagement is listed once it is open.
ActiveListOfOpen(db) ==
    Answer({PublicRow(e) : e \in {f \in db.engagements : f.status = "OPEN"}})

\* GET /engagements/active.
ActiveList(db) ==
    Answer({PublicRow(e) :
               e \in {f \in db.engagements : ~f.isPrivate /\ f.status = "OPEN"}})

\* GET /engagements/my-assignments: the record is not narrowed, the assignments
\* are the caller's, and a skill is looked for as it was typed, by its id.
MyAssignments(db, caller, q) ==
    LET user == Identifier(caller)
        mine(e) == {a \in AssignmentsOf(db, e, user) : a.status \in MyStatuses}
    IN  IF caller.kind = "anonymous" THEN Refusal(401)
        ELSE Answer({Row(e, mine(e), TRUE, TRUE) :
                        e \in {f \in db.engagements :
                                  /\ mine(f) # {}
                                  /\ q.projectId \in {None, f.project}
                                  /\ q.status \in {None, f.status}
                                  /\ q.search \in {None, f.title}
                                  /\ q.skills # None => f.skills \intersect q.skills # {}
                                  /\ InLocation(f, q)}})

\* A mutant of Detail: the second read is trusted to be of a public engagement
\* whenever the first was private and the caller is known.
DetailForKnown(db, later, caller, id) ==
    LET first == {e \in db.engagements : e.id = id}
        second == {e \in later.engagements : e.id = id}
    IN  CASE first = {} -> Refusal(404)
          [] first # {} /\ MaySeePrivate(caller) ->
                Answer({Row(e, {a \in db.assignments : a.engagement = id}, TRUE, TRUE) :
                           e \in first})
          [] \E e \in first : ~e.isPrivate /\ ~MaySeePrivate(caller) ->
                Answer({PublicRow(e) : e \in first})
          [] OTHER ->
                IF caller.kind = "anonymous" THEN Refusal(401)
                ELSE Answer({Row(e, AssignmentsOf(later, e, Identifier(caller)),
                                 TRUE, TRUE) : e \in second})

\* GET /engagements/:id.  A private engagement is read again for a caller without
\* the right to it: db is the first reading and later the second.
Detail(db, later, caller, id) ==
    LET first == {e \in db.engagements : e.id = id}
        second == {e \in later.engagements : e.id = id}
        mine(e) == {a \in AssignmentsOf(later, e, Identifier(caller)) :
                       a.status \in ActiveStatuses}
    IN  CASE first = {} -> Refusal(404)
          [] first # {} /\ MaySeePrivate(caller) ->
                Answer({Row(e, {a \in db.assignments : a.engagement = id}, TRUE, TRUE) :
                           e \in first})
          [] \E e \in first : ~e.isPrivate /\ ~MaySeePrivate(caller) ->
                Answer({PublicRow(e) : e \in first})
          [] OTHER ->
                CASE caller.kind = "anonymous" -> Refusal(401)
                  [] caller.kind # "anonymous" /\ second = {} -> Refusal(404)
                  [] \E e \in second : caller.kind # "anonymous" /\ mine(e) = {} ->
                        Refusal(401)
                  [] OTHER -> Answer({Row(e, mine(e), TRUE, TRUE) : e \in second})

(***************************************************************************)
(* What the answers must not show, and owe each other.                     *)
(***************************************************************************)
\* A caller without a privilege sees public engagements and those applied or
\* assigned to, of the assignments only the caller's own, and internal metadata
\* or the creator's address only where assigned; a list has no ON_HOLD engagement
\* that is not the caller's.
ShowsOnly(db, caller, rows) ==
    \A row \in rows :
        LET user == Identifier(caller)
            e == CHOOSE f \in db.engagements : f.id = row.id
            assigned == AssignmentsOf(db, e, user) # {}
        IN  /\ row.isPrivate => assigned \/ Applied(db, e, user)
            /\ row.internal \/ row.email => assigned
            /\ row.assignments # None => \A a \in row.assignments : a.memberId = user

NothingLeaks(db, later, caller, q) ==
    ~MaySeePrivate(caller) =>
        LET list == List(db, caller, q)
            mine == MyAssignments(db, caller, q)
        IN  /\ ShowsOnly(db, caller, list.rows)
            /\ ShowsOnly(db, caller, mine.rows)
            /\ ShowsOnly(db, caller, ActiveList(db).rows)
            /\ \A row \in list.rows : row.status = "ON_HOLD" =>
                  ShowsOnly(db, caller, {[row EXCEPT !.isPrivate = TRUE]})
            /\ \A e \in db.engagements :
                  LET one == Detail(db, later, caller, e.id) IN
                  \/ ShowsOnly(db, caller, one.rows)
                  \/ ShowsOnly(later, caller, one.rows)

\* The active list is the public list of open engagements; what a public list
\* shows can be opened; my assignments are in the member's private list; and a
\* facet that is not a location only narrows a list.
ListsAgree(db, caller, q) ==
    LET plain == [q EXCEPT !.status = None, !.includePrivate = FALSE,
                           !.appliedByMe = FALSE, !.countries = None,
                           !.timeZones = None, !.projectId = None, !.projectIds = None,
                           !.skills = None, !.search = None, !.role = None,
                           !.excludeTestProjects = FALSE]
        ids(answer) == {row.id : row \in answer.rows}
        wider == {[q EXCEPT !.role = None], [q EXCEPT !.skills = None],
                  [q EXCEPT !.search = None], [q EXCEPT !.excludeTestProjects = FALSE],
                  [q EXCEPT !.countries = None, !.timeZones = None],
                  [q EXCEPT !.projectId = None, !.projectIds = None]}
    IN  /\ ActiveList(db) = List(db, caller, [plain EXCEPT !.status = "OPEN"])
        /\ ~ListsPrivate(caller, q) =>
              \A id \in ids(List(db, caller, q)) : Detail(db, db, caller, id).status = 200
        /\ caller.kind = "human" /\ caller.userId # None =>
              LET private == [q EXCEPT !.includePrivate = TRUE, !.appliedByMe = TRUE,
                                       !.role = None, !.projectIds = None,
                                       !.excludeTestProjects = FALSE]
              IN  ids(MyAssignments(db, caller, q)) \subseteq ids(List(db, caller, private))
        /\ \A w \in wider : ids(List(db, caller, q)) \subseteq ids(List(db, caller, w))
=============================================================================
