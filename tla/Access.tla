------------------------------- MODULE Access -------------------------------
(***************************************************************************)
(* Who may call what: the authentication middleware, the permissions guard,*)
(* the checks of each controller's handlers and those the services add,    *)
(* composed in the order a request meets them.                             *)
(*                                                                         *)
(* A caller is [kind, roles, scopes, userId], where kind is "anonymous",   *)
(* "rejected" (a token that does not verify), "human" or "machine".  w is  *)
(* what the request names: an assignment (its assignee, whether it is      *)
(* ASSIGNED), its engagement's creator and managers, and an application to *)
(* it.  The operator of some handlers is the set of those among them that  *)
(* serve the caller; the open engagement routes are EngagementReads'.      *)
(***************************************************************************)
CONSTANT None       \* no user id

Admin == "Administrator"
\* ManagerRoles, a role standing for both its spellings.
Managers == {"ProjectManager", "TaskManager", "TalentManager"}
PrivilegedUserRoles == {Admin} \union Managers

Scopes == {"read:engagements", "write:engagements", "manage:engagements",
           "read:applications", "write:applications", "read:feedback", "write:feedback",
           "read:member-experience", "write:member-experience", "manage:timesheets"}

Has(c, roles) == c.roles \intersect roles # {}

\* The handlers, to whom the condition admits.
Served(handlers, admitted) == IF admitted THEN handlers ELSE {}

(***************************************************************************)
(* Before the handler.                                                     *)
(***************************************************************************)
\* The middleware runs on every route: under the global prefix no path starts with
\* one of those it means to skip, so a token that does not verify is refused on the
\* public routes as well.
Middleware(c) == c.kind # "rejected"

\* The guard: a human in a privileged role needs no scope, and any one of the
\* declared scopes is enough.
PermissionsGuard(c, required) ==
    /\ Middleware(c)
    /\ c.kind # "anonymous"
    /\ \/ required = {}
       \/ c.kind = "human" /\ Has(c, PrivilegedUserRoles)
       \/ c.scopes \intersect required # {}

\* getUserIdentifier.
Identifier(c) == IF c.kind = "human" /\ c.userId # None THEN c.userId ELSE "system"

(***************************************************************************)
(* The checks of the handlers.                                             *)
(***************************************************************************)
\* A mutant of assertAdminOrPm: a scope is taken for the role.
assertAdminOrPmOrScope(c) ==
    c.kind = "machine" \/ Has(c, PrivilegedUserRoles) \/ c.scopes # {}

assertAdminOrPm(c) == c.kind = "machine" \/ Has(c, PrivilegedUserRoles)

assertAdminOnly(c) == c.kind = "machine" \/ Has(c, {Admin})

assertMachineScope(c, scope) == c.kind = "machine" => scope \in c.scopes

assertFlexiReadAccess(c) ==
    \/ c.kind = "machine" /\ "read:engagements" \in c.scopes
    \/ c.kind = "human" /\ Has(c, {Admin, "TalentManager"})

assertLeadManager(c) == c.kind = "machine" \/ Has(c, {Admin, "TalentManager"})

(***************************************************************************)
(* Engagements.                                                            *)
(***************************************************************************)
WriteOrManage == {"write:engagements", "manage:engagements"}

EngagementCreation(c) ==
    Served({"engagements.create"}, PermissionsGuard(c, WriteOrManage) /\ assertAdminOrPm(c))

AssignmentReads(c) ==
    Served({"engagements.findMyAssignments"},
           PermissionsGuard(c, {}) /\ assertMachineScope(c, "read:engagements"))
    \union Served({"engagements.findAssignmentContext"},
                  PermissionsGuard(c, {"read:engagements"}))

FlexiEngagementRoutes(c) ==
    Served({"flexi.engagementSummary", "flexi.engagementList", "flexi.engagementDetail"},
           PermissionsGuard(c, {"read:engagements"}) /\ assertFlexiReadAccess(c))

FlexiMemberRoutes(c) ==
    Served({"flexi.memberSummary", "flexi.memberList", "flexi.memberHistory",
            "flexi.memberDetail"},
           PermissionsGuard(c, {"read:engagements"}) /\ assertFlexiReadAccess(c))

EngagementWrites(c) ==
    Served({"engagements.update", "engagements.removeAssignment",
            "engagements.updateAssignmentStatus"},
           PermissionsGuard(c, WriteOrManage) /\ assertAdminOrPm(c))

\* assertMemberCanRespondToOffer.
CanRespondToOffer(c, w) ==
    /\ c.kind # "machine"
    /\ ~Has(c, PrivilegedUserRoles)
    /\ Identifier(c) = w.assignee

OfferRoutes(c, w) ==
    Served({"offers.accept", "offers.reject"},
           PermissionsGuard(c, {}) /\ CanRespondToOffer(c, w))

EngagementRemoval(c) ==
    Served({"engagements.remove"},
           PermissionsGuard(c, {"manage:engagements"}) /\ assertAdminOnly(c))

(***************************************************************************)
(* Applications.                                                           *)
(***************************************************************************)
\* The service's own isAdminOrPm.
isAdminOrPm(c) == c.kind = "machine" \/ Has(c, PrivilegedUserRoles)

\* The rows findAll lets a caller see: a project manager who is not an
\* administrator is held to the engagements of their own making.  A caller without a
\* user id is held to nothing.
ApplicationListed(c, w) ==
    LET held == c.kind = "human" /\ "ProjectManager" \in c.roles /\ Admin \notin c.roles IN
    \/ held /\ c.userId \in {None, w.creator}
    \/ ~held /\ isAdminOrPm(c)
    \/ ~held /\ ~isAdminOrPm(c) /\ c.userId \in {None, w.applicant}

\* findOne, through which the status changes go as well.
ApplicationFound(c, w) == isAdminOrPm(c) \/ w.applicant = c.userId

Applying(c) ==
    Served({"applications.create"},
           PermissionsGuard(c, {}) /\ c.kind # "machine" /\ c.userId # None)

ApplicationReads(c, w) ==
    LET read == PermissionsGuard(c, {}) /\ assertMachineScope(c, "read:applications") IN
    Served({"applications.findAll"}, read)
    \union Served({"applications.findOne"}, read /\ ApplicationFound(c, w))
    \union Served({"applications.findByEngagement"},
                  /\ PermissionsGuard(c, {"read:applications"})
                  /\ assertAdminOrPm(c) /\ isAdminOrPm(c))

ApplicationWrites(c, w) ==
    Served({"applications.updateStatus", "applications.approve"},
           /\ PermissionsGuard(c, {"write:applications"})
           /\ assertAdminOrPm(c) /\ ApplicationFound(c, w))

(***************************************************************************)
(* Feedback and member experiences.                                        *)
(***************************************************************************)
OpenFeedbackRoutes(c) == Served({"feedback.findAll", "feedback.findOne"}, Middleware(c))

FeedbackWrites(c) ==
    Served({"feedback.generateLink", "feedback.create"},
           PermissionsGuard(c, {"write:feedback"}) /\ assertAdminOrPm(c))

AnonymousFeedbackRoutes(c) ==
    Served({"feedback.submitAnonymous", "feedback.getAnonymous"}, Middleware(c))

FeedbackOfAssignment(c) ==
    Served({"feedback.findByAssignment"},
           PermissionsGuard(c, {"read:feedback"}) /\ assertAdminOrPm(c))

\* assertMemberOwnsAssignment.
OwnsAssignment(c, w) == Identifier(c) = w.assignee

\* isPrivilegedUser, or the assignee.
MayReadExperience(c, w) == isAdminOrPm(c) \/ Identifier(c) = w.assignee

ExperienceWrites(c, w) ==
    Served({"experiences.create", "experiences.update"},
           /\ PermissionsGuard(c, {})
           /\ assertMachineScope(c, "write:member-experience") /\ OwnsAssignment(c, w))

ExperienceReads(c, w) ==
    Served({"experiences.findByAssignment", "experiences.findOne"},
           /\ PermissionsGuard(c, {})
           /\ assertMachineScope(c, "read:member-experience") /\ MayReadExperience(c, w))

(***************************************************************************)
(* Leads.                                                                  *)
(***************************************************************************)
IntakeRoutes(c) ==
    Served({"leads.submitIntake", "leads.submitWiproDirectIntake"}, Middleware(c))

LeadReads(c) ==
    Served({"leads.findAll", "leads.findOne", "leads.prefill"},
           PermissionsGuard(c, {"read:engagements"}) /\ assertLeadManager(c))

LeadWrites(c) ==
    Served({"leads.updateStatus", "leads.addNote", "leads.markConverted"},
           PermissionsGuard(c, {"write:engagements"}) /\ assertLeadManager(c))

(***************************************************************************)
(* Timesheets and engagement managers: the guard only authenticates, the   *)
(* service resolves a role.                                                *)
(***************************************************************************)
isTimesheetAdmin(c) ==
    IF c.kind = "machine" THEN "manage:timesheets" \in c.scopes ELSE Admin \in c.roles

isTimesheetTm(c) == "TalentManager" \in c.roles

Person(c) == c.kind = "human" /\ c.userId # None

\* A mutant of TimesheetRole: the platform role is looked at first.
TimesheetRoleByPlatform(c, w) ==
    IF isTimesheetAdmin(c) THEN "ADMINISTRATOR"
    ELSE IF Person(c) /\ c.userId = w.assignee THEN "MEMBER"
    ELSE IF Person(c) /\ c.userId \in w.managers THEN "MANAGER"
    ELSE IF isTimesheetTm(c) THEN "TM" ELSE None

\* resolveTimesheetRole, the first match; None where it answers 404.
TimesheetRole(c, w) ==
    IF Person(c) /\ c.userId = w.assignee THEN "MEMBER"
    ELSE IF isTimesheetAdmin(c) THEN "ADMINISTRATOR"
    ELSE IF Person(c) /\ c.userId \in w.managers THEN "MANAGER"
    ELSE IF isTimesheetTm(c) THEN "TM" ELSE None

\* A handler open to the roles of the set.
OpenTo(c, w, roles) == PermissionsGuard(c, {}) /\ TimesheetRole(c, w) \in roles

Reviewers == {"ADMINISTRATOR", "MANAGER", "TM"}

\* assertMemberAssignmentActive.
WritesEntries(c, w) ==
    /\ OpenTo(c, w, {"MEMBER", "ADMINISTRATOR"})
    /\ TimesheetRole(c, w) = "MEMBER" => w.assigned

TimesheetEntries(c, w) ==
    Served({"timesheets.findTimesheet"}, OpenTo(c, w, Reviewers \union {"MEMBER"}))
    \union Served({"timesheets.upsertEntries"}, WritesEntries(c, w))

TimesheetPayments(c, w) ==
    Served({"timesheets.summary", "timesheets.linkPayment", "timesheets.byPaymentReference"},
           OpenTo(c, w, Reviewers))
    \union Served({"timesheets.findEntryAudit"}, OpenTo(c, w, {"ADMINISTRATOR"}))

TimesheetActions(c, w) ==
    Served({"timesheets.submitEntries", "timesheets.deleteEntries"}, WritesEntries(c, w))
    \union Served({"timesheets.approveEntries"}, OpenTo(c, w, Reviewers))
    \union Served({"timesheets.reopenEntries"}, OpenTo(c, w, {"ADMINISTRATOR"}))

ApprovedTimesheets(c) ==
    Served({"timesheets.findApproved"},
           PermissionsGuard(c, {}) /\ (isTimesheetAdmin(c) \/ isTimesheetTm(c)))

TimesheetEngagements(c) ==
    Served({"timesheets.findEngagements"},
           /\ PermissionsGuard(c, {})
           /\ isTimesheetAdmin(c) \/ isTimesheetTm(c) \/ c.userId # None)

\* canManageEngagementManagers.
ManagesManagers(c) == isTimesheetAdmin(c) \/ isTimesheetTm(c)

\* assertCanRead.
MayReadManagers(c, w) ==
    \/ ManagesManagers(c)
    \/ c.userId # None /\ c.userId \in w.managers
    \/ c.userId # None /\ w.assigned /\ c.userId = w.assignee

ManagerRoutes(c, w) ==
    Served({"managers.findAll"}, PermissionsGuard(c, {}) /\ MayReadManagers(c, w))
    \union Served({"managers.findAudit", "managers.assign", "managers.remove"},
                  PermissionsGuard(c, {}) /\ ManagesManagers(c))

(***************************************************************************)
(* What the layers owe together.                                           *)
(***************************************************************************)
Public == {"feedback.findAll", "feedback.findOne", "feedback.submitAnonymous",
           "feedback.getAnonymous", "leads.submitIntake", "leads.submitWiproDirectIntake"}

Admitted(c, w) == UNION {
    OpenFeedbackRoutes(c), AnonymousFeedbackRoutes(c), IntakeRoutes(c),
    EngagementCreation(c), AssignmentReads(c), FlexiEngagementRoutes(c),
    FlexiMemberRoutes(c), EngagementWrites(c), OfferRoutes(c, w), EngagementRemoval(c),
    Applying(c), ApplicationReads(c, w), ApplicationWrites(c, w), FeedbackWrites(c),
    FeedbackOfAssignment(c), ExperienceWrites(c, w), ExperienceReads(c, w), LeadReads(c),
    LeadWrites(c), TimesheetEntries(c, w), TimesheetPayments(c, w), TimesheetActions(c, w),
    ApprovedTimesheets(c), TimesheetEngagements(c), ManagerRoutes(c, w)}

Offers == {"offers.accept", "offers.reject"}

\* What a person is served about themselves, whoever they are, and what an
\* assignee, a manager and an applicant are served of what they are tied to.
OfAnyone == {"engagements.findMyAssignments", "applications.create",
             "applications.findAll", "timesheets.findEngagements"}
OfAssignee == Offers \union
    {"managers.findAll", "timesheets.findTimesheet", "timesheets.upsertEntries",
     "timesheets.submitEntries", "timesheets.deleteEntries", "experiences.create",
     "experiences.update", "experiences.findByAssignment", "experiences.findOne"}
OfManager ==
    {"managers.findAll", "timesheets.findTimesheet", "timesheets.approveEntries",
     "timesheets.summary", "timesheets.linkPayment", "timesheets.byPaymentReference"}

\* A person without a role is served only the public routes, their own lists and
\* what belongs to the ties they have to what is named, whatever scopes the token
\* carries, but for the assignment context that a scope opens; and an application
\* that is listed to a person can be opened by them.
SelfServiceStaysOwn(c, w) ==
    Person(c) =>
        /\ c.roles = {} =>
              Admitted(c, w) \subseteq
                  Public \union OfAnyone
                  \union Served({"engagements.findAssignmentContext"},
                                "read:engagements" \in c.scopes)
                  \union Served({"applications.findOne"}, c.userId = w.applicant)
                  \union Served(OfAssignee, c.userId = w.assignee)
                  \union Served(OfManager, c.userId \in w.managers)
        /\ ApplicationListed(c, w) => "applications.findOne" \in Admitted(c, w)

\* No role, scope or grant of authority lets an assignee approve, reopen or pay
\* their own hours or read their audit, and whoever may end an assignment may not
\* answer its offer; a machine without a scope is served the public routes only and
\* never answers an offer or applies; every other scope or role only adds to what a
\* caller may do.
DutiesAreSeparate(c, w) ==
    LET now == Admitted(c, w) IN
    /\ Person(c) /\ c.userId = w.assignee =>
          now \intersect {"timesheets.approveEntries", "timesheets.reopenEntries",
                          "timesheets.summary", "timesheets.linkPayment",
                          "timesheets.byPaymentReference", "timesheets.findEntryAudit"} = {}
    /\ "engagements.updateAssignmentStatus" \in now => now \intersect Offers = {}
    /\ c.kind = "machine" =>
          /\ c.scopes = {} => now \subseteq Public
          /\ now \intersect (Offers \union {"applications.create"}) = {}
    /\ \A scope \in Scopes : now \subseteq Admitted([c EXCEPT !.scopes = @ \union {scope}], w)
    /\ c.kind = "human" => \A role \in PrivilegedUserRoles :
          now \ Offers \subseteq Admitted([c EXCEPT !.roles = @ \union {role}], w)
=============================================================================
