---------------------------- MODULE AnswersProofs ----------------------------
(***************************************************************************)
(* What the modules without a state of their own promise, for every        *)
(* database, caller and request, and hence in every state of MCAnswers.    *)
(***************************************************************************)
EXTENDS MCAnswers, FiniteSetTheorems, FunctionTheorems, TLAPS

-----------------------------------------------------------------------------
(* Access: callers *)

\* A caller of whatever roles, scopes and user ids there are.  A machine token has
\* no roles and no user.
CallerOf(roles, scopes, ids) ==
    {c \in [kind: {"human", "machine", "anonymous", "rejected"},
            roles: SUBSET roles, scopes: SUBSET scopes, userId: ids] :
        c.kind = "machine" => c.roles = {} /\ c.userId = None}

LEMMA InServed ==
    ASSUME NEW x, NEW H, NEW p
    PROVE  x \in Rules!Served(H, p) <=> x \in H /\ p
  BY DEF Rules!Served

\* A caller is admitted by one of the groups of handlers.
LEMMA AdmittedBy ==
    ASSUME NEW c, NEW w, NEW x
    PROVE  x \in Rules!Admitted(c, w) <=>
               \/ x \in Rules!OpenFeedbackRoutes(c)
               \/ x \in Rules!AnonymousFeedbackRoutes(c)
               \/ x \in Rules!IntakeRoutes(c)
               \/ x \in Rules!EngagementCreation(c)
               \/ x \in Rules!AssignmentReads(c)
               \/ x \in Rules!FlexiEngagementRoutes(c)
               \/ x \in Rules!FlexiMemberRoutes(c)
               \/ x \in Rules!EngagementWrites(c)
               \/ x \in Rules!OfferRoutes(c, w)
               \/ x \in Rules!EngagementRemoval(c)
               \/ x \in Rules!Applying(c)
               \/ x \in Rules!ApplicationReads(c, w)
               \/ x \in Rules!ApplicationWrites(c, w)
               \/ x \in Rules!FeedbackWrites(c)
               \/ x \in Rules!FeedbackOfAssignment(c)
               \/ x \in Rules!ExperienceWrites(c, w)
               \/ x \in Rules!ExperienceReads(c, w)
               \/ x \in Rules!LeadReads(c)
               \/ x \in Rules!LeadWrites(c)
               \/ x \in Rules!TimesheetEntries(c, w)
               \/ x \in Rules!TimesheetPayments(c, w)
               \/ x \in Rules!TimesheetActions(c, w)
               \/ x \in Rules!ApprovedTimesheets(c)
               \/ x \in Rules!TimesheetEngagements(c)
               \/ x \in Rules!ManagerRoutes(c, w)
  BY DEF Rules!Admitted

\* The handlers of a group.
LEMMA GroupsAre ==
    ASSUME NEW c, NEW w
    PROVE  /\ Rules!OpenFeedbackRoutes(c) \subseteq {"feedback.findAll", "feedback.findOne"}
           /\ Rules!EngagementCreation(c) \subseteq {"engagements.create"}
           /\ Rules!AssignmentReads(c) \subseteq
                  {"engagements.findMyAssignments",
                   "engagements.findAssignmentContext"}
           /\ Rules!FlexiEngagementRoutes(c) \subseteq
                  {"flexi.engagementSummary", "flexi.engagementList",
                   "flexi.engagementDetail"}
           /\ Rules!FlexiMemberRoutes(c) \subseteq
                  {"flexi.memberSummary", "flexi.memberList", "flexi.memberHistory",
                   "flexi.memberDetail"}
           /\ Rules!EngagementWrites(c) \subseteq
                  {"engagements.update", "engagements.removeAssignment",
                   "engagements.updateAssignmentStatus"}
           /\ Rules!OfferRoutes(c, w) \subseteq {"offers.accept", "offers.reject"}
           /\ Rules!EngagementRemoval(c) \subseteq {"engagements.remove"}
           /\ Rules!Applying(c) \subseteq {"applications.create"}
           /\ Rules!ApplicationReads(c, w) \subseteq
                  {"applications.findAll", "applications.findOne",
                   "applications.findByEngagement"}
           /\ Rules!ApplicationWrites(c, w) \subseteq
                  {"applications.updateStatus", "applications.approve"}
           /\ Rules!FeedbackWrites(c) \subseteq
                  {"feedback.generateLink", "feedback.create"}
           /\ Rules!AnonymousFeedbackRoutes(c) \subseteq
                  {"feedback.submitAnonymous", "feedback.getAnonymous"}
           /\ Rules!FeedbackOfAssignment(c) \subseteq {"feedback.findByAssignment"}
           /\ Rules!ExperienceWrites(c, w) \subseteq
                  {"experiences.create", "experiences.update"}
           /\ Rules!ExperienceReads(c, w) \subseteq
                  {"experiences.findByAssignment", "experiences.findOne"}
           /\ Rules!IntakeRoutes(c) \subseteq
                  {"leads.submitIntake", "leads.submitWiproDirectIntake"}
           /\ Rules!LeadReads(c) \subseteq
                  {"leads.findAll", "leads.findOne", "leads.prefill"}
           /\ Rules!LeadWrites(c) \subseteq
                  {"leads.updateStatus", "leads.addNote", "leads.markConverted"}
           /\ Rules!TimesheetEntries(c, w) \subseteq
                  {"timesheets.findTimesheet", "timesheets.upsertEntries"}
           /\ Rules!TimesheetPayments(c, w) \subseteq
                  {"timesheets.summary", "timesheets.linkPayment",
                   "timesheets.byPaymentReference", "timesheets.findEntryAudit"}
           /\ Rules!TimesheetActions(c, w) \subseteq
                  {"timesheets.submitEntries", "timesheets.deleteEntries",
                   "timesheets.approveEntries", "timesheets.reopenEntries"}
           /\ Rules!ApprovedTimesheets(c) \subseteq {"timesheets.findApproved"}
           /\ Rules!TimesheetEngagements(c) \subseteq {"timesheets.findEngagements"}
           /\ Rules!ManagerRoutes(c, w) \subseteq
                  {"managers.findAll", "managers.findAudit", "managers.assign",
                   "managers.remove"}
  BY DEF Rules!Served, Rules!OpenFeedbackRoutes, Rules!EngagementCreation,
         Rules!AssignmentReads, Rules!FlexiEngagementRoutes,
         Rules!FlexiMemberRoutes, Rules!EngagementWrites, Rules!OfferRoutes,
         Rules!EngagementRemoval, Rules!Applying, Rules!ApplicationReads,
         Rules!ApplicationWrites, Rules!FeedbackWrites,
         Rules!AnonymousFeedbackRoutes, Rules!FeedbackOfAssignment,
         Rules!ExperienceWrites, Rules!ExperienceReads, Rules!IntakeRoutes,
         Rules!LeadReads, Rules!LeadWrites, Rules!TimesheetEntries,
         Rules!TimesheetPayments, Rules!TimesheetActions,
         Rules!ApprovedTimesheets, Rules!TimesheetEngagements,
         Rules!ManagerRoutes

\* What is asked of the caller before a handler of a group is served.
LEMMA GuardGrows ==
    ASSUME NEW c, NEW d, NEW required,
           c.kind = d.kind, c.roles \subseteq d.roles, c.scopes \subseteq d.scopes,
           Rules!PermissionsGuard(c, required)
    PROVE  Rules!PermissionsGuard(d, required)
  BY DEF Rules!PermissionsGuard, Rules!Middleware, Rules!Has

LEMMA ChecksGrow ==
    ASSUME NEW c, NEW d,
           c.kind = d.kind, c.roles \subseteq d.roles, c.scopes \subseteq d.scopes
    PROVE  /\ Rules!assertAdminOrPm(c) => Rules!assertAdminOrPm(d)
           /\ Rules!assertAdminOnly(c) => Rules!assertAdminOnly(d)
           /\ \A scope : Rules!assertMachineScope(c, scope) => Rules!assertMachineScope(d, scope)
           /\ Rules!assertFlexiReadAccess(c) => Rules!assertFlexiReadAccess(d)
           /\ Rules!assertLeadManager(c) => Rules!assertLeadManager(d)
           /\ Rules!isAdminOrPm(c) => Rules!isAdminOrPm(d)
           /\ Rules!isTimesheetAdmin(c) => Rules!isTimesheetAdmin(d)
           /\ Rules!isTimesheetTm(c) => Rules!isTimesheetTm(d)
           /\ Rules!ManagesManagers(c) => Rules!ManagesManagers(d)
  BY DEF Rules!assertAdminOrPm, Rules!assertAdminOnly, Rules!assertMachineScope,
         Rules!assertFlexiReadAccess, Rules!assertLeadManager, Rules!isAdminOrPm,
         Rules!isTimesheetAdmin, Rules!isTimesheetTm, Rules!ManagesManagers, Rules!Has

\* A timesheet role is kept, or gives way to the administrator's.
LEMMA RoleGrows ==
    ASSUME NEW c, NEW d, NEW w, NEW r \in {"MEMBER"} \union Rules!Reviewers,
           c.kind = d.kind, c.userId = d.userId,
           c.roles \subseteq d.roles, c.scopes \subseteq d.scopes,
           Rules!TimesheetRole(c, w) = r
    PROVE  /\ Rules!TimesheetRole(d, w) \in {r, "ADMINISTRATOR"}
           /\ r = "MEMBER" => Rules!TimesheetRole(d, w) = "MEMBER"
  <1>1. /\ Rules!isTimesheetAdmin(c) => Rules!isTimesheetAdmin(d)
        /\ Rules!isTimesheetTm(c) => Rules!isTimesheetTm(d)
        /\ Rules!Person(c) <=> Rules!Person(d)
    BY ChecksGrow DEF Rules!Person
  <1>2. QED
    BY <1>1, NoneIsNoAnswer DEF Rules!TimesheetRole, Rules!Reviewers

\* Another role or scope only adds to the handlers a caller is served, but for the
\* answers to an offer, which a role takes away.
LEMMA AdmittedGrows ==
    ASSUME NEW c, NEW d, NEW w,
           c.kind = d.kind, c.userId = d.userId,
           c.roles \subseteq d.roles, c.scopes \subseteq d.scopes
    PROVE  /\ Rules!Admitted(c, w) \ Rules!Offers \subseteq Rules!Admitted(d, w)
           /\ c.roles = d.roles => Rules!Admitted(c, w) \subseteq Rules!Admitted(d, w)
  <1>1. /\ \A required : Rules!PermissionsGuard(c, required)
               => Rules!PermissionsGuard(d, required)
        /\ Rules!assertAdminOrPm(c) => Rules!assertAdminOrPm(d)
        /\ Rules!assertAdminOnly(c) => Rules!assertAdminOnly(d)
        /\ \A scope : Rules!assertMachineScope(c, scope) => Rules!assertMachineScope(d, scope)
        /\ Rules!assertFlexiReadAccess(c) => Rules!assertFlexiReadAccess(d)
        /\ Rules!assertLeadManager(c) => Rules!assertLeadManager(d)
        /\ Rules!isAdminOrPm(c) => Rules!isAdminOrPm(d)
        /\ Rules!isTimesheetAdmin(c) => Rules!isTimesheetAdmin(d)
        /\ Rules!isTimesheetTm(c) => Rules!isTimesheetTm(d)
        /\ Rules!ManagesManagers(c) => Rules!ManagesManagers(d)
    BY GuardGrows, ChecksGrow
  <1>2. /\ Rules!OpenFeedbackRoutes(c) \subseteq Rules!OpenFeedbackRoutes(d)
        /\ Rules!AnonymousFeedbackRoutes(c) \subseteq Rules!AnonymousFeedbackRoutes(d)
        /\ Rules!IntakeRoutes(c) \subseteq Rules!IntakeRoutes(d)
    BY DEF Rules!OpenFeedbackRoutes, Rules!AnonymousFeedbackRoutes, Rules!IntakeRoutes,
           Rules!Middleware, Rules!Served
  <1>3. Rules!EngagementCreation(c) \subseteq Rules!EngagementCreation(d)
    BY <1>1, InServed DEF Rules!EngagementCreation
  <1>4. Rules!AssignmentReads(c) \subseteq Rules!AssignmentReads(d)
    <2>1. Rules!assertMachineScope(c, "read:engagements")
              => Rules!assertMachineScope(d, "read:engagements")
      BY <1>1
    <2>2. QED
      BY <1>1, <2>1 DEF Rules!Served, Rules!AssignmentReads
  <1>5. Rules!FlexiEngagementRoutes(c) \subseteq Rules!FlexiEngagementRoutes(d)
    BY <1>1, InServed DEF Rules!FlexiEngagementRoutes
  <1>6. Rules!FlexiMemberRoutes(c) \subseteq Rules!FlexiMemberRoutes(d)
    BY <1>1, InServed DEF Rules!FlexiMemberRoutes
  <1>7. Rules!EngagementWrites(c) \subseteq Rules!EngagementWrites(d)
    BY <1>1, InServed DEF Rules!EngagementWrites
  <1>8. Rules!EngagementRemoval(c) \subseteq Rules!EngagementRemoval(d)
    BY <1>1, InServed DEF Rules!EngagementRemoval
  <1>9. Rules!Applying(c) \subseteq Rules!Applying(d)
    BY <1>1, InServed DEF Rules!Applying
  <1>10. Rules!ApplicationReads(c, w) \subseteq Rules!ApplicationReads(d, w)
    BY <1>1, InServed DEF Rules!ApplicationReads, Rules!ApplicationFound
  <1>11. Rules!ApplicationWrites(c, w) \subseteq Rules!ApplicationWrites(d, w)
    BY <1>1, InServed DEF Rules!ApplicationWrites, Rules!ApplicationFound
  <1>12. Rules!FeedbackWrites(c) \subseteq Rules!FeedbackWrites(d)
    BY <1>1, InServed DEF Rules!FeedbackWrites
  <1>13. Rules!FeedbackOfAssignment(c) \subseteq Rules!FeedbackOfAssignment(d)
    BY <1>1, InServed DEF Rules!FeedbackOfAssignment
  <1>14. Rules!ExperienceWrites(c, w) \subseteq Rules!ExperienceWrites(d, w)
    BY <1>1, InServed DEF Rules!ExperienceWrites, Rules!OwnsAssignment, Rules!Identifier
  <1>15. Rules!ExperienceReads(c, w) \subseteq Rules!ExperienceReads(d, w)
    BY <1>1, InServed DEF Rules!ExperienceReads, Rules!MayReadExperience, Rules!Identifier
  <1>16. Rules!LeadReads(c) \subseteq Rules!LeadReads(d)
    BY <1>1, InServed DEF Rules!LeadReads
  <1>17. Rules!LeadWrites(c) \subseteq Rules!LeadWrites(d)
    BY <1>1, InServed DEF Rules!LeadWrites
  <1>18. Rules!ApprovedTimesheets(c) \subseteq Rules!ApprovedTimesheets(d)
    BY <1>1, InServed DEF Rules!ApprovedTimesheets
  <1>19. Rules!TimesheetEngagements(c) \subseteq Rules!TimesheetEngagements(d)
    BY <1>1, InServed DEF Rules!TimesheetEngagements
  <1>20. Rules!ManagerRoutes(c, w) \subseteq Rules!ManagerRoutes(d, w)
    BY <1>1, InServed DEF Rules!ManagerRoutes, Rules!MayReadManagers
  <1>21. Rules!WritesEntries(c, w) => Rules!WritesEntries(d, w)
    BY <1>1, RoleGrows DEF Rules!WritesEntries, Rules!OpenTo, Rules!Reviewers
  <1>22. /\ Rules!OpenTo(c, w, Rules!Reviewers) => Rules!OpenTo(d, w, Rules!Reviewers)
         /\ Rules!OpenTo(c, w, {"ADMINISTRATOR"}) => Rules!OpenTo(d, w, {"ADMINISTRATOR"})
         /\ Rules!OpenTo(c, w, Rules!Reviewers \union {"MEMBER"})
               => Rules!OpenTo(d, w, Rules!Reviewers \union {"MEMBER"})
    BY <1>1, RoleGrows DEF Rules!OpenTo, Rules!Reviewers
  <1>23. Rules!TimesheetEntries(c, w) \subseteq Rules!TimesheetEntries(d, w)
    BY <1>21, <1>22, InServed DEF Rules!TimesheetEntries
  <1>24. Rules!TimesheetPayments(c, w) \subseteq Rules!TimesheetPayments(d, w)
    BY <1>21, <1>22, InServed DEF Rules!TimesheetPayments
  <1>25. Rules!TimesheetActions(c, w) \subseteq Rules!TimesheetActions(d, w)
    BY <1>21, <1>22, InServed DEF Rules!TimesheetActions
  <1>26. /\ Rules!OfferRoutes(c, w) \subseteq Rules!Offers
         /\ c.roles = d.roles => Rules!OfferRoutes(c, w) \subseteq Rules!OfferRoutes(d, w)
    BY <1>1, InServed DEF Rules!OfferRoutes, Rules!Offers, Rules!CanRespondToOffer,
                          Rules!Has, Rules!Identifier
  <1>27. QED
    BY <1>2, <1>3, <1>4, <1>5, <1>6, <1>7, <1>8, <1>9, <1>10, <1>11, <1>12, <1>13, <1>14, <1>15, <1>16, <1>17, <1>18, <1>19, <1>20, <1>23, <1>24, <1>25, <1>26, AdmittedBy

-----------------------------------------------------------------------------
(* Access: duties *)

\* The handlers that decide on hours, and what they ask for.
OverHours == {"timesheets.approveEntries", "timesheets.reopenEntries",
              "timesheets.summary", "timesheets.linkPayment",
              "timesheets.byPaymentReference", "timesheets.findEntryAudit"}

LEMMA HoursAreReviewed ==
    ASSUME NEW c, NEW w, NEW x \in Rules!Admitted(c, w) \intersect OverHours
    PROVE  Rules!TimesheetRole(c, w) \in Rules!Reviewers
  <1>1. \/ x \in Rules!TimesheetPayments(c, w)
        \/ x \in Rules!TimesheetActions(c, w) \ {"timesheets.submitEntries",
                                                "timesheets.deleteEntries"}
    BY GroupsAre, AdmittedBy DEF OverHours
  <1>2. x \in Rules!TimesheetPayments(c, w) => Rules!TimesheetRole(c, w) \in Rules!Reviewers
    BY InServed DEF Rules!TimesheetPayments, Rules!OpenTo, Rules!Reviewers
  <1>3. x \in Rules!TimesheetActions(c, w) \ {"timesheets.submitEntries",
                                              "timesheets.deleteEntries"}
           => Rules!TimesheetRole(c, w) \in Rules!Reviewers
    BY InServed DEF Rules!TimesheetActions, Rules!OpenTo, Rules!Reviewers
  <1>4. QED
    BY <1>1, <1>2, <1>3

\* Who may answer an offer, apply or end an assignment.
LEMMA OffersAreAnswered ==
    ASSUME NEW c, NEW w
    PROVE  /\ \A x \in Rules!Admitted(c, w) \intersect Rules!Offers : Rules!CanRespondToOffer(c, w)
           /\ "applications.create" \in Rules!Admitted(c, w) => c.kind # "machine"
           /\ "engagements.updateAssignmentStatus" \in Rules!Admitted(c, w)
                 => Rules!assertAdminOrPm(c)
  <1> DEFINE Named == Rules!Offers \union {"applications.create",
                                           "engagements.updateAssignmentStatus"}
  <1>1. ASSUME NEW x \in Rules!Admitted(c, w) \intersect Named
        PROVE  \/ x \in Rules!EngagementWrites(c)
               \/ x \in Rules!OfferRoutes(c, w)
               \/ x \in Rules!Applying(c)
    BY GroupsAre, AdmittedBy DEF Rules!Offers
  <1>2. ASSUME NEW x \in Rules!OfferRoutes(c, w)
        PROVE  x \in Rules!Offers /\ Rules!CanRespondToOffer(c, w)
    BY DEF Rules!Served, Rules!OfferRoutes, Rules!Offers
  <1>3. ASSUME NEW x \in Rules!Applying(c)
        PROVE  x = "applications.create" /\ c.kind # "machine"
    BY DEF Rules!Served, Rules!Applying
  <1>4. ASSUME NEW x \in Rules!EngagementWrites(c)
        PROVE  x \notin Rules!Offers /\ x # "applications.create" /\ Rules!assertAdminOrPm(c)
    BY DEF Rules!Served, Rules!EngagementWrites, Rules!Offers
  <1>5. "applications.create" \notin Rules!Offers
        /\ "engagements.updateAssignmentStatus" \notin Rules!Offers
    BY DEF Rules!Offers
  <1>6. QED
    BY <1>1, <1>2, <1>3, <1>4, <1>5

\* A machine without a scope.
LEMMA ScopelessIsPublic ==
    ASSUME NEW c, NEW w, c.kind = "machine", c.scopes = {}, c.roles = {}, c.userId = None
    PROVE  Rules!Admitted(c, w) \subseteq Rules!Public
  <1>1. /\ ~Rules!Person(c) /\ ~Rules!isTimesheetAdmin(c) /\ ~Rules!isTimesheetTm(c)
        /\ \A required : Rules!PermissionsGuard(c, required) => required = {}
        /\ \A scope : ~Rules!assertMachineScope(c, scope)
    BY DEF Rules!Person, Rules!isTimesheetAdmin, Rules!isTimesheetTm,
           Rules!PermissionsGuard, Rules!Has, Rules!assertMachineScope
  <1>2. Rules!TimesheetRole(c, w) = None
    BY <1>1 DEF Rules!TimesheetRole
  <1>3. ~\E R \in SUBSET {"MEMBER", "ADMINISTRATOR", "MANAGER", "TM"} : Rules!OpenTo(c, w, R)
    BY <1>2, NoneIsNoAnswer DEF Rules!OpenTo
  <1>4. /\ Rules!OpenFeedbackRoutes(c) \subseteq Rules!Public
        /\ Rules!AnonymousFeedbackRoutes(c) \subseteq Rules!Public
        /\ Rules!IntakeRoutes(c) \subseteq Rules!Public
    BY InServed DEF Rules!OpenFeedbackRoutes, Rules!AnonymousFeedbackRoutes,
                    Rules!IntakeRoutes, Rules!Public
  <1>5. /\ Rules!EngagementCreation(c) = {} /\ Rules!AssignmentReads(c) = {}
        /\ Rules!FlexiEngagementRoutes(c) = {} /\ Rules!FlexiMemberRoutes(c) = {}
        /\ Rules!EngagementWrites(c) = {} /\ Rules!OfferRoutes(c, w) = {}
        /\ Rules!EngagementRemoval(c) = {} /\ Rules!Applying(c) = {}
    BY <1>1 DEF Rules!Served, Rules!EngagementCreation, Rules!AssignmentReads,
       Rules!FlexiEngagementRoutes, Rules!FlexiMemberRoutes, Rules!EngagementWrites,
       Rules!OfferRoutes, Rules!EngagementRemoval, Rules!Applying, Rules!WriteOrManage,
       Rules!CanRespondToOffer
  <1>6. /\ Rules!ApplicationReads(c, w) = {} /\ Rules!ApplicationWrites(c, w) = {}
        /\ Rules!FeedbackWrites(c) = {} /\ Rules!FeedbackOfAssignment(c) = {}
        /\ Rules!ExperienceWrites(c, w) = {} /\ Rules!ExperienceReads(c, w) = {}
        /\ Rules!LeadReads(c) = {} /\ Rules!LeadWrites(c) = {}
    BY <1>1 DEF Rules!Served, Rules!ApplicationReads, Rules!ApplicationWrites,
       Rules!FeedbackWrites, Rules!FeedbackOfAssignment, Rules!ExperienceWrites,
       Rules!ExperienceReads, Rules!LeadReads, Rules!LeadWrites
  <1>7. /\ Rules!TimesheetEntries(c, w) = {} /\ Rules!TimesheetPayments(c, w) = {}
        /\ Rules!TimesheetActions(c, w) = {}
    BY <1>3 DEF Rules!Served, Rules!TimesheetEntries, Rules!TimesheetPayments,
       Rules!TimesheetActions, Rules!WritesEntries, Rules!Reviewers
  <1>8. /\ Rules!ApprovedTimesheets(c) = {} /\ Rules!TimesheetEngagements(c) = {}
        /\ Rules!ManagerRoutes(c, w) = {}
    BY <1>1 DEF Rules!Served, Rules!ApprovedTimesheets, Rules!TimesheetEngagements,
       Rules!ManagerRoutes, Rules!MayReadManagers, Rules!ManagesManagers
  <1>9. QED
    BY <1>4, <1>5, <1>6, <1>7, <1>8, AdmittedBy

\* No role, scope or grant of authority lets anybody decide on their own hours,
\* whoever they are; machines without a scope are served what is public, and
\* authority over an assignment and the answer to its offer exclude each other.
THEOREM EveryCallersDuties ==
    ASSUME NEW roles, NEW scopes, NEW ids,
           NEW c \in CallerOf(roles, scopes, ids), NEW w
    PROVE  Rules!DutiesAreSeparate(c, w)
  <1> DEFINE now == Rules!Admitted(c, w)
  <1>1. ASSUME Rules!Person(c), c.userId = w.assignee
        PROVE  now \intersect OverHours = {}
    <2>1. Rules!TimesheetRole(c, w) = "MEMBER"
      BY <1>1 DEF Rules!TimesheetRole
    <2>2. QED
      BY <2>1, HoursAreReviewed DEF Rules!Reviewers
  <1>2. "engagements.updateAssignmentStatus" \in now => now \intersect Rules!Offers = {}
    BY OffersAreAnswered DEF Rules!assertAdminOrPm, Rules!CanRespondToOffer
  <1>3. ASSUME c.kind = "machine"
        PROVE  /\ c.scopes = {} => now \subseteq Rules!Public
               /\ now \intersect (Rules!Offers \union {"applications.create"}) = {}
    BY <1>3, OffersAreAnswered, ScopelessIsPublic DEF CallerOf, Rules!CanRespondToOffer
  <1>4. ASSUME NEW scope \in Rules!Scopes
        PROVE  now \subseteq Rules!Admitted([c EXCEPT !.scopes = @ \union {scope}], w)
    BY AdmittedGrows DEF CallerOf
  <1>5. ASSUME c.kind = "human", NEW role \in Rules!PrivilegedUserRoles
        PROVE  now \ Rules!Offers
                   \subseteq Rules!Admitted([c EXCEPT !.roles = @ \union {role}], w)
    BY <1>5, AdmittedGrows DEF CallerOf
  <1>6. QED
    BY <1>1, <1>2, <1>3, <1>4, <1>5 DEF Rules!DutiesAreSeparate, OverHours

\* What a person without a role is served is theirs: public, a list of their own, or
\* of an assignment, an engagement or an application they are tied to.
THEOREM EveryPersonsOwn ==
    ASSUME NEW c, NEW w
    PROVE  Rules!SelfServiceStaysOwn(c, w)
  <1> DEFINE bound ==
          Rules!Public \union Rules!OfAnyone
          \union Rules!Served({"engagements.findAssignmentContext"},
                              "read:engagements" \in c.scopes)
          \union Rules!Served({"applications.findOne"}, c.userId = w.applicant)
          \union Rules!Served(Rules!OfAssignee, c.userId = w.assignee)
          \union Rules!Served(Rules!OfManager, c.userId \in w.managers)
  <1> SUFFICES ASSUME Rules!Person(c)
               PROVE  /\ c.roles = {} => Rules!Admitted(c, w) \subseteq bound
                      /\ Rules!ApplicationListed(c, w)
                            => "applications.findOne" \in Rules!Admitted(c, w)
    BY DEF Rules!SelfServiceStaysOwn
  <1>1. /\ c.kind = "human" /\ c.userId # None /\ Rules!Identifier(c) = c.userId
        /\ \A scope : Rules!assertMachineScope(c, scope)
    BY DEF Rules!Person, Rules!Identifier, Rules!assertMachineScope
  <1>2. ASSUME c.roles = {}
        PROVE  Rules!Admitted(c, w) \subseteq bound
    <2>1. /\ \A roles : ~Rules!Has(c, roles)
          /\ ~Rules!isTimesheetAdmin(c) /\ ~Rules!isTimesheetTm(c)
      BY <1>1, <1>2 DEF Rules!Has, Rules!isTimesheetAdmin, Rules!isTimesheetTm
    <2>2. /\ ~Rules!assertAdminOrPm(c) /\ ~Rules!assertAdminOnly(c)
          /\ ~Rules!assertLeadManager(c) /\ ~Rules!isAdminOrPm(c)
          /\ ~Rules!assertFlexiReadAccess(c) /\ ~Rules!ManagesManagers(c)
      BY <1>1, <2>1 DEF Rules!assertAdminOrPm, Rules!assertAdminOnly, Rules!isAdminOrPm,
         Rules!assertLeadManager, Rules!assertFlexiReadAccess, Rules!ManagesManagers
    <2>3. /\ Rules!EngagementCreation(c) = {} /\ Rules!FlexiEngagementRoutes(c) = {}
          /\ Rules!FlexiMemberRoutes(c) = {} /\ Rules!EngagementWrites(c) = {}
          /\ Rules!EngagementRemoval(c) = {} /\ Rules!FeedbackWrites(c) = {}
          /\ Rules!FeedbackOfAssignment(c) = {} /\ Rules!LeadReads(c) = {}
          /\ Rules!LeadWrites(c) = {} /\ Rules!ApplicationWrites(c, w) = {}
          /\ Rules!ApprovedTimesheets(c) = {}
      BY <2>1, <2>2 DEF Rules!Served, Rules!EngagementCreation,
         Rules!FlexiEngagementRoutes, Rules!FlexiMemberRoutes, Rules!EngagementWrites,
         Rules!EngagementRemoval, Rules!FeedbackWrites, Rules!FeedbackOfAssignment,
         Rules!LeadReads, Rules!LeadWrites, Rules!ApplicationWrites,
         Rules!ApprovedTimesheets
    <2>4. /\ Rules!OpenFeedbackRoutes(c) \subseteq Rules!Public
          /\ Rules!AnonymousFeedbackRoutes(c) \subseteq Rules!Public
          /\ Rules!IntakeRoutes(c) \subseteq Rules!Public
          /\ Rules!Applying(c) \subseteq Rules!OfAnyone
          /\ Rules!TimesheetEngagements(c) \subseteq Rules!OfAnyone
      BY GroupsAre DEF Rules!Public, Rules!OfAnyone
    <2>5. Rules!AssignmentReads(c) \subseteq bound
      <3>1. Rules!PermissionsGuard(c, {"read:engagements"}) => "read:engagements" \in c.scopes
        BY <2>1 DEF Rules!PermissionsGuard
      <3>2. QED
        BY <3>1 DEF Rules!AssignmentReads, Rules!Served, Rules!OfAnyone
    <2>6. Rules!OfferRoutes(c, w) \subseteq bound
      BY <1>1 DEF Rules!OfferRoutes, Rules!CanRespondToOffer, Rules!Served,
                  Rules!OfAssignee, Rules!Offers
    <2>7. Rules!ApplicationReads(c, w) \subseteq bound
      BY <2>2 DEF Rules!ApplicationReads, Rules!ApplicationFound, Rules!Served,
                  Rules!OfAnyone
    <2>8. /\ Rules!ExperienceWrites(c, w) \subseteq bound
          /\ Rules!ExperienceReads(c, w) \subseteq bound
      BY <1>1, <2>2 DEF Rules!ExperienceWrites, Rules!ExperienceReads, Rules!Served,
         Rules!OwnsAssignment, Rules!MayReadExperience, Rules!OfAssignee
    <2>9. /\ Rules!TimesheetRole(c, w) \in {"MEMBER", "MANAGER", None}
          /\ Rules!TimesheetRole(c, w) = "MEMBER" => c.userId = w.assignee
          /\ Rules!TimesheetRole(c, w) = "MANAGER" => c.userId \in w.managers
      BY <2>1, NoneIsNoAnswer DEF Rules!TimesheetRole
    <2>10. /\ Rules!WritesEntries(c, w) => c.userId = w.assignee
           /\ Rules!OpenTo(c, w, Rules!Reviewers) => c.userId \in w.managers
           /\ Rules!OpenTo(c, w, Rules!Reviewers \union {"MEMBER"})
                 => c.userId = w.assignee \/ c.userId \in w.managers
           /\ ~Rules!OpenTo(c, w, {"ADMINISTRATOR"})
      BY <2>9, NoneIsNoAnswer DEF Rules!WritesEntries, Rules!OpenTo, Rules!Reviewers
    <2>11. Rules!TimesheetEntries(c, w) \subseteq bound
      BY <2>10 DEF Rules!TimesheetEntries, Rules!Served, Rules!OfAssignee, Rules!OfManager
    <2>12. Rules!TimesheetPayments(c, w) \subseteq bound
      BY <2>10 DEF Rules!TimesheetPayments, Rules!Served, Rules!OfManager
    <2>13. Rules!TimesheetActions(c, w) \subseteq bound
      BY <2>10 DEF Rules!TimesheetActions, Rules!Served, Rules!OfAssignee, Rules!OfManager
    <2>14. Rules!ManagerRoutes(c, w) \subseteq bound
      BY <2>2 DEF Rules!ManagerRoutes, Rules!MayReadManagers, Rules!Served,
                  Rules!OfAssignee, Rules!OfManager
    <2>15. Rules!Public \subseteq bound /\ Rules!OfAnyone \subseteq bound
      OBVIOUS
    <2> HIDE DEF bound
    <2>16. QED
      BY <2>3, <2>4, <2>5, <2>6, <2>7, <2>8, <2>11, <2>12, <2>13, <2>14, <2>15, AdmittedBy
  <1>3. ASSUME Rules!ApplicationListed(c, w)
        PROVE  "applications.findOne" \in Rules!Admitted(c, w)
    <2>1. Rules!ApplicationFound(c, w)
      BY <1>1, <1>3 DEF Rules!ApplicationListed, Rules!ApplicationFound, Rules!isAdminOrPm,
                        Rules!Has, Rules!PrivilegedUserRoles, Rules!Managers
    <2>2. Rules!PermissionsGuard(c, {})
      BY <1>1 DEF Rules!PermissionsGuard, Rules!Middleware
    <2>3. "applications.findOne" \in Rules!ApplicationReads(c, w)
      BY <1>1, <2>1, <2>2 DEF Rules!ApplicationReads, Rules!Served
    <2>4. QED
      BY <2>3, AdmittedBy
  <1>4. QED
    BY <1>2, <1>3

-----------------------------------------------------------------------------
(* OfferTerms: two codes, one offer *)

\* A payload or a row: fields with values, those of the rate being numbers or absent,
\* the hours even null.
TermsOf(values) ==
    {t \in [Offers!Fields -> values] :
        /\ \A f \in {"ratePerHour", "agreementRate"} : t[f] \in Int \union {None}
        /\ t["standardHoursPerDay"] \in Int \union {None, Null}}

\* Both codes compute the same rate, and it is a number, absent or refused.
LEMMA RatesAgree ==
    ASSUME NEW values, NEW p \in TermsOf(values)
    PROVE  /\ Offers!AssignmentRate(p) = Offers!ApplicationRate(p)
           /\ Offers!AssignmentRate(p) \in Int \union {None, Refused}
  <1> DEFINE rate == p["ratePerHour"]
             hours == p["standardHoursPerDay"]
             day == IF hours = None THEN None ELSE Offers!AsNumber(hours)
             legacy == p["agreementRate"]
             week == IF hours = None THEN None
                     ELSE Offers!AsNumber(hours) * Offers!DaysPerWeek
  <1>1. /\ rate \in Int \union {None} /\ hours \in Int \union {None, Null}
        /\ legacy \in Int \union {None}
    BY DEF TermsOf
  <1>2. /\ day \in Int \union {None} /\ week \in Int \union {None}
        /\ week = None <=> day = None
        /\ day # None => week = day * 5 /\ (week <= 0 <=> day <= 0)
    BY <1>1, NoneIsNoAnswer DEF Offers!AsNumber, Offers!DaysPerWeek
  <1>3. Offers!AssignmentRate(p) =
            CASE (rate = None) # (week = None) -> Refused
              [] rate # None /\ week # None ->
                    IF rate <= 0 \/ week <= 0 THEN Refused ELSE rate * week
              [] rate = None /\ week = None /\ legacy # None ->
                    IF legacy <= 0 THEN Refused ELSE legacy
              [] OTHER -> None
    BY DEF Offers!AssignmentRate
  <1>4. Offers!ApplicationRate(p) =
            CASE (rate = None) # (day = None) -> Refused
              [] rate # None /\ day # None ->
                    IF rate <= 0 \/ day <= 0 THEN Refused ELSE rate * (day * 5)
              [] rate = None /\ day = None /\ legacy # None ->
                    IF legacy <= 0 THEN Refused ELSE legacy
              [] OTHER -> None
    BY DEF Offers!ApplicationRate, Offers!DaysPerWeek
  <1> HIDE DEF rate, hours, day, legacy, week
  <1>5. CASE rate # None /\ day # None
    BY <1>1, <1>2, <1>3, <1>4, <1>5
  <1>6. CASE rate = None /\ day = None
    BY <1>1, <1>2, <1>3, <1>4, <1>6
  <1>7. CASE (rate = None) # (day = None)
    BY <1>1, <1>2, <1>3, <1>4, <1>7
  <1>8. QED
    BY <1>5, <1>6, <1>7

\* The values fields may have, which no refusal is built of.
Values(values) ==
    /\ Int \union {None, Null, Offers!DefaultPaymentCycle} \subseteq values
    /\ Refused \notin [Offers!Fields -> values]
    /\ Refused \notin [terms: [Offers!Fields -> values], mail: BOOLEAN]

\* The payloads as the two codes normalize them: both are refused, or they differ in
\* the payment cycle only.
LEMMA TermsAre ==
    ASSUME NEW values, Values(values), NEW p \in TermsOf(values)
    PROVE  LET one == Offers!EngagementTerms(p)
               other == Offers!ApplicationTerms(p)
           IN  /\ one = Refused <=> other = Refused
               /\ one # Refused =>
                     /\ one \in [Offers!Fields -> values]
                     /\ other \in [Offers!Fields -> values]
                     /\ \A f \in Offers!Fields \ {"paymentCycle"} : one[f] = other[f]
                     /\ other["paymentCycle"] = p["paymentCycle"]
                     /\ one["paymentCycle"] = IF p["paymentCycle"] \in {None, Null}
                                              THEN Offers!DefaultPaymentCycle
                                              ELSE p["paymentCycle"]
  <1> DEFINE rate == Offers!AssignmentRate(p)
             other == [p EXCEPT !["agreementRate"] = rate]
             one == [p EXCEPT !["agreementRate"] = rate,
                              !["paymentCycle"] = IF p["paymentCycle"] \in {None, Null}
                                                  THEN Offers!DefaultPaymentCycle
                                                  ELSE p["paymentCycle"]]
  <1>1. /\ Offers!EngagementTerms(p) = IF rate = Refused THEN Refused ELSE one
        /\ Offers!ApplicationTerms(p) = IF rate = Refused THEN Refused ELSE other
    BY RatesAgree DEF Offers!EngagementTerms, Offers!ApplicationTerms
  <1>2. p \in [Offers!Fields -> values]
    BY DEF TermsOf
  <1>3. rate # Refused => rate \in values
    BY RatesAgree DEF Values
  <1>4. {"paymentCycle", "agreementRate"} \subseteq Offers!Fields
    BY DEF Offers!Fields, Offers!MemberFacing
  <1> HIDE DEF rate
  <1>5. ASSUME rate # Refused
        PROVE  /\ one \in [Offers!Fields -> values]
               /\ other \in [Offers!Fields -> values]
               /\ \A f \in Offers!Fields \ {"paymentCycle"} : one[f] = other[f]
               /\ other["paymentCycle"] = p["paymentCycle"]
               /\ one["paymentCycle"] = IF p["paymentCycle"] \in {None, Null}
                                        THEN Offers!DefaultPaymentCycle
                                        ELSE p["paymentCycle"]
    BY <1>2, <1>3, <1>4, <1>5 DEF Values
  <1> HIDE DEF one, other
  <1>6. rate # Refused => one # Refused /\ other # Refused
    BY <1>5 DEF Values
  <1>7. QED
    BY <1>1, <1>5, <1>6

\* What is given twice is given once.
LEMMA GivenTwice ==
    ASSUME NEW t, NEW n
    PROVE  Offers!Given(Offers!Given(t, n), n) = Offers!Given(t, n)
  BY DEF Offers!Given

LEMMA GivenType ==
    ASSUME NEW values, Values(values), NEW t \in [Offers!Fields -> values],
           NEW n \in [Offers!Fields -> values]
    PROVE  Offers!Given(t, n) \in [Offers!Fields -> values]
  BY DEF Values, Offers!Given, Offers!Stored

\* To the engagement form a payment cycle that is null is one that is absent.
LEMMA NullIsAbsent ==
    ASSUME NEW values, NEW p \in TermsOf(values), p["paymentCycle"] = Null
    PROVE  Offers!EngagementTerms(p)
               = Offers!EngagementTerms([p EXCEPT !["paymentCycle"] = None])
  <1> DEFINE without == [p EXCEPT !["paymentCycle"] = None]
  <1>1. p \in [Offers!Fields -> values] /\ "paymentCycle" \in Offers!Fields
    BY DEF TermsOf, Offers!Fields, Offers!MemberFacing
  <1>2. Offers!AssignmentRate(without) = Offers!AssignmentRate(p)
    <2>1. /\ without["ratePerHour"] = p["ratePerHour"]
          /\ without["standardHoursPerDay"] = p["standardHoursPerDay"]
          /\ without["agreementRate"] = p["agreementRate"]
      BY <1>1 DEF Offers!Fields, Offers!MemberFacing
    <2> HIDE DEF without
    <2>2. QED
      BY <2>1 DEF Offers!AssignmentRate
  <1> DEFINE rate == Offers!AssignmentRate(p)
             cycle(q) == IF q["paymentCycle"] \in {None, Null}
                         THEN Offers!DefaultPaymentCycle ELSE q["paymentCycle"]
             set(q) == [q EXCEPT !["agreementRate"] = rate, !["paymentCycle"] = cycle(q)]
  <1>3. /\ Offers!EngagementTerms(p) = IF rate = Refused THEN Refused ELSE set(p)
        /\ Offers!EngagementTerms(without) = IF rate = Refused THEN Refused ELSE set(without)
    BY <1>2 DEF Offers!EngagementTerms
  <1> HIDE DEF rate
  <1>4. set(without) = set(p)
    BY <1>1
  <1>5. QED
    BY <1>3, <1>4

\* The two paths make the same offer of the same payload, whatever the terms; on a
\* payment cycle that is null the form makes its own offer and the approval fails.
THEOREM EveryOfferAgrees ==
    ASSUME NEW values, Values(values),
           NEW existing \in TermsOf(values), NEW p \in TermsOf(values)
    PROVE  Offers!OfferPathsAgree(existing, p)
  <1> DEFINE e == Offers!EngagementTerms(p)
             a == Offers!ApplicationTerms(p)
             one == Offers!EditedByEngagement(existing, existing, p)
             other == Offers!EditedByApplication(existing, p)
  <1>1. /\ e = Refused <=> a = Refused
        /\ e # Refused =>
              /\ e \in [Offers!Fields -> values]
              /\ a \in [Offers!Fields -> values]
              /\ \A f \in Offers!Fields \ {"paymentCycle"} : e[f] = a[f]
              /\ a["paymentCycle"] = p["paymentCycle"]
              /\ e["paymentCycle"] = IF p["paymentCycle"] \in {None, Null}
                                     THEN Offers!DefaultPaymentCycle
                                     ELSE p["paymentCycle"]
    BY TermsAre
  <1>2. existing \in [Offers!Fields -> values]
    BY DEF TermsOf
  <1>3. CASE e = Refused /\ p["paymentCycle"] # Null
    BY <1>1, <1>3 DEF Offers!OfferPathsAgree, Offers!CreatedByEngagement,
       Offers!CreatedByApplication, Offers!EditedByEngagement, Offers!EditedByApplication
  <1>null. CASE p["paymentCycle"] = Null
    <2>1. e = Offers!EngagementTerms([p EXCEPT !["paymentCycle"] = None])
      BY <1>null, NullIsAbsent
    <2>2. a = Refused \/ Offers!CannotBeStored(a)
      BY <1>1, <1>null DEF Offers!CannotBeStored
    <2>3. Offers!CreatedByApplication(p) = Refused /\ other = Refused
      BY <2>2 DEF Offers!CreatedByApplication, Offers!EditedByApplication
    <2> HIDE DEF e, a, other, one
    <2>4. /\ Offers!CreatedByEngagement(p)
                = Offers!CreatedByEngagement([p EXCEPT !["paymentCycle"] = None])
          /\ one = Offers!EditedByEngagement(existing, existing,
                                             [p EXCEPT !["paymentCycle"] = None])
      BY <2>1 DEF e, one, Offers!CreatedByEngagement, Offers!EditedByEngagement
    <2>5. QED
      BY <1>null, <2>3, <2>4 DEF one, other, Offers!OfferPathsAgree
  <1>4. CASE e # Refused /\ p["paymentCycle"] # Null
    <2>1. /\ one = [terms |-> Offers!Given(existing, e),
                    mail |-> Offers!OfferDetailsChanged(existing, Offers!Given(existing, e))]
          /\ other = [terms |-> Offers!Given(existing, a),
                      mail |-> Offers!TermsDiffer(existing, a)]
      BY <1>1, <1>4 DEF Offers!EditedByEngagement, Offers!EditedByApplication,
                        Offers!CannotBeStored
    <2>2. Offers!OfferDetailsChanged(existing, Offers!Given(existing, e)) \in BOOLEAN
          /\ Offers!TermsDiffer(existing, a) \in BOOLEAN
      BY DEF Offers!OfferDetailsChanged, Offers!TermsDiffer
    <2>3. /\ Offers!Given(existing, e) \in [Offers!Fields -> values]
          /\ Offers!Given(existing, a) \in [Offers!Fields -> values]
      BY <1>1, <1>2, <1>4, GivenType
    <2> HIDE DEF e, a, one, other
    <2>4. one # Refused /\ other # Refused
      BY <2>1, <2>2, <2>3 DEF Values
    <2>5. \A f \in Offers!Fields :
              one.terms[f] # other.terms[f] => f = "paymentCycle" /\ p[f] = None
      BY <1>1, <1>4, <2>1 DEF Offers!Given
    <2>6. Offers!Given(Offers!Blank, e) = Offers!Given(Offers!Blank, a)
      BY <1>1, <1>4, NoneIsNoAnswer DEF Offers!Given, Offers!Stored, Offers!Blank, Offers!DefaultPaymentCycle
    <2>7. Offers!CreatedByEngagement(p) = Offers!CreatedByApplication(p)
      BY <1>1, <1>4, <2>6 DEF e, a, Offers!CreatedByEngagement, Offers!CreatedByApplication,
                              Offers!CannotBeStored, Offers!Offered
    <2>8. QED
      BY <1>4, <2>4, <2>5, <2>7 DEF one, other, Offers!OfferPathsAgree
  <1>5. QED
    BY <1>3, <1>4, <1>null

\* A change of what a member is shown is mailed once, whatever is stored and sent.
THEOREM EveryChangeIsMailed ==
    ASSUME NEW existing, NEW p
    PROVE  Offers!ChangesAreMailedOnce(existing, p)
  <1> DEFINE e == Offers!EngagementTerms(p)
             a == Offers!ApplicationTerms(p)
             one == Offers!EditedByEngagement(existing, existing, p)
             other == Offers!EditedByApplication(existing, p)
             told(before, edit) == \E f \in Offers!MemberFacing : before[f] # edit.terms[f]
  <1>1. ASSUME one # Refused
        PROVE  /\ one.mail <=> told(existing, one)
               /\ Offers!EditedByEngagement(one.terms, one.terms, p)
                     = [one EXCEPT !.mail = FALSE]
    <2>1. /\ e # Refused
          /\ one = [terms |-> Offers!Given(existing, e),
                    mail |-> Offers!OfferDetailsChanged(existing, Offers!Given(existing, e))]
      BY <1>1 DEF Offers!EditedByEngagement
    <2>2. Offers!EditedByEngagement(one.terms, one.terms, p)
              = [terms |-> Offers!Given(one.terms, e),
                 mail |-> Offers!OfferDetailsChanged(one.terms, Offers!Given(one.terms, e))]
      BY <2>1 DEF Offers!EditedByEngagement
    <2> HIDE DEF one, e
    <2>3. Offers!Given(one.terms, e) = one.terms
      BY <2>1, GivenTwice
    <2>4. Offers!OfferDetailsChanged(one.terms, one.terms) = FALSE
      BY DEF Offers!OfferDetailsChanged
    <2>5. one.mail <=> told(existing, one)
      BY <2>1 DEF Offers!OfferDetailsChanged
    <2>6. QED
      BY <2>1, <2>2, <2>3, <2>4, <2>5
  <1>2. ASSUME other # Refused
        PROVE  /\ told(existing, other) => other.mail
               /\ Offers!EditedByApplication(other.terms, p) = [other EXCEPT !.mail = FALSE]
    <2>1. /\ a # Refused /\ ~Offers!CannotBeStored(a)
          /\ other = [terms |-> Offers!Given(existing, a),
                      mail |-> Offers!TermsDiffer(existing, a)]
      BY <1>2 DEF Offers!EditedByApplication
    <2>2. Offers!EditedByApplication(other.terms, p)
              = [terms |-> Offers!Given(other.terms, a),
                 mail |-> Offers!TermsDiffer(other.terms, a)]
      BY <2>1 DEF Offers!EditedByApplication
    <2> HIDE DEF other, a
    <2>3. Offers!Given(other.terms, a) = other.terms
      BY <2>1, GivenTwice
    <2>4. Offers!TermsDiffer(other.terms, a) = FALSE
      BY <2>1 DEF Offers!TermsDiffer, Offers!Given
    <2>5. told(existing, other) => other.mail
      BY <2>1 DEF Offers!TermsDiffer, Offers!Given, Offers!Fields, Offers!MemberFacing
    <2>6. QED
      BY <2>1, <2>2, <2>3, <2>4, <2>5
  <1>3. QED
    BY <1>1, <1>2 DEF Offers!ChangesAreMailedOnce

-----------------------------------------------------------------------------
(* EngagementReads: what a row may show *)

Kinds == {"human", "machine", "anonymous"}

\* A query: every facet a value or absent.
QueryOf(values) ==
    [status: values, includePrivate: BOOLEAN, appliedByMe: BOOLEAN, countries: values,
     timeZones: values, projectId: values, projectIds: values, skills: values,
     search: values, role: values, excludeTestProjects: BOOLEAN]

\* An id is of one engagement: the primary key.
KeysAreUnique(data) ==
    \A e, f \in data.engagements : e.id = f.id => e = f

\* The caller may see what a row shows of the engagement e.
Fits(data, caller, e, row) ==
    LET assigned == Reads!AssignmentsOf(data, e, Reads!Identifier(caller)) # {} IN
    /\ e \in data.engagements /\ row.id = e.id
    /\ row.isPrivate => assigned \/ Reads!Applied(data, e, Reads!Identifier(caller))
    /\ row.internal \/ row.email => assigned
    /\ row.assignments # None => \A a \in row.assignments : a.memberId = Reads!Identifier(caller)

LEMMA FittingRows ==
    ASSUME NEW data, NEW caller, NEW rows,
           \A row \in rows : \E e \in data.engagements : Fits(data, caller, e, row)
    PROVE  Reads!ShowsOnly(data, caller, rows)
  <1> DEFINE user == Reads!Identifier(caller)
  <1> SUFFICES ASSUME NEW row \in rows
               PROVE  LET e == CHOOSE f \in data.engagements : f.id = row.id
                          assigned == Reads!AssignmentsOf(data, e, user) # {}
                      IN  /\ row.isPrivate => assigned \/ Reads!Applied(data, e, user)
                          /\ row.internal \/ row.email => assigned
                          /\ row.assignments # None =>
                                \A a \in row.assignments : a.memberId = user
    BY DEF Reads!ShowsOnly
  <1>1. PICK e \in data.engagements : Fits(data, caller, e, row)
    OBVIOUS
  <1> DEFINE f == CHOOSE g \in data.engagements : g.id = row.id
  <1>2. f.id = e.id
    BY <1>1 DEF Fits
  <1> HIDE DEF f
  <1>3. /\ Reads!AssignmentsOf(data, f, user) = Reads!AssignmentsOf(data, e, user)
        /\ Reads!Applied(data, f, user) <=> Reads!Applied(data, e, user)
    BY <1>2 DEF Reads!AssignmentsOf, Reads!Applied
  <1>4. QED
    BY <1>1, <1>3 DEF Fits, f

\* A public row of a public engagement shows nothing to hide.
LEMMA PublicFits ==
    ASSUME NEW data, NEW caller, NEW e \in data.engagements, ~e.isPrivate
    PROVE  Fits(data, caller, e, Reads!PublicRow(e))
  BY DEF Fits, Reads!PublicRow, Reads!Row

\* A row of a list of the caller's own engagements.
IsOwn(data, e, caller, row) ==
    LET user == Reads!Identifier(caller) IN
    /\ row = Reads!Row(e, Reads!AssignmentsOf(data, e, user), FALSE, FALSE)
    /\ Reads!Applied(data, e, user) \/ Reads!AssignmentsOf(data, e, user) # {}

\* It shows what the caller may see, and would if the engagement were private.
LEMMA OwnFits ==
    ASSUME NEW data, NEW caller, NEW e \in data.engagements, NEW row,
           IsOwn(data, e, caller, row)
    PROVE  /\ Fits(data, caller, e, row)
           /\ Fits(data, caller, e, [row EXCEPT !.isPrivate = TRUE])
  BY DEF IsOwn, Fits, Reads!Row, Reads!AssignmentsOf

\* What the list of a caller without a privilege holds, if it is answered at all: the
\* public rows of public engagements, or the caller's own.
LEMMA ListHolds ==
    ASSUME NEW data, NEW caller, caller.kind \in Kinds, ~Reads!MaySeePrivate(caller),
           NEW q, q.appliedByMe \in BOOLEAN, q.includePrivate \in BOOLEAN,
           NEW row \in Reads!List(data, caller, q).rows
    PROVE  \E e \in data.engagements :
               /\ row.status = e.status
               /\ \/ /\ row = Reads!PublicRow(e)
                     /\ ~e.isPrivate /\ e.status # "ON_HOLD"
                  \/ IsOwn(data, e, caller, row)
  <1>1. /\ q.appliedByMe => Reads!AppliedByMeError(caller) = None
        /\ row \in {Reads!ListRow(data, e, caller, q) :
                       e \in {f \in data.engagements : Reads!Matches(data, f, caller, q)}}
    BY DEF Reads!List, Reads!Refusal, Reads!Answer
  <1>2. PICK e \in data.engagements :
            Reads!Matches(data, e, caller, q) /\ row = Reads!ListRow(data, e, caller, q)
    BY <1>1
  <1>3. CASE Reads!MemberScoped(caller, q)
    <2>1. /\ q.appliedByMe /\ caller.userId # None
          /\ Reads!AppliedBy(caller, q) = caller.userId
      BY <1>3 DEF Reads!MemberScoped, Reads!AppliedBy
    <2>2. caller.kind = "human"
      BY <1>1, <2>1, NoneIsNoAnswer DEF Reads!AppliedByMeError, Kinds
    <2>3. Reads!Identifier(caller) = caller.userId
      BY <2>1, <2>2 DEF Reads!Identifier
    <2>4. row = Reads!Row(e, Reads!AssignmentsOf(data, e, Reads!Identifier(caller)), FALSE, FALSE)
      BY <1>2, <1>3, <2>1, <2>3 DEF Reads!ListRow
    <2>5. \/ Reads!Applied(data, e, Reads!Identifier(caller))
          \/ Reads!AssignmentsOf(data, e, Reads!Identifier(caller)) # {}
      BY <1>2, <2>1, <2>3 DEF Reads!Matches, Reads!IsMine
    <2>6. row.status = e.status
      BY <2>4 DEF Reads!Row
    <2>7. QED
      BY <2>4, <2>5, <2>6 DEF IsOwn
  <1>4. CASE ~Reads!MemberScoped(caller, q)
    <2>1. ~Reads!ListsPrivate(caller, q)
      BY <1>4 DEF Reads!ListsPrivate
    <2>2. row = Reads!PublicRow(e) /\ ~e.isPrivate /\ e.status # "ON_HOLD"
      BY <1>2, <1>4, <2>1 DEF Reads!ListRow, Reads!Matches
    <2>3. row.status = e.status
      BY <2>2 DEF Reads!PublicRow, Reads!Row
    <2>4. QED
      BY <2>2, <2>3
  <1>5. QED
    BY <1>3, <1>4

\* Nothing of a private engagement or of others' assignments reaches a caller without
\* a privilege, whatever the database, the query, and a change between two readings.
THEOREM EveryAnswerIsTight ==
    ASSUME NEW data, KeysAreUnique(data), NEW later, NEW caller, caller.kind \in Kinds,
           NEW q, q.appliedByMe \in BOOLEAN, q.includePrivate \in BOOLEAN
    PROVE  Reads!NothingLeaks(data, later, caller, q)
  <1> DEFINE user == Reads!Identifier(caller)
             list == Reads!List(data, caller, q)
             mine == Reads!MyAssignments(data, caller, q)
  <1> SUFFICES ASSUME ~Reads!MaySeePrivate(caller)
               PROVE  /\ Reads!ShowsOnly(data, caller, list.rows)
                      /\ Reads!ShowsOnly(data, caller, mine.rows)
                      /\ Reads!ShowsOnly(data, caller, Reads!ActiveList(data).rows)
                      /\ \A row \in list.rows : row.status = "ON_HOLD" =>
                            Reads!ShowsOnly(data, caller, {[row EXCEPT !.isPrivate = TRUE]})
                      /\ \A e \in data.engagements :
                            LET one == Reads!Detail(data, later, caller, e.id) IN
                            \/ Reads!ShowsOnly(data, caller, one.rows)
                            \/ Reads!ShowsOnly(later, caller, one.rows)
    BY DEF Reads!NothingLeaks
  <1>2. Reads!ShowsOnly(data, caller, list.rows)
    <2>1. ASSUME NEW row \in list.rows
          PROVE  \E e \in data.engagements : Fits(data, caller, e, row)
      <3>1. PICK e \in data.engagements :
                \/ row = Reads!PublicRow(e) /\ ~e.isPrivate
                \/ IsOwn(data, e, caller, row)
        BY <2>1, ListHolds
      <3>2. CASE IsOwn(data, e, caller, row)
        BY <3>2, OwnFits
      <3>3. CASE row = Reads!PublicRow(e) /\ ~e.isPrivate
        BY <3>3, PublicFits
      <3>4. QED
        BY <3>1, <3>2, <3>3
    <2>2. QED
      BY <2>1, FittingRows
  <1>3. Reads!ShowsOnly(data, caller, mine.rows)
    <2>1. ASSUME NEW row \in mine.rows
          PROVE  \E e \in data.engagements : Fits(data, caller, e, row)
      <3> DEFINE held(e) == {a \in Reads!AssignmentsOf(data, e, user) :
                                a.status \in Reads!MyStatuses}
      <3>1. PICK e \in data.engagements :
                held(e) # {} /\ row = Reads!Row(e, held(e), TRUE, TRUE)
        BY DEF Reads!MyAssignments, Reads!Refusal, Reads!Answer
      <3>2. QED
        BY <3>1 DEF Fits, Reads!Row, Reads!AssignmentsOf
    <2>2. QED
      BY <2>1, FittingRows
  <1>4. Reads!ShowsOnly(data, caller, Reads!ActiveList(data).rows)
    <2>1. ASSUME NEW row \in Reads!ActiveList(data).rows
          PROVE  \E e \in data.engagements : Fits(data, caller, e, row)
      BY PublicFits DEF Reads!ActiveList, Reads!Answer
    <2>2. QED
      BY <2>1, FittingRows
  <1>5. ASSUME NEW row \in list.rows, row.status = "ON_HOLD"
        PROVE  Reads!ShowsOnly(data, caller, {[row EXCEPT !.isPrivate = TRUE]})
    <2>1. PICK e \in data.engagements :
              /\ row.status = e.status
              /\ \/ row = Reads!PublicRow(e) /\ ~e.isPrivate /\ e.status # "ON_HOLD"
                 \/ IsOwn(data, e, caller, row)
      <3> HIDE DEF list
      <3>1. row \in Reads!List(data, caller, q).rows
        BY <1>5 DEF list
      <3>2. QED
        BY <3>1, ListHolds
    <2>2. IsOwn(data, e, caller, row)
      BY <1>5, <2>1
    <2>3. Fits(data, caller, e, [row EXCEPT !.isPrivate = TRUE])
      BY <2>2, OwnFits
    <2>4. QED
      BY <2>3, FittingRows
  <1>6. ASSUME NEW e \in data.engagements
        PROVE  LET one == Reads!Detail(data, later, caller, e.id) IN
               \/ Reads!ShowsOnly(data, caller, one.rows)
               \/ Reads!ShowsOnly(later, caller, one.rows)
    <2> DEFINE one == Reads!Detail(data, later, caller, e.id)
               first == {f \in data.engagements : f.id = e.id}
               second == {f \in later.engagements : f.id = e.id}
               held(f) == {a \in Reads!AssignmentsOf(later, f, user) :
                              a.status \in Reads!ActiveStatuses}
    <2>1. first = {e}
      BY DEF KeysAreUnique
    <2>2. CASE ~e.isPrivate
      <3>1. one = Reads!Answer({Reads!PublicRow(f) : f \in first})
        BY <2>1, <2>2 DEF Reads!Detail
      <3>2. \A row \in one.rows : row = Reads!PublicRow(e)
        BY <3>1, <2>1 DEF Reads!Answer
      <3>3. Reads!ShowsOnly(data, caller, one.rows)
        BY <3>2, <2>2, PublicFits, FittingRows
      <3>4. QED
        BY <3>3
    <2>3. CASE e.isPrivate
      <3>1. one = CASE caller.kind = "anonymous" -> Reads!Refusal(401)
                    [] caller.kind # "anonymous" /\ second = {} -> Reads!Refusal(404)
                    [] \E f \in second : caller.kind # "anonymous" /\ held(f) = {} ->
                          Reads!Refusal(401)
                    [] OTHER -> Reads!Answer({Reads!Row(f, held(f), TRUE, TRUE) : f \in second})
        BY <2>1, <2>3 DEF Reads!Detail
      <3>2. ASSUME NEW row \in one.rows
            PROVE  \E f \in later.engagements : Fits(later, caller, f, row)
        <4> HIDE DEF one, second, held
        <4>1. caller.kind # "anonymous"
          BY <3>1, <3>2 DEF Reads!Refusal
        <4>2. second # {}
          BY <3>1, <3>2, <4>1 DEF Reads!Refusal
        <4>3. \A f \in second : held(f) # {}
          BY <3>1, <3>2, <4>1 DEF Reads!Refusal
        <4>4. one = Reads!Answer({Reads!Row(f, held(f), TRUE, TRUE) : f \in second})
          BY <3>1, <4>1, <4>2, <4>3
        <4>5. PICK f \in second : held(f) # {} /\ row = Reads!Row(f, held(f), TRUE, TRUE)
          BY <3>2, <4>3, <4>4 DEF Reads!Answer
        <4> USE DEF second, held
        <4>6. QED
          BY <4>5 DEF Fits, Reads!Row, Reads!AssignmentsOf
      <3>3. Reads!ShowsOnly(later, caller, one.rows)
        BY <3>2, FittingRows
      <3>4. QED
        BY <3>3
    <2>4. QED
      BY <2>2, <2>3
  <1>7. QED
    BY <1>2, <1>3, <1>4, <1>5, <1>6

-----------------------------------------------------------------------------
(* EngagementReads: the lists agree *)

Ids(answer) == {row.id : row \in answer.rows}

\* Every row of a list is of a match, and every match is in a list that is answered.
LEMMA ListedIds ==
    ASSUME NEW data, NEW caller, NEW q
    PROVE  LET list == Reads!List(data, caller, q)
               matches == {e \in data.engagements : Reads!Matches(data, e, caller, q)}
               refused == \/ q.appliedByMe /\ Reads!AppliedByMeError(caller) # None
                          \/ /\ q.status = "ON_HOLD" /\ ~Reads!MemberScoped(caller, q)
                             /\ ~Reads!MaySeePrivate(caller)
           IN  /\ refused => Ids(list) = {}
               /\ ~refused => Ids(list) = {e.id : e \in matches}
  <1> DEFINE matches == {e \in data.engagements : Reads!Matches(data, e, caller, q)}
             unknown == q.appliedByMe /\ Reads!AppliedByMeError(caller) # None
             held == /\ q.status = "ON_HOLD" /\ ~Reads!MemberScoped(caller, q)
                     /\ ~Reads!MaySeePrivate(caller)
             list == Reads!List(data, caller, q)
  <1>1. \A e : Reads!ListRow(data, e, caller, q).id = e.id
    BY DEF Reads!ListRow, Reads!Row, Reads!PublicRow
  <1>2. list = CASE unknown -> Reads!Refusal(Reads!AppliedByMeError(caller))
                 [] ~unknown /\ held -> Reads!Refusal(401)
                 [] OTHER ->
                      Reads!Answer({Reads!ListRow(data, e, caller, q) : e \in matches})
    BY DEF Reads!List
  <1> HIDE DEF matches, unknown, held, list
  <1>3. unknown \/ held => Ids(list) = {}
    BY <1>2 DEF Ids, Reads!Refusal
  <1>4. ASSUME ~(unknown \/ held)
        PROVE  Ids(list) = {e.id : e \in matches}
    <2>1. list.rows = {Reads!ListRow(data, e, caller, q) : e \in matches}
      BY <1>2, <1>4 DEF Reads!Answer
    <2>2. QED
      BY <1>1, <2>1 DEF Ids
  <1>5. QED
    BY <1>3, <1>4 DEF matches, unknown, held, list

\* A query that asks for the same kind of list and matches more lists more.
LEMMA WiderListsMore ==
    ASSUME NEW data, NEW caller, NEW q, NEW w,
           w.appliedByMe = q.appliedByMe, w.includePrivate = q.includePrivate,
           w.status = q.status,
           \A e \in data.engagements :
               Reads!Matches(data, e, caller, q) => Reads!Matches(data, e, caller, w)
    PROVE  Ids(Reads!List(data, caller, q)) \subseteq Ids(Reads!List(data, caller, w))
  <1> DEFINE refused(r) == \/ r.appliedByMe /\ Reads!AppliedByMeError(caller) # None
                           \/ /\ r.status = "ON_HOLD" /\ ~Reads!MemberScoped(caller, r)
                              /\ ~Reads!MaySeePrivate(caller)
             matches(r) == {e \in data.engagements : Reads!Matches(data, e, caller, r)}
  <1>1. refused(q) <=> refused(w)
    BY DEF Reads!MemberScoped, Reads!AppliedBy
  <1>2. matches(q) \subseteq matches(w)
    OBVIOUS
  <1>3. /\ refused(q) => Ids(Reads!List(data, caller, q)) = {}
        /\ ~refused(q) => Ids(Reads!List(data, caller, q)) = {e.id : e \in matches(q)}
    BY ListedIds
  <1>4. ~refused(w) => Ids(Reads!List(data, caller, w)) = {e.id : e \in matches(w)}
    BY ListedIds
  <1> HIDE DEF refused, matches
  <1>5. QED
    BY <1>1, <1>2, <1>3, <1>4

\* A query without the facet of role, skills, search, tests, location or project.
WithoutFacet(q) ==
    {[q EXCEPT !.role = None], [q EXCEPT !.skills = None], [q EXCEPT !.search = None],
     [q EXCEPT !.excludeTestProjects = FALSE],
     [q EXCEPT !.countries = None, !.timeZones = None],
     [q EXCEPT !.projectId = None, !.projectIds = None]}

LEMMA FacetsOnlyNarrow ==
    ASSUME NEW values, NEW q \in QueryOf(values), NEW w \in WithoutFacet(q),
           NEW data, NEW caller
    PROVE  Ids(Reads!List(data, caller, q)) \subseteq Ids(Reads!List(data, caller, w))
  <1>1. /\ w.appliedByMe = q.appliedByMe /\ w.includePrivate = q.includePrivate
        /\ w.status = q.status
        /\ w.role \in {None, q.role} /\ w.skills \in {None, q.skills}
        /\ w.search \in {None, q.search}
        /\ w.excludeTestProjects \in {FALSE, q.excludeTestProjects}
        /\ \/ w.countries = None /\ w.timeZones = None
           \/ w.countries = q.countries /\ w.timeZones = q.timeZones
        /\ \/ w.projectId = None /\ w.projectIds = None
           \/ w.projectId = q.projectId /\ w.projectIds = q.projectIds
    BY DEF WithoutFacet, QueryOf
  <1>2. ASSUME NEW e \in data.engagements, Reads!Matches(data, e, caller, q)
        PROVE  Reads!Matches(data, e, caller, w)
    <2>1. /\ Reads!ListsPrivate(caller, w) <=> Reads!ListsPrivate(caller, q)
          /\ Reads!IsMine(data, e, caller, w) <=> Reads!IsMine(data, e, caller, q)
      BY <1>1 DEF Reads!ListsPrivate, Reads!MemberScoped, Reads!AppliedBy, Reads!IsMine
    <2>2. Reads!InLocation(e, q) => Reads!InLocation(e, w)
      BY <1>1 DEF Reads!InLocation
    <2>3. Reads!InProject(e, q) => Reads!InProject(e, w)
      BY <1>1 DEF Reads!InProject
    <2>4. /\ Reads!HasSkill(e, q) => Reads!HasSkill(e, w)
          /\ Reads!IsSearched(e, q) => Reads!IsSearched(e, w)
      BY <1>1 DEF Reads!HasSkill, Reads!IsSearched
    <2>5. QED
      BY <1>1, <1>2, <2>1, <2>2, <2>3, <2>4 DEF Reads!Matches
  <1>3. QED
    BY <1>1, <1>2, WiderListsMore

\* What a list without private engagements shows can be opened.
LEMMA ListedIsOpened ==
    ASSUME NEW data, NEW caller, NEW q, ~Reads!ListsPrivate(caller, q),
           NEW id \in Ids(Reads!List(data, caller, q))
    PROVE  Reads!Detail(data, data, caller, id).status = 200
  <1> DEFINE first == {e \in data.engagements : e.id = id}
             open(e) == ~e.isPrivate /\ ~Reads!MaySeePrivate(caller)
             one == Reads!Detail(data, data, caller, id)
  <1>1. id \in {e.id : e \in {f \in data.engagements : Reads!Matches(data, f, caller, q)}}
    BY ListedIds
  <1>2. PICK e \in data.engagements : e.id = id /\ Reads!Matches(data, e, caller, q)
    BY <1>1
  <1>3. e \in first /\ ~e.isPrivate
    BY <1>2 DEF Reads!Matches
  <1>4. CASE Reads!MaySeePrivate(caller)
    <2>1. one = Reads!Answer({Reads!Row(f, {a \in data.assignments : a.engagement = id},
                                        TRUE, TRUE) : f \in first})
      BY <1>3, <1>4 DEF Reads!Detail
    <2>2. QED
      BY <2>1 DEF Reads!Answer
  <1>5. CASE ~Reads!MaySeePrivate(caller)
    <2>1. one = Reads!Answer({Reads!PublicRow(f) : f \in first})
      BY <1>3, <1>5 DEF Reads!Detail
    <2>2. QED
      BY <2>1 DEF Reads!Answer
  <1>6. QED
    BY <1>4, <1>5

\* The active list is a case of the public one; what a list shows can be opened; a
\* member's assignments are in their private list; a facet only narrows.  Whatever
\* the database, the caller and the query.
THEOREM EveryListAgrees ==
    ASSUME NEW data, NEW caller, NEW values, NEW q \in QueryOf(values)
    PROVE  Reads!ListsAgree(data, caller, q)
  <1> DEFINE plain == [q EXCEPT !.status = None, !.includePrivate = FALSE,
                                !.appliedByMe = FALSE, !.countries = None,
                                !.timeZones = None, !.projectId = None,
                                !.projectIds = None, !.skills = None, !.search = None,
                                !.role = None, !.excludeTestProjects = FALSE]
             open == [plain EXCEPT !.status = "OPEN"]
             private == [q EXCEPT !.includePrivate = TRUE, !.appliedByMe = TRUE,
                                  !.role = None, !.projectIds = None,
                                  !.excludeTestProjects = FALSE]
  <1>1. Reads!ActiveList(data) = Reads!List(data, caller, open)
    <2>1. /\ open.status = "OPEN" /\ open.includePrivate = FALSE
          /\ open.appliedByMe = FALSE /\ open.countries = None /\ open.timeZones = None
          /\ open.projectId = None /\ open.projectIds = None /\ open.skills = None
          /\ open.search = None /\ open.role = None /\ open.excludeTestProjects = FALSE
      BY DEF QueryOf
    <2> HIDE DEF open
    <2>2. /\ ~Reads!ListsPrivate(caller, open) /\ ~Reads!MemberScoped(caller, open)
          /\ Reads!AppliedBy(caller, open) = None
      BY <2>1 DEF Reads!ListsPrivate, Reads!MemberScoped, Reads!AppliedBy
    <2>3. ASSUME NEW e
          PROVE  /\ Reads!Matches(data, e, caller, open) <=> ~e.isPrivate /\ e.status = "OPEN"
                 /\ Reads!ListRow(data, e, caller, open) = Reads!PublicRow(e)
      <3>1. Reads!Matches(data, e, caller, open) <=> ~e.isPrivate /\ e.status = "OPEN"
        BY <2>1, <2>2, NoneIsNoAnswer DEF Reads!Matches, Reads!InProject,
           Reads!IsSearched, Reads!HasSkill, Reads!IsMine, Reads!InLocation
      <3>2. Reads!ListRow(data, e, caller, open) = Reads!PublicRow(e)
        BY <2>2 DEF Reads!ListRow
      <3>3. QED
        BY <3>1, <3>2
    <2>4. Reads!List(data, caller, open)
              = Reads!Answer({Reads!ListRow(data, e, caller, open) :
                   e \in {f \in data.engagements : Reads!Matches(data, f, caller, open)}})
      BY <2>1 DEF Reads!List
    <2>5. {Reads!ListRow(data, e, caller, open) :
              e \in {f \in data.engagements : Reads!Matches(data, f, caller, open)}}
          = {Reads!PublicRow(e) :
              e \in {f \in data.engagements : ~f.isPrivate /\ f.status = "OPEN"}}
      BY <2>3
    <2>6. QED
      BY <2>4, <2>5 DEF Reads!ActiveList
  <1>2. ~Reads!ListsPrivate(caller, q) =>
            \A id \in Ids(Reads!List(data, caller, q)) :
                Reads!Detail(data, data, caller, id).status = 200
    BY ListedIsOpened
  <1>3. ASSUME caller.kind = "human", caller.userId # None
        PROVE  Ids(Reads!MyAssignments(data, caller, q))
                  \subseteq Ids(Reads!List(data, caller, private))
    <2> DEFINE user == Reads!Identifier(caller)
               mine(e) == {a \in Reads!AssignmentsOf(data, e, user) :
                              a.status \in Reads!MyStatuses}
    <2>1. /\ private.includePrivate = TRUE /\ private.appliedByMe = TRUE
          /\ private.role = None /\ private.projectIds = None
          /\ private.excludeTestProjects = FALSE /\ private.status = q.status
          /\ private.countries = q.countries /\ private.timeZones = q.timeZones
          /\ private.projectId = q.projectId /\ private.skills = q.skills
          /\ private.search = q.search
      BY DEF QueryOf
    <2> HIDE DEF private
    <2>2. /\ Reads!AppliedBy(caller, private) = caller.userId /\ user = caller.userId
          /\ Reads!MemberScoped(caller, private) /\ Reads!ListsPrivate(caller, private)
          /\ Reads!AppliedByMeError(caller) = None
      BY <1>3, <2>1 DEF Reads!AppliedBy, Reads!Identifier, Reads!MemberScoped,
                        Reads!ListsPrivate, Reads!AppliedByMeError
    <2>3. ASSUME NEW id \in Ids(Reads!MyAssignments(data, caller, q))
          PROVE  id \in Ids(Reads!List(data, caller, private))
      <3>1. PICK row \in Reads!MyAssignments(data, caller, q).rows : row.id = id
        BY DEF Ids
      <3>2. PICK e \in data.engagements :
                /\ row = Reads!Row(e, mine(e), TRUE, TRUE)
                /\ mine(e) # {} /\ q.projectId \in {None, e.project}
                /\ q.status \in {None, e.status} /\ q.search \in {None, e.title}
                /\ q.skills # None => e.skills \intersect q.skills # {}
                /\ Reads!InLocation(e, q)
        BY <1>3, <3>1 DEF Reads!MyAssignments, Reads!Answer
      <3>3. e.id = id
        BY <3>1, <3>2 DEF Reads!Row
      <3>4. Reads!IsMine(data, e, caller, private)
        BY <2>2, <3>2 DEF Reads!IsMine
      <3>5. Reads!Matches(data, e, caller, private)
        BY <2>1, <2>2, <3>2, <3>4 DEF Reads!Matches, Reads!InProject, Reads!IsSearched,
           Reads!HasSkill, Reads!SkillsOf, Reads!InLocation
      <3>6. Ids(Reads!List(data, caller, private))
                = {f.id : f \in {g \in data.engagements :
                                    Reads!Matches(data, g, caller, private)}}
        BY <2>2, ListedIds
      <3>7. QED
        BY <3>3, <3>5, <3>6
    <2>4. QED
      BY <2>3
  <1>4. \A w \in WithoutFacet(q) :
            Ids(Reads!List(data, caller, q)) \subseteq Ids(Reads!List(data, caller, w))
    BY FacetsOnlyNarrow
  <1> HIDE DEF plain, private
  <1>5. QED
    BY <1>1, <1>2, <1>3, <1>4 DEF Reads!ListsAgree, Ids, WithoutFacet, plain, private

-----------------------------------------------------------------------------
(* Orders and their ends *)

\* The order of pairs R is strict on S and leaves no two members of S aside.
Orders(R, S) ==
    /\ \A x \in S : <<x, x>> \notin R
    /\ \A x, y, z \in S : <<x, y>> \in R /\ <<y, z>> \in R => <<x, z>> \in R
    /\ \A x, y \in S : x = y \/ <<x, y>> \in R \/ <<y, x>> \in R

Through(R, S, x) == {y \in S : y = x \/ <<y, x>> \in R}

\* The members of S have places: the numbers from one to its size, each taken once.
HasPlaces(R, S) ==
    /\ \A x \in S : Cardinality(Through(R, S, x)) \in 1..Cardinality(S)
    /\ \A x, y \in S : Cardinality(Through(R, S, x)) = Cardinality(Through(R, S, y)) => x = y
    /\ \A n \in 1..Cardinality(S) : \E x \in S : Cardinality(Through(R, S, x)) = n

\* Along an order, the number of those up to a member is its place: the places of a finite
\* set are the numbers from one to its size, each taken once.
LEMMA OrderGivesPlaces ==
    ASSUME NEW S, IsFiniteSet(S), NEW R, Orders(R, S)
    PROVE  HasPlaces(R, S)
  <1> DEFINE place == [x \in S |-> Cardinality(Through(R, S, x))]
  <1>1. Cardinality(S) \in Nat
    BY FS_CardinalityType
  <1>2. ASSUME NEW x \in S
        PROVE  /\ IsFiniteSet(Through(R, S, x))
               /\ Cardinality(Through(R, S, x)) \in 1..Cardinality(S)
    <2>1. Through(R, S, x) \in SUBSET S /\ x \in Through(R, S, x)
      BY DEF Through
    <2>2. /\ IsFiniteSet(Through(R, S, x))
          /\ Cardinality(Through(R, S, x)) <= Cardinality(S)
      BY <2>1, FS_Subset
    <2>3. Cardinality(Through(R, S, x)) \in Nat /\ Cardinality(Through(R, S, x)) # 0
      BY <2>1, <2>2, FS_CardinalityType, FS_EmptySet
    <2>4. QED
      BY <1>1, <2>2, <2>3
  <1>3. ASSUME NEW x \in S, NEW y \in S, <<x, y>> \in R
        PROVE  Cardinality(Through(R, S, x)) # Cardinality(Through(R, S, y))
    <2>1. Through(R, S, x) \in SUBSET Through(R, S, y)
      BY <1>3 DEF Through, Orders
    <2>2. y \in Through(R, S, y) /\ y \notin Through(R, S, x)
      BY <1>3 DEF Through, Orders
    <2>3. QED
      BY <1>2, <2>1, <2>2, FS_Subset
  <1>4. \A x, y \in S : Cardinality(Through(R, S, x)) = Cardinality(Through(R, S, y)) => x = y
    BY <1>3 DEF Orders
  <1>5. place \in Injection(S, 1..Cardinality(S))
    <2>1. place \in [S -> 1..Cardinality(S)]
      BY <1>2
    <2>2. QED
      BY <1>4, <2>1 DEF Injection, IsInjective
  <1>6. IsFiniteSet(1..Cardinality(S)) /\ Cardinality(1..Cardinality(S)) = Cardinality(S)
    BY <1>1, FS_Interval
  <1>7. place \in Surjection(S, 1..Cardinality(S))
    BY <1>5, <1>6, FS_Injection
  <1>8. \A n \in 1..Cardinality(S) : \E x \in S : place[x] = n
    BY <1>7 DEF Surjection
  <1>9. QED
    BY <1>2, <1>4, <1>8 DEF HasPlaces

\* Numbers are ordered.
LEMMA NumbersAreOrdered ==
    ASSUME NEW S \in SUBSET Int
    PROVE  LET R == {p \in S \X S : p[1] < p[2]} IN
           Orders(R, S) /\ \A x \in S : Through(R, S, x) = {y \in S : y <= x}
  <1> DEFINE R == {p \in S \X S : p[1] < p[2]}
  <1>1. \A x, y \in S : <<x, y>> \in R <=> x < y
    OBVIOUS
  <1>2. \A x \in S : x \in Int
    OBVIOUS
  <1> HIDE DEF R
  <1>3. Orders(R, S)
    BY <1>1, <1>2 DEF Orders
  <1>4. ASSUME NEW x \in S
        PROVE  Through(R, S, x) = {y \in S : y <= x}
    <2>1. \A y \in S : (y = x \/ y < x) <=> y <= x
      BY <1>2
    <2>2. QED
      BY <1>1, <2>1 DEF Through
  <1>5. QED
    BY <1>3, <1>4 DEF R

\* A finite set of numbers that is not empty has a least and a greatest.
LEMMA EndsExist ==
    ASSUME NEW S \in SUBSET Int, IsFiniteSet(S), S # {}
    PROVE  /\ \E x \in S : \A y \in S : x <= y
           /\ \E x \in S : \A y \in S : y <= x
  <1> DEFINE R == {p \in S \X S : p[1] < p[2]}
             below(x) == {y \in S : y <= x}
  <1>1. Orders(R, S) /\ \A x \in S : Through(R, S, x) = below(x)
    BY NumbersAreOrdered
  <1> HIDE DEF R
  <1>2. \A n \in 1..Cardinality(S) : \E x \in S : Cardinality(below(x)) = n
    <2>1. HasPlaces(R, S)
      BY <1>1, OrderGivesPlaces
    <2> HIDE DEF below
    <2>2. QED
      BY <1>1, <2>1 DEF HasPlaces
  <1>3. Cardinality(S) \in Nat /\ Cardinality(S) # 0
    BY FS_CardinalityType, FS_EmptySet
  <1>4. \A x \in S : IsFiniteSet(below(x)) /\ below(x) \in SUBSET S
    BY FS_Subset
  <1>5. \E x \in S : \A y \in S : x <= y
    <2>1. PICK x \in S : Cardinality(below(x)) = 1
      BY <1>2, <1>3
    <2>2. PICK z : below(x) = {z}
      BY <1>4, <2>1, FS_Singleton
    <2>3. \A y \in S : y <= x => y = x
      BY <2>2
    <2>4. QED
      BY <2>3
  <1>6. \E x \in S : \A y \in S : y <= x
    <2>1. PICK x \in S : Cardinality(below(x)) = Cardinality(S)
      BY <1>2, <1>3
    <2>2. below(x) = S
      BY <1>4, <2>1, FS_Subset
    <2>3. QED
      BY <2>2
  <1>7. QED
    BY <1>5, <1>6

-----------------------------------------------------------------------------
(* The plan of an edit *)

\* Assignments in the order they were made, and numbered so.
Tables(Who, What) ==
    {e \in Seq([id : Nat, memberId : Who, status : What]) : \A k \in DOMAIN e : e[k].id = k}

\* An instance has the cardinality of its own library, which is this one.
LEMMA SizesAre == \A S : Plans!Cardinality(S) = Cardinality(S)
  BY DEF Plans!Cardinality, Cardinality

\* The places of a finite queue are the numbers from one to its length, each taken once.
LEMMA PlacesAre ==
    ASSUME NEW Q \in SUBSET Nat, IsFiniteSet(Q)
    PROVE  /\ \A i \in Q : Plans!Place(Q, i) \in 1..Cardinality(Q)
           /\ \A i, j \in Q : Plans!Place(Q, i) = Plans!Place(Q, j) => i = j
           /\ \A n \in 1..Cardinality(Q) : \E i \in Q : Plans!Place(Q, i) = n
  <1> DEFINE R == {p \in Q \X Q : p[1] < p[2]}
  <1>1. Orders(R, Q) /\ \A i \in Q : Through(R, Q, i) = {j \in Q : j <= i}
    <2>1. Q \in SUBSET Int
      OBVIOUS
    <2>2. QED
      BY <2>1, NumbersAreOrdered
  <1> HIDE DEF R
  <1>2. HasPlaces(R, Q)
    BY <1>1, OrderGivesPlaces
  <1>3. \A i \in Q : Plans!Place(Q, i) = Cardinality(Through(R, Q, i))
    BY <1>1, SizesAre DEF Plans!Place
  <1>4. QED
    BY <1>2, <1>3 DEF HasPlaces

\* A member's queues are finite, and as many ended assignments are given rows as there
\* are, and as the active ones leave over.
LEMMA QueuesAre ==
    ASSUME NEW Who, NEW What, NEW existing \in Tables(Who, What), NEW members \in Seq(Who),
           NEW m
    PROVE  LET P == Plans!Positions(members, m)
               A == Plans!RowsOf(existing, m, TRUE)
               T == Plans!RowsOf(existing, m, FALSE)
               q == Plans!ToTerminal(existing, members, m)
           IN  /\ P \in SUBSET Nat /\ IsFiniteSet(P) /\ Cardinality(P) \in Nat
               /\ A \in SUBSET Nat /\ IsFiniteSet(A) /\ Cardinality(A) \in Nat
               /\ T \in SUBSET Nat /\ IsFiniteSet(T) /\ Cardinality(T) \in Nat
               /\ q \in 0..Cardinality(T)
               /\ P # {} => q < Cardinality(P)
  <1> DEFINE P == Plans!Positions(members, m)
             A == Plans!RowsOf(existing, m, TRUE)
             T == Plans!RowsOf(existing, m, FALSE)
             q == Plans!ToTerminal(existing, members, m)
  <1>1. /\ IsFiniteSet(DOMAIN members) /\ DOMAIN members \in SUBSET Nat
        /\ IsFiniteSet(DOMAIN existing) /\ DOMAIN existing \in SUBSET Nat
    <2>1. /\ DOMAIN members = 1..Len(members) /\ Len(members) \in Nat
          /\ DOMAIN existing = 1..Len(existing) /\ Len(existing) \in Nat
      BY DEF Tables
    <2>2. \A n \in Nat : IsFiniteSet(1..n) /\ 1..n \in SUBSET Nat
      BY FS_Interval
    <2>3. QED
      BY <2>1, <2>2
  <1>2. P \in SUBSET (DOMAIN members) /\ A \in SUBSET (DOMAIN existing)
        /\ T \in SUBSET (DOMAIN existing)
    BY DEF Plans!Positions, Plans!RowsOf
  <1>3. /\ P \in SUBSET Nat /\ IsFiniteSet(P) /\ Cardinality(P) \in Nat
        /\ A \in SUBSET Nat /\ IsFiniteSet(A) /\ Cardinality(A) \in Nat
        /\ T \in SUBSET Nat /\ IsFiniteSet(T) /\ Cardinality(T) \in Nat
    BY <1>1, <1>2, FS_Subset, FS_CardinalityType
  <1>4. P # {} => Cardinality(P) >= 1
    BY <1>3, FS_EmptySet
  <1>5. q = LET over == Cardinality(P)
                            - (IF Cardinality(A) = 0 THEN 1 ELSE Cardinality(A))
            IN  IF over <= 0 THEN 0
                ELSE IF Cardinality(T) < over THEN Cardinality(T) ELSE over
    BY SizesAre DEF Plans!ToTerminal
  <1> HIDE DEF P, A, T, q
  <1>6. q \in 0..Cardinality(T)
    BY <1>3, <1>5
  <1>7. P # {} => q < Cardinality(P)
    BY <1>3, <1>4, <1>5
  <1>8. QED
    BY <1>3, <1>6, <1>7 DEF P, A, T, q

\* What it is to be an assignment's turn.
LEMMA TurnsAre ==
    ASSUME NEW existing, NEW members, NEW k \in DOMAIN existing
    PROVE  LET m == existing[k].memberId
               A == Plans!RowsOf(existing, m, TRUE)
               T == Plans!RowsOf(existing, m, FALSE)
               q == Plans!ToTerminal(existing, members, m)
           IN  /\ k \in A => Plans!Turn(existing, members, k) = q + Plans!Place(A, k)
               /\ k \in T => Plans!Turn(existing, members, k) =
                      IF Plans!Place(T, k) <= q THEN Plans!Place(T, k) ELSE None
               /\ k \in A <=> existing[k].status \in Plans!Active
               /\ k \in T <=> existing[k].status \notin Plans!Active
  <1> DEFINE m == existing[k].memberId
             A == Plans!RowsOf(existing, m, TRUE)
             T == Plans!RowsOf(existing, m, FALSE)
             q == Plans!ToTerminal(existing, members, m)
  <1>1. /\ k \in A <=> existing[k].status \in Plans!Active
        /\ k \in T <=> existing[k].status \notin Plans!Active
    BY DEF Plans!RowsOf
  <1>2. CASE existing[k].status \in Plans!Active
    <2>1. (existing[k].status \in Plans!Active) = TRUE
      BY <1>2
    <2>2. QED
      BY <1>1, <1>2, <2>1 DEF Plans!Turn
  <1>3. CASE existing[k].status \notin Plans!Active
    <2>1. (existing[k].status \in Plans!Active) = FALSE
      BY <1>3
    <2>2. QED
      BY <1>1, <1>3, <2>1 DEF Plans!Turn
  <1>4. QED
    BY <1>2, <1>3, <1>1

\* The assignments of a member take turns one by one, from the first of its rows on: as many
\* as there are active ones and ended ones that rows are left over for.
TakesTurns(existing, members, m) ==
    LET A == Plans!RowsOf(existing, m, TRUE)
        T == Plans!RowsOf(existing, m, FALSE)
        q == Plans!ToTerminal(existing, members, m)
        turn(k) == Plans!Turn(existing, members, k)
    IN  /\ \A k, l \in A \union T : turn(k) = turn(l) /\ turn(k) \in Nat => k = l
        /\ \A n \in Nat : n > 0 =>
               ((\E k \in A \union T : turn(k) = n) <=> n <= q + Cardinality(A))
        /\ \A k \in A : turn(k) \in (q + 1)..(q + Cardinality(A))
        /\ Cardinality(A) > 0 => \E k \in A : turn(k) = q + 1

LEMMA TurnsAreTaken ==
    ASSUME NEW Who, NEW What, NEW existing \in Tables(Who, What), NEW members \in Seq(Who),
           NEW m
    PROVE  TakesTurns(existing, members, m)
  <1> DEFINE A == Plans!RowsOf(existing, m, TRUE)
             T == Plans!RowsOf(existing, m, FALSE)
             q == Plans!ToTerminal(existing, members, m)
             turn(k) == Plans!Turn(existing, members, k)
             a == Cardinality(A)
             t == Cardinality(T)
  <1>1. /\ A \in SUBSET Nat /\ IsFiniteSet(A) /\ a \in Nat
        /\ T \in SUBSET Nat /\ IsFiniteSet(T) /\ t \in Nat /\ q \in 0..t
    BY QueuesAre
  <1>2. /\ \A k \in A : Plans!Place(A, k) \in 1..a
        /\ \A k, l \in A : Plans!Place(A, k) = Plans!Place(A, l) => k = l
        /\ \A n \in 1..a : \E k \in A : Plans!Place(A, k) = n
        /\ \A k \in T : Plans!Place(T, k) \in 1..t
        /\ \A k, l \in T : Plans!Place(T, k) = Plans!Place(T, l) => k = l
        /\ \A n \in 1..t : \E k \in T : Plans!Place(T, k) = n
    BY <1>1, PlacesAre
  <1>3. /\ \A k \in A : turn(k) = q + Plans!Place(A, k)
        /\ \A k \in T : turn(k) = IF Plans!Place(T, k) <= q THEN Plans!Place(T, k) ELSE None
    <2>1. \A k \in A \union T : k \in DOMAIN existing /\ existing[k].memberId = m
      BY DEF Plans!RowsOf
    <2>2. QED
      BY <2>1, TurnsAre
  <1>4. None \notin Nat
    BY NoneIsNoAnswer
  <1> HIDE DEF A, T, q, turn, a, t
  <1>5. \A k \in A : turn(k) \in (q + 1)..(q + a)
    BY <1>1, <1>2, <1>3
  <1>6. \A k \in T : turn(k) \in 1..q \/ turn(k) = None
    BY <1>1, <1>2, <1>3
  <1>7. ASSUME NEW k \in A \union T, NEW l \in A \union T, turn(k) = turn(l), turn(k) \in Nat
        PROVE  k = l
    <2>1. CASE k \in A /\ l \in A
      BY <1>1, <1>2, <1>3, <1>7, <2>1
    <2>2. CASE k \in T /\ l \in T
      BY <1>1, <1>2, <1>3, <1>4, <1>7, <2>2
    <2>3. \A i \in A, j \in T : turn(i) # turn(j)
      <3>1. \A i \in A : turn(i) \in Int /\ turn(i) > q
        BY <1>1, <1>5
      <3>2. \A j \in T : turn(j) \in Int => turn(j) <= q
        BY <1>1, <1>6, NoneIsNoAnswer
      <3>3. q \in Nat
        BY <1>1
      <3>4. QED
        BY <3>1, <3>2, <3>3
    <2>4. QED
      BY <1>7, <2>1, <2>2, <2>3
  <1>8. ASSUME NEW n \in Nat, n > 0
        PROVE  (\E k \in A \union T : turn(k) = n) <=> n <= q + a
    <2>1. ASSUME NEW k \in A \union T, turn(k) = n
          PROVE  n <= q + a
      BY <1>1, <1>4, <1>5, <1>6, <2>1
    <2>2. CASE n <= q
      <3>1. PICK k \in T : Plans!Place(T, k) = n
        BY <1>1, <1>2, <1>8, <2>2
      <3>2. QED
        BY <1>1, <1>3, <2>2, <3>1
    <2>3. CASE n > q /\ n <= q + a
      <3>1. n - q \in 1..a
        BY <1>1, <2>3
      <3>2. PICK k \in A : Plans!Place(A, k) = n - q
        BY <1>2, <3>1
      <3>3. turn(k) = n
        BY <1>1, <1>3, <3>2
      <3>4. QED
        BY <2>3, <3>3
    <2>4. QED
      BY <1>1, <2>1, <2>2, <2>3
  <1>9. a > 0 => \E k \in A : turn(k) = q + 1
    BY <1>1, <1>2, <1>3
  <1>10. QED
    BY <1>5, <1>7, <1>8, <1>9 DEF A, T, q, turn, a, t, TakesTurns

\* A row and an assignment are matched at most once; a row is matched as long as its member
\* has turns.
MatchesFit(existing, members) ==
    LET M == Plans!Matches(existing, members)
        place(i) == Plans!Place(Plans!Positions(members, members[i]), i)
        turns(m) == Plans!ToTerminal(existing, members, m)
                        + Cardinality(Plans!RowsOf(existing, m, TRUE))
    IN  /\ Plans!Updates(existing, members) = M
        /\ M \in SUBSET ((DOMAIN existing) \X (DOMAIN members))
        /\ \A u \in M : existing[u[1]].memberId = members[u[2]]
        /\ \A u, v \in M : u[2] = v[2] => u = v
        /\ \A u, v \in M : u[1] = v[1] => u = v
        /\ \A i \in DOMAIN members :
               (\E u \in M : u[2] = i) <=> place(i) <= turns(members[i])
        /\ \A k \in DOMAIN existing :
               (\E u \in M : u[1] = k) <=>
                   \E i \in Plans!Positions(members, existing[k].memberId) :
                       Plans!Turn(existing, members, k) = place(i)

LEMMA MatchesAre ==
    ASSUME NEW Who, NEW What, NEW existing \in Tables(Who, What), NEW members \in Seq(Who)
    PROVE  MatchesFit(existing, members)
  <1> DEFINE M == Plans!Matches(existing, members)
             P(i) == Plans!Positions(members, members[i])
             place(i) == Plans!Place(P(i), i)
             turn(k) == Plans!Turn(existing, members, k)
             A(m) == Plans!RowsOf(existing, m, TRUE)
             T(m) == Plans!RowsOf(existing, m, FALSE)
             q(m) == Plans!ToTerminal(existing, members, m)
  <1>1. M = {u \in (DOMAIN existing) \X (DOMAIN members) :
                 existing[u[1]].memberId = members[u[2]] /\ turn(u[1]) = place(u[2])}
    BY DEF Plans!Matches
  <1>2. \A i \in DOMAIN members : \A j \in P(i) :
            j \in DOMAIN members /\ members[j] = members[i] /\ P(j) = P(i)
    BY DEF Plans!Positions
  <1>3. \A i \in DOMAIN members : i \in P(i)
    BY DEF Plans!Positions
  <1>4. \A i \in DOMAIN members :
            /\ place(i) \in Nat /\ place(i) > 0
            /\ \A j \in P(i) : place(i) = place(j) => i = j
    <2> SUFFICES ASSUME NEW i \in DOMAIN members
                 PROVE  /\ place(i) \in Nat /\ place(i) > 0
                        /\ \A j \in P(i) : place(i) = place(j) => i = j
      OBVIOUS
    <2>1. P(i) \in SUBSET Nat /\ IsFiniteSet(P(i)) /\ Cardinality(P(i)) \in Nat
      BY QueuesAre
    <2>2. /\ place(i) \in 1..Cardinality(P(i))
          /\ \A j \in P(i) : Plans!Place(P(i), i) = Plans!Place(P(i), j) => i = j
      BY <1>3, <2>1, PlacesAre
    <2>3. \A j \in P(i) : P(j) = P(i)
      BY <1>2
    <2>4. QED
      BY <2>1, <2>2, <2>3
  <1>5. \A k \in DOMAIN existing :
            k \in A(existing[k].memberId) \union T(existing[k].memberId)
    BY DEF Plans!RowsOf
  <1>6. \A m : \A k \in A(m) \union T(m) : k \in DOMAIN existing /\ existing[k].memberId = m
    BY DEF Plans!RowsOf
  <1>7. \A m : /\ \A k, l \in A(m) \union T(m) : turn(k) = turn(l) /\ turn(k) \in Nat => k = l
               /\ \A n \in Nat : n > 0 => ((\E k \in A(m) \union T(m) : turn(k) = n)
                                              <=> n <= q(m) + Cardinality(A(m)))
    <2>1. \A m : TakesTurns(existing, members, m)
      BY TurnsAreTaken
    <2>2. QED
      BY <2>1 DEF TakesTurns
  <1>8. Plans!Updates(existing, members) = M
    <2>1. \A u \in M : u = <<u[1], u[2]>> /\ existing[u[1]].id = u[1]
      BY <1>1 DEF Tables
    <2>2. Plans!Updates(existing, members) = {<<existing[u[1]].id, u[2]>> : u \in M}
      BY DEF Plans!Updates
    <2> HIDE DEF M
    <2>3. QED
      BY <2>1, <2>2
  <1> HIDE DEF place, turn, A, T, q, P
  <1>9. ASSUME NEW u \in M, NEW v \in M, u[2] = v[2]
        PROVE  u = v
    <2>1. /\ u = <<u[1], u[2]>> /\ v = <<v[1], v[2]>>
          /\ u[1] \in DOMAIN existing /\ v[1] \in DOMAIN existing /\ u[2] \in DOMAIN members
          /\ existing[u[1]].memberId = existing[v[1]].memberId
          /\ turn(u[1]) = turn(v[1]) /\ turn(u[1]) = place(u[2])
      BY <1>1, <1>9
    <2>2. turn(u[1]) \in Nat
      BY <1>4, <2>1
    <2>3. u[1] = v[1]
      BY <1>5, <1>7, <2>1, <2>2
    <2>4. QED
      BY <1>9, <2>1, <2>3
  <1>10. ASSUME NEW u \in M, NEW v \in M, u[1] = v[1]
         PROVE  u = v
    <2>1. /\ u = <<u[1], u[2]>> /\ v = <<v[1], v[2]>>
          /\ u[2] \in DOMAIN members /\ v[2] \in DOMAIN members
          /\ members[u[2]] = members[v[2]] /\ place(u[2]) = place(v[2])
      BY <1>1, <1>10
    <2>2. v[2] \in P(u[2])
      BY <2>1 DEF P, Plans!Positions
    <2>3. u[2] = v[2]
      BY <1>4, <2>1, <2>2
    <2>4. QED
      BY <1>10, <2>1, <2>3
  <1>11. ASSUME NEW i \in DOMAIN members
         PROVE  (\E u \in M : u[2] = i) <=>
                    place(i) <= q(members[i]) + Cardinality(A(members[i]))
    <2>1. (\E u \in M : u[2] = i) <=>
              \E k \in DOMAIN existing :
                  existing[k].memberId = members[i] /\ turn(k) = place(i)
      <3>1. ASSUME NEW k \in DOMAIN existing, existing[k].memberId = members[i],
                   turn(k) = place(i)
            PROVE  <<k, i>> \in M
        BY <1>1, <3>1
      <3>2. QED
        BY <1>1, <3>1
    <2>2. (\E k \in DOMAIN existing :
              existing[k].memberId = members[i] /\ turn(k) = place(i)) <=>
          \E k \in A(members[i]) \union T(members[i]) : turn(k) = place(i)
      BY <1>5, <1>6
    <2>3. QED
      BY <1>4, <1>7, <2>1, <2>2
  <1>12. ASSUME NEW k \in DOMAIN existing
         PROVE  (\E u \in M : u[1] = k) <=>
                    \E i \in Plans!Positions(members, existing[k].memberId) :
                        turn(k) = place(i)
    <2>1. ASSUME NEW i \in Plans!Positions(members, existing[k].memberId),
                 turn(k) = place(i)
          PROVE  <<k, i>> \in M
      BY <1>1, <2>1 DEF Plans!Positions
    <2>2. ASSUME NEW u \in M, u[1] = k
          PROVE  u[2] \in Plans!Positions(members, existing[k].memberId)
                 /\ turn(k) = place(u[2])
      BY <1>1, <2>2 DEF Plans!Positions
    <2>3. QED
      BY <2>1, <2>2
  <1>13. M \in SUBSET ((DOMAIN existing) \X (DOMAIN members))
         /\ \A u \in M : existing[u[1]].memberId = members[u[2]]
    BY <1>1
  <1> HIDE DEF M
  <1>14. QED
    BY <1>8, <1>9, <1>10, <1>11, <1>12, <1>13 DEF place, turn, A, q, P, M, MatchesFit

\* An assignment some row was matched with, and a row no assignment was matched with.
Hit(existing, members, k) == \E u \in Plans!Matches(existing, members) : u[1] = k
Missed(existing, members, i) == ~\E u \in Plans!Matches(existing, members) : u[2] = i

\* A member named, of whom the plan leaves at most one active, is left exactly one: an
\* active assignment that takes the last of its rows, or a new one made of it.
LeavesOne(existing, members, m) ==
    LET kept == {k \in Plans!RowsOf(existing, m, TRUE) : Hit(existing, members, k)}
        made == {i \in Plans!Positions(members, m) : Missed(existing, members, i)}
    IN  /\ Plans!ActiveCount(existing, members, m) = 1
        /\ \/ \E k : kept = {k} /\ made = {}
           \/ \E i : kept = {} /\ made = {i}

LEMMA OneIsLeft ==
    ASSUME NEW Who, NEW What, NEW existing \in Tables(Who, What), NEW members \in Seq(Who),
           NEW m \in Plans!ToSet(members),
           Plans!ActiveCount(existing, members, m) <= 1
    PROVE  LeavesOne(existing, members, m)
  <1> DEFINE P == Plans!Positions(members, m)
             n == Cardinality(P)
             A == Plans!RowsOf(existing, m, TRUE)
             a == Cardinality(A)
             T == Plans!RowsOf(existing, m, FALSE)
             q == Plans!ToTerminal(existing, members, m)
             turn(k) == Plans!Turn(existing, members, k)
             place(i) == Plans!Place(P, i)
             kept == {k \in A : Hit(existing, members, k)}
             made == {i \in P : Missed(existing, members, i)}
  <1>1. PICK i \in DOMAIN members : m = members[i]
    BY DEF Plans!ToSet
  <1>2. P # {}
    BY <1>1 DEF Plans!Positions
  <1>3. /\ P \in SUBSET Nat /\ IsFiniteSet(P) /\ n \in Nat
        /\ A \in SUBSET Nat /\ IsFiniteSet(A) /\ a \in Nat
        /\ q \in Nat /\ q < n
    <2>1. /\ P \in SUBSET Nat /\ IsFiniteSet(P) /\ n \in Nat
          /\ A \in SUBSET Nat /\ IsFiniteSet(A) /\ a \in Nat
          /\ q \in 0..Cardinality(T) /\ Cardinality(T) \in Nat
          /\ P # {} => q < n
      BY QueuesAre
    <2> HIDE DEF P, n, A, a, q
    <2>2. QED
      BY <1>2, <2>1
  <1>4. Plans!ActiveCount(existing, members, m) = n - q
    BY SizesAre DEF Plans!ActiveCount
  <1>5. q = n - 1 /\ n > 0
    BY <1>3, <1>4
  <1>6. /\ \A j \in P : place(j) \in 1..n
        /\ \A j, l \in P : place(j) = place(l) => j = l
        /\ \A x \in 1..n : \E j \in P : place(j) = x
    BY <1>3, PlacesAre
  <1>7. \A j \in P : j \in DOMAIN members /\ members[j] = m
    BY DEF Plans!Positions
  <1>8. MatchesFit(existing, members)
    BY MatchesAre
  <1>9. \A j \in P : Missed(existing, members, j) <=> place(j) > q + a
    <2> SUFFICES ASSUME NEW j \in P
                 PROVE  Missed(existing, members, j) <=> place(j) > q + a
      OBVIOUS
    <2>1. (\E u \in Plans!Matches(existing, members) : u[2] = j) <=>
              Plans!Place(Plans!Positions(members, members[j]), j)
                  <= Plans!ToTerminal(existing, members, members[j])
                     + Cardinality(Plans!RowsOf(existing, members[j], TRUE))
      BY <1>7, <1>8 DEF MatchesFit
    <2>2. (\E u \in Plans!Matches(existing, members) : u[2] = j) <=> place(j) <= q + a
      BY <1>7, <2>1
    <2>3. (place(j) <= q + a) <=> ~(place(j) > q + a)
      <3> HIDE DEF place, q, a, n, P
      <3>1. place(j) \in 1..n
        BY <1>6
      <3>2. QED
        BY <1>3, <3>1
    <2>4. QED
      BY <2>2, <2>3 DEF Missed
  <1>10. \A k \in A : Hit(existing, members, k) <=> \E j \in P : turn(k) = place(j)
    <2> SUFFICES ASSUME NEW k \in A
                 PROVE  Hit(existing, members, k) <=> \E j \in P : turn(k) = place(j)
      OBVIOUS
    <2>1. k \in DOMAIN existing /\ existing[k].memberId = m
      BY DEF Plans!RowsOf
    <2>2. (\E u \in Plans!Matches(existing, members) : u[1] = k) <=>
              \E j \in Plans!Positions(members, existing[k].memberId) :
                  Plans!Turn(existing, members, k) =
                      Plans!Place(Plans!Positions(members, members[j]), j)
      BY <2>1, <1>8 DEF MatchesFit
    <2>3. \A j \in P : Plans!Positions(members, members[j]) = P
      BY <1>7
    <2>4. QED
      BY <2>1, <2>2, <2>3 DEF Hit
  <1>11. /\ \A k, l \in A : turn(k) = turn(l) /\ turn(k) \in Nat => k = l
         /\ \A k \in A : turn(k) \in (q + 1)..(q + a)
         /\ a > 0 => \E k \in A : turn(k) = q + 1
    <2>1. TakesTurns(existing, members, m)
      BY TurnsAreTaken
    <2>2. QED
      BY <2>1 DEF TakesTurns
  <1>12. a = 0 <=> A = {}
    BY <1>3, FS_EmptySet
  <1> HIDE DEF P, n, A, a, q, turn, place
  <1>13. Plans!ActiveCount(existing, members, m) = 1
    BY <1>3, <1>4, <1>5
  <1>14. CASE a = 0
    <2>1. kept = {}
      BY <1>12, <1>14
    <2>2. PICK j \in P : place(j) = n
      BY <1>3, <1>5, <1>6
    <2>3. \A l \in P : Missed(existing, members, l) <=> l = j
      BY <1>3, <1>5, <1>6, <1>9, <1>14, <2>2
    <2>4. made = {j}
      BY <2>3
    <2>5. QED
      BY <1>13, <2>1, <2>4 DEF P, A, LeavesOne
  <1>15. CASE a > 0
    <2>1. \A l \in P : ~Missed(existing, members, l)
      BY <1>3, <1>5, <1>6, <1>9, <1>15
    <2>2. made = {}
      BY <2>1
    <2>3. PICK k \in A : turn(k) = n
      BY <1>3, <1>5, <1>11, <1>15
    <2>4. Hit(existing, members, k)
      BY <1>3, <1>5, <1>6, <1>10, <2>3
    <2>5. ASSUME NEW l \in A, Hit(existing, members, l)
          PROVE  l = k
      <3>1. PICK j \in P : turn(l) = place(j)
        BY <1>10, <2>5
      <3>2. turn(l) \in n..(q + a) /\ turn(l) \in 1..n
        BY <1>3, <1>5, <1>6, <1>11, <3>1
      <3>3. QED
        BY <1>3, <1>11, <2>3, <3>2
    <2>6. kept = {k}
      BY <2>4, <2>5
    <2>7. QED
      BY <1>13, <2>2, <2>6 DEF P, A, LeavesOne
  <1>16. QED
    BY <1>3, <1>14, <1>15

New(existing, members, i) ==
    [id |-> Len(existing) + i, memberId |-> members[i], status |-> "SELECTED"]

\* What is active after an edit: the active assignments that took a row, as they were, and
\* one made of each row that found none.  What had ended is there as it was.
LEMMA ActiveAfter ==
    ASSUME NEW Who, NEW What, NEW existing \in Tables(Who, What), NEW members \in Seq(Who),
           NEW plan, plan.creations = Plans!Creations(existing, members),
           plan.terminations = Plans!Terminations(existing, members)
    PROVE  LET after == Plans!Executed(existing, members, plan) IN
           /\ \A r : r \in after /\ r.status \in Plans!Active <=>
                  \/ \E k \in DOMAIN existing :
                         /\ existing[k].status \in Plans!Active
                         /\ Hit(existing, members, k) /\ r = existing[k]
                  \/ \E i \in DOMAIN members :
                         Missed(existing, members, i) /\ r = New(existing, members, i)
           /\ \A r \in Plans!ToSet(existing) : r.status \notin Plans!Active => r \in after
  <1> DEFINE M == Plans!Matches(existing, members)
             left(k) == [existing[k] EXCEPT !.status =
                            IF existing[k].id \in plan.terminations THEN "TERMINATED"
                            ELSE existing[k].status]
             after == Plans!Executed(existing, members, plan)
  <1>1. Plans!Updates(existing, members) = M
    BY MatchesAre DEF MatchesFit
  <1>2. /\ \A k \in DOMAIN existing : existing[k].id = k
        /\ \A k \in DOMAIN existing : existing[k] \in [id : Nat, memberId : Who, status : What]
    <2> DEFINE R == [id : Nat, memberId : Who, status : What]
    <2>1. existing \in Seq(R) /\ \A k \in DOMAIN existing : existing[k].id = k
      BY DEF Tables
    <2> HIDE DEF R
    <2>2. \A k \in DOMAIN existing : existing[k] \in R
      BY <2>1
    <2>3. QED
      BY <2>1, <2>2 DEF R
  <1>3. \A k \in DOMAIN existing : k \in plan.terminations <=>
            existing[k].status \in Plans!Active /\ ~Hit(existing, members, k)
    <2>1. plan.terminations = {r.id : r \in {s \in Plans!ToSet(existing) :
                                                 s.status \in Plans!Active}}
                                  \ {u[1] : u \in M}
      BY <1>1 DEF Plans!Terminations
    <2>2. \A k \in DOMAIN existing :
              (k \in {r.id : r \in {s \in Plans!ToSet(existing) : s.status \in Plans!Active}})
                  <=> existing[k].status \in Plans!Active
      BY <1>2 DEF Plans!ToSet
    <2>3. QED
      BY <2>1, <2>2 DEF Hit
  <1>4. \A i : i \in plan.creations <=> i \in DOMAIN members /\ Missed(existing, members, i)
    BY <1>1 DEF Plans!Creations, Missed
  <1>5. after = {left(k) : k \in DOMAIN existing}
                \union {New(existing, members, i) : i \in plan.creations}
    BY DEF Plans!Executed, Plans!ToSet, New
  <1>6. \A k \in DOMAIN existing :
            IF k \in plan.terminations THEN left(k).status = "TERMINATED"
            ELSE left(k) = existing[k]
    BY <1>2
  <1>7. "TERMINATED" \notin Plans!Active /\ "SELECTED" \in Plans!Active
    BY DEF Plans!Active
  <1>8. \A i : New(existing, members, i).status = "SELECTED"
    BY DEF New
  <1> HIDE DEF left, after, New, Missed, Hit
  <1>9. ASSUME NEW r
        PROVE  r \in after /\ r.status \in Plans!Active <=>
                  \/ \E k \in DOMAIN existing :
                         /\ existing[k].status \in Plans!Active
                         /\ Hit(existing, members, k) /\ r = existing[k]
                  \/ \E i \in DOMAIN members :
                         Missed(existing, members, i) /\ r = New(existing, members, i)
    BY <1>3, <1>4, <1>5, <1>6, <1>7, <1>8
  <1>10. \A r \in Plans!ToSet(existing) : r.status \notin Plans!Active => r \in after
    BY <1>3, <1>5, <1>6 DEF Plans!ToSet
  <1>11. QED
    BY <1>9, <1>10 DEF after

\* A payload that names nobody leaves the assignments as they are, and the limit is held
\* against those that are active.
LEMMA NobodyIsKept ==
    ASSUME NEW Who, NEW What, NEW existing \in Tables(Who, What),
           NEW required \in Nat \union {None}
    PROVE  Plans!PlanIsKept(existing, <<>>, required)
  <1> DEFINE plan == Plans!Plan(existing, <<>>, required)
             rows == Plans!ToSet(existing)
             live == Plans!ActiveOf(rows)
             R == [id : Nat, memberId : Who, status : What]
  <1>1. existing \in Seq(R)
    BY DEF Tables
  <1>2. rows \subseteq R
    <2> HIDE DEF R
    <2>1. QED
      BY <1>1 DEF Plans!ToSet
  <1>3. IsFiniteSet(live) /\ Cardinality(live) \in Nat
    <2>1. DOMAIN existing = 1..Len(existing) /\ Len(existing) \in Nat
      BY <1>1
    <2>2. existing \in Surjection(DOMAIN existing, rows)
      <3> HIDE DEF R
      <3>1. QED
        BY <1>1 DEF Surjection, Plans!ToSet
    <2>3. IsFiniteSet(rows)
      BY <2>1, <2>2, FS_Interval, FS_Surjection
    <2>4. live \in SUBSET rows
      BY DEF Plans!ActiveOf
    <2>5. QED
      BY <2>3, <2>4, FS_Subset, FS_CardinalityType
  <1>4. Plans!Updates(existing, <<>>) = {} /\ Plans!Creations(existing, <<>>) = {}
    <2>1. DOMAIN <<>> = {}
      OBVIOUS
    <2>2. QED
      BY <2>1 DEF Plans!Updates, Plans!Matches, Plans!Creations
  <1>5. ASSUME plan # Refused
        PROVE  /\ plan.updates = {} /\ plan.creations = {} /\ plan.terminations = {}
               /\ plan.active = Cardinality(live)
               /\ required # None => Cardinality(live) <= required
    <2>1. /\ plan = [updates |-> {}, creations |-> {}, terminations |-> {},
                     active |-> Cardinality(live)]
          /\ ~(required # None /\ Cardinality(live) > required)
      BY <1>4, <1>5, SizesAre DEF Plans!Plan
    <2> HIDE DEF plan, live
    <2>2. QED
      BY <1>3, <2>1
  <1>6. ASSUME plan # Refused
        PROVE  Plans!Executed(existing, <<>>, plan) = rows
    <2>1. \A a \in rows : [a EXCEPT !.status = IF a.id \in plan.terminations THEN "TERMINATED"
                                               ELSE a.status] = a
      <3>1. \A a \in R : [a EXCEPT !.status = a.status] = a
        OBVIOUS
      <3>2. plan.terminations = {}
        BY <1>5, <1>6
      <3> HIDE DEF plan, rows, R
      <3>3. QED
        BY <1>2, <3>1, <3>2
    <2>2. plan.creations = {}
      BY <1>5, <1>6
    <2> HIDE DEF plan
    <2>3. QED
      BY <2>1, <2>2 DEF Plans!Executed
  <1> HIDE DEF plan, live, rows
  <1>7. DOMAIN <<>> = {}
    OBVIOUS
  <1>8. ASSUME plan # Refused
        PROVE  LET after == Plans!Executed(existing, <<>>, plan) IN
               /\ \A a \in rows : a.status \notin Plans!Active => a \in after
               /\ after = rows
               /\ Cardinality(Plans!ActiveOf(after)) = plan.active
               /\ required # None => Cardinality(Plans!ActiveOf(after)) <= required
    <2>1. Plans!Executed(existing, <<>>, plan) = rows
      BY <1>6, <1>8
    <2>2. plan.active = Cardinality(live) /\ (required # None => Cardinality(live) <= required)
      BY <1>5, <1>8
    <2>3. QED
      BY <2>1, <2>2 DEF live
  <1>9. QED
    BY <1>5, <1>7, <1>8, SizesAre DEF Plans!PlanIsKept, plan, rows

\* So is a plan that names somebody.
LEMMA NamedAreKept ==
    ASSUME NEW Who, NEW What, NEW existing \in Tables(Who, What), NEW members \in Seq(Who),
           members # <<>>, NEW required \in Nat \union {None}
    PROVE  Plans!PlanIsKept(existing, members, required)
  <1> DEFINE plan == Plans!Plan(existing, members, required)
             after == Plans!Executed(existing, members, plan)
             active == {r \in after : r.status \in Plans!Active}
             of(m) == {r \in active : r.memberId = m}
             named == Plans!ToSet(members)
             counts == [m \in named |-> Plans!ActiveCount(existing, members, m)]
             counted == {p \in named \X (DOMAIN members) : p[2] <= counts[p[1]]}
             M == Plans!Matches(existing, members)
  <1>1. SUFFICES ASSUME plan # Refused
                 PROVE  /\ \A i \in DOMAIN members :
                              Cardinality({u \in plan.updates : u[2] = i}) +
                              Cardinality({i} \intersect plan.creations) = 1
                        /\ \A u, v \in plan.updates : u[1] = v[1] => u = v
                        /\ \A u \in plan.updates : \E r \in Plans!ToSet(existing) :
                              r.id = u[1] /\ r.memberId = members[u[2]]
                        /\ \A r \in Plans!ToSet(existing) :
                              r.status \notin Plans!Active => r \in after
                        /\ \A m : Cardinality(of(m)) = IF m \in named THEN 1 ELSE 0
                        /\ Cardinality(active) = plan.active
                        /\ required # None => Cardinality(active) <= required
    BY SizesAre DEF Plans!PlanIsKept, Plans!ActiveOf
  <1>2. /\ \A m \in named : ~(counts[m] > 1)
        /\ ~(required # None /\ Cardinality(counted) > required)
        /\ plan = [updates |-> Plans!Updates(existing, members),
                   creations |-> Plans!Creations(existing, members),
                   terminations |-> Plans!Terminations(existing, members),
                   active |-> Cardinality(counted)]
    BY <1>1, SizesAre DEF Plans!Plan
  <1>3. MatchesFit(existing, members)
    BY MatchesAre
  <1>4. plan.updates = M /\ plan.creations = Plans!Creations(existing, members)
        /\ plan.terminations = Plans!Terminations(existing, members)
        /\ plan.active = Cardinality(counted)
    BY <1>2, <1>3 DEF MatchesFit
  <1>5. ASSUME NEW m \in named
        PROVE  LeavesOne(existing, members, m) /\ counts[m] = 1
    <2>1. Plans!ActiveCount(existing, members, m)
              = Cardinality(Plans!Positions(members, m)) - Plans!ToTerminal(existing, members, m)
      BY SizesAre DEF Plans!ActiveCount
    <2>2. /\ Cardinality(Plans!Positions(members, m)) \in Nat
          /\ Plans!ToTerminal(existing, members, m)
                 \in 0..Cardinality(Plans!RowsOf(existing, m, FALSE))
      BY QueuesAre
    <2>3. Plans!ActiveCount(existing, members, m) \in Int
      BY <2>1, <2>2
    <2>4. Plans!ActiveCount(existing, members, m) <= 1
      BY <1>2, <2>3
    <2>5. LeavesOne(existing, members, m)
      BY <2>4, OneIsLeft
    <2>6. QED
      BY <2>5 DEF LeavesOne
  <1>6. /\ \A r : r \in active <=>
               \/ \E k \in DOMAIN existing :
                      /\ existing[k].status \in Plans!Active
                      /\ Hit(existing, members, k) /\ r = existing[k]
               \/ \E i \in DOMAIN members :
                      Missed(existing, members, i) /\ r = New(existing, members, i)
        /\ \A r \in Plans!ToSet(existing) : r.status \notin Plans!Active => r \in after
    BY <1>4, ActiveAfter
  <1> HIDE DEF plan, after, counted, counts
  <1>7. \A i \in DOMAIN members :
            Cardinality({u \in plan.updates : u[2] = i}) +
            Cardinality({i} \intersect plan.creations) = 1
    <2> SUFFICES ASSUME NEW i \in DOMAIN members
                 PROVE  Cardinality({u \in M : u[2] = i}) +
                        Cardinality({i} \intersect plan.creations) = 1
      BY <1>4
    <2>1. i \in plan.creations <=> ~\E u \in M : u[2] = i
      BY <1>3, <1>4 DEF Plans!Creations, MatchesFit
    <2>2. \A u, v \in M : u[2] = v[2] => u = v
      BY <1>3 DEF MatchesFit
    <2> DEFINE mine == {u \in M : u[2] = i}
               own == {i} \intersect plan.creations
    <2>3. Cardinality({}) = 0 /\ \A x : Cardinality({x}) = 1
      BY FS_Singleton, FS_EmptySet
    <2> HIDE DEF M
    <2>4. (\E u : mine = {u} /\ own = {}) \/ (mine = {} /\ own = {i})
      <3>1. CASE \E u \in M : u[2] = i
        <4>1. PICK u \in M : u[2] = i
          BY <3>1
        <4>2. mine = {u} /\ own = {}
          BY <2>1, <2>2, <3>1, <4>1
        <4>3. QED
          BY <4>2
      <3>2. CASE ~\E u \in M : u[2] = i
        <4>1. mine = {} /\ own = {i}
          BY <2>1, <3>2
        <4>2. QED
          BY <4>1
      <3>3. QED
        BY <3>1, <3>2
    <2>5. Cardinality(mine) + Cardinality(own) = 1
      <3> HIDE DEF mine, own
      <3>1. \/ Cardinality(mine) = 1 /\ Cardinality(own) = 0
            \/ Cardinality(mine) = 0 /\ Cardinality(own) = 1
        BY <2>3, <2>4, Zenon
      <3>2. QED
        BY <3>1
    <2>6. QED
      BY <2>5
  <1>8. \A u, v \in plan.updates : u[1] = v[1] => u = v
    BY <1>3, <1>4 DEF MatchesFit
  <1>9. \A u \in plan.updates : \E r \in Plans!ToSet(existing) :
            r.id = u[1] /\ r.memberId = members[u[2]]
    <2>1. \A u \in M : u[1] \in DOMAIN existing /\ existing[u[1]].memberId = members[u[2]]
      BY <1>3 DEF MatchesFit
    <2>2. \A k \in DOMAIN existing : existing[k].id = k /\ existing[k] \in Plans!ToSet(existing)
      BY DEF Tables, Plans!ToSet
    <2> HIDE DEF M
    <2>3. QED
      BY <1>4, <2>1, <2>2
  <1>10. \A m \in named : \E r : of(m) = {r}
    <2> SUFFICES ASSUME NEW m \in named
                 PROVE  \E r : of(m) = {r}
      OBVIOUS
    <2> DEFINE kept == {k \in Plans!RowsOf(existing, m, TRUE) : Hit(existing, members, k)}
               made == {i \in Plans!Positions(members, m) : Missed(existing, members, i)}
    <2>1. (\E k : kept = {k} /\ made = {}) \/ (\E i : kept = {} /\ made = {i})
      BY <1>5 DEF LeavesOne
    <2>2. \A k : k \in kept <=> /\ k \in DOMAIN existing /\ existing[k].memberId = m
                                /\ existing[k].status \in Plans!Active
                                /\ Hit(existing, members, k)
      BY DEF Plans!RowsOf
    <2>3. \A i : i \in made <=> /\ i \in DOMAIN members /\ members[i] = m
                                /\ Missed(existing, members, i)
      BY DEF Plans!Positions
    <2>4. \A i : New(existing, members, i).memberId = members[i]
      BY DEF New
    <2> HIDE DEF kept, made, active, New, Hit, Missed, named
    <2>5. \A r : r \in of(m) <=> (\E k \in kept : r = existing[k])
                                 \/ \E i \in made : r = New(existing, members, i)
      BY <1>6, <2>2, <2>3, <2>4
    <2> HIDE DEF of
    <2>6. CASE \E k : kept = {k} /\ made = {}
      <3>1. PICK k : kept = {k} /\ made = {}
        BY <2>6
      <3>2. of(m) = {existing[k]}
        BY <2>5, <3>1
      <3>3. QED
        BY <3>2
    <2>7. CASE \E i : kept = {} /\ made = {i}
      <3>1. PICK i : kept = {} /\ made = {i}
        BY <2>7
      <3>2. of(m) = {New(existing, members, i)}
        BY <2>5, <3>1
      <3>3. QED
        BY <3>2
    <2>8. QED
      BY <2>1, <2>6, <2>7
  <1>11. \A r \in active : r.memberId \in named
    <2>1. \A k \in DOMAIN existing : Hit(existing, members, k) => existing[k].memberId \in named
      BY <1>3 DEF Hit, MatchesFit, Plans!ToSet
    <2>2. \A i \in DOMAIN members : New(existing, members, i).memberId \in named
      BY DEF New, Plans!ToSet
    <2> HIDE DEF New, Hit, Missed, named, active
    <2>3. QED
      BY <1>6, <2>1, <2>2
  <1> HIDE DEF active, named, M
  <1>12. \A m : Cardinality(of(m)) = IF m \in named THEN 1 ELSE 0
    <2>1. \A m : m \notin named => of(m) = {}
      BY <1>11
    <2> HIDE DEF of
    <2>2. ASSUME NEW m, m \notin named
          PROVE  Cardinality(of(m)) = IF m \in named THEN 1 ELSE 0
      BY <2>1, <2>2, FS_EmptySet
    <2>3. ASSUME NEW m \in named
          PROVE  Cardinality(of(m)) = IF m \in named THEN 1 ELSE 0
      <3>1. PICK r : of(m) = {r}
        BY <1>10
      <3>2. QED
        BY <3>1, FS_Singleton
    <2>4. QED
      BY <2>2, <2>3
  <1>13. named # {} => 1 \in DOMAIN members
    BY DEF named, Plans!ToSet
  <1>14. IsFiniteSet(named)
    <2>1. DOMAIN members = 1..Len(members) /\ Len(members) \in Nat
      OBVIOUS
    <2>2. IsFiniteSet(DOMAIN members)
      BY <2>1, FS_Interval
    <2>3. members \in Surjection(DOMAIN members, named)
      BY DEF Surjection, named, Plans!ToSet
    <2>4. QED
      BY <2>2, <2>3, FS_Surjection
  <1>15. Cardinality(active) = Cardinality(named)
    <2> DEFINE f == [m \in named |-> CHOOSE r : of(m) = {r}]
    <2>1. \A m \in named : of(m) = {f[m]}
      BY <1>10
    <2>2. \A m \in named : f[m] \in active /\ f[m].memberId = m
      BY <2>1
    <2>3. \A r \in active : r.memberId \in named /\ f[r.memberId] = r
      BY <1>11, <2>1
    <2>4. f \in Bijection(named, active)
      <3>1. f \in [named -> active]
        BY <2>2
      <3> HIDE DEF f
      <3>2. QED
        BY <2>2, <2>3, <3>1 DEF Bijection, Injection, Surjection, IsInjective
    <2>5. ExistsBijection(named, active)
      BY <2>4 DEF ExistsBijection
    <2>6. QED
      BY <1>14, <2>5, FS_Bijection
  <1>16. Cardinality(counted) = Cardinality(named)
    <2> DEFINE g == [m \in named |-> <<m, 1>>]
    <2>1. counted = {p \in named \X (DOMAIN members) : p[2] <= 1}
      BY <1>5 DEF counted
    <2>2. DOMAIN members = 1..Len(members) /\ Len(members) \in Nat
      OBVIOUS
    <2>3. \A p \in counted : p = <<p[1], 1>> /\ p[1] \in named
      BY <2>1, <2>2
    <2>4. \A m \in named : <<m, 1>> \in counted
      BY <1>13, <2>1
    <2>5. g \in Bijection(named, counted)
      BY <2>3, <2>4 DEF Bijection, Injection, Surjection, IsInjective
    <2>6. QED
      BY <1>14, <2>5, FS_Bijection DEF ExistsBijection
  <1>17. required # None => Cardinality(active) <= required
    <2>1. Cardinality(active) \in Nat
      BY <1>14, <1>15, FS_CardinalityType
    <2>2. QED
      BY <1>2, <1>15, <1>16, <2>1
  <1>18. QED
    BY <1>4, <1>6, <1>7, <1>8, <1>9, <1>12, <1>15, <1>16, <1>17

\* Every plan is kept: each row of the payload reaches one assignment of its member and no
\* assignment takes two; what had ended stays ended; each member named has one active
\* assignment and nobody else has one, and where nobody is named nothing changes; and the
\* limit was held against the number of the active ones.
THEOREM EveryPlanIsKept ==
    ASSUME NEW Who, NEW What, NEW existing \in Tables(Who, What), NEW members \in Seq(Who),
           NEW required \in Nat \union {None}
    PROVE  Plans!PlanIsKept(existing, members, required)
  BY NobodyIsKept, NamedAreKept

-----------------------------------------------------------------------------
(* The members of a new engagement *)

\* No two members have one handle, and nothing missing or refused is a member or a handle.
IsDirectory(directory) ==
    /\ \A m, n \in DOMAIN directory : directory[m] = directory[n] => m = n
    /\ None \notin DOMAIN directory /\ Refused \notin DOMAIN directory
    /\ \A m \in DOMAIN directory : directory[m] # None

\* A row leads to a member that fits it, or is refused.
LEMMA MemberFits ==
    ASSUME NEW directory, IsDirectory(directory), NEW row,
           Plans!Member(directory, row) # Refused
    PROVE  LET m == Plans!Member(directory, row) IN
           /\ m \in DOMAIN directory
           /\ row.memberId # None => row.memberId = m
           /\ row.memberHandle # None => row.memberHandle = directory[m]
  <1> DEFINE found == {m \in DOMAIN directory :
                          /\ row.memberId \in {None, m}
                          /\ row.memberHandle \in {None, directory[m]}}
  <1>1. found # {} /\ Plans!Member(directory, row) = CHOOSE m \in found : TRUE
    BY DEF Plans!Member
  <1>2. Plans!Member(directory, row) \in found
    BY <1>1
  <1>3. QED
    BY <1>2

\* Whoever is to be assigned by a new private engagement is known, named once and within the
\* limit, and rows that have both ids and handles assign the members their arrays assign.
THEOREM EveryCreationIsKept ==
    ASSUME NEW directory, IsDirectory(directory), NEW IdValues, NEW HandleValues,
           NEW details \in Seq([memberId : IdValues, memberHandle : HandleValues]),
           NEW required \in Nat \union {None}
    PROVE  Plans!CreationIsKept(directory, details, required)
  <1> DEFINE n == Len(details)
             ids == [i \in DOMAIN details |-> details[i].memberId]
             handles == [i \in DOMAIN details |-> details[i].memberHandle]
             found == [i \in DOMAIN details |-> Plans!Member(directory, details[i])]
             limited(list) == IF list = Refused THEN Refused
                              ELSE IF required # None /\ Len(list) > required THEN Refused
                              ELSE list
             byDetails == Plans!MembersOfDetails(directory, details, FALSE)
             byRows == Plans!CreatedMembers(directory, TRUE, details, <<>>, <<>>, required)
             byArrays == Plans!CreatedMembers(directory, TRUE, <<>>, ids, handles, required)
             paired == \A i \in DOMAIN details :
                          details[i].memberId # None /\ details[i].memberHandle # None
  <1>1. SUFFICES /\ byRows # Refused => /\ IsInjective(byRows)
                                        /\ Plans!ToSet(byRows) \subseteq DOMAIN directory
                                        /\ required # None => Len(byRows) <= required
                 /\ paired => byRows = byArrays
    BY DEF Plans!CreationIsKept, Plans!IsInjective, IsInjective
  <1>2. /\ DOMAIN details = 1..n /\ n \in Nat
        /\ \A i \in 1..n : details[i] = [memberId |-> details[i].memberId,
                                         memberHandle |-> details[i].memberHandle]
    <2> DEFINE R == [memberId : IdValues, memberHandle : HandleValues]
    <2>1. \A r \in R : r = [memberId |-> r.memberId, memberHandle |-> r.memberHandle]
      OBVIOUS
    <2>2. details \in Seq(R)
      OBVIOUS
    <2> HIDE DEF R
    <2>3. \A i \in 1..n : details[i] \in R
      BY <2>2
    <2>4. QED
      BY <2>1, <2>2, <2>3
  <1>3. byArrays = limited(Plans!MembersOfArrays(directory, ids, handles, FALSE))
    BY DEF Plans!CreatedMembers
  <1>4. CASE details = <<>>
    <2> DEFINE none == Plans!MembersOfArrays(directory, <<>>, <<>>, FALSE)
    <2>1. byRows = limited(none)
      BY <1>4 DEF Plans!CreatedMembers
    <2>2. ids = <<>> /\ handles = <<>>
      BY <1>4
    <2>3. none # Refused => none = <<>>
      BY DEF Plans!MembersOfArrays
    <2>4. byRows # Refused => byRows = <<>>
      BY <2>1, <2>3
    <2>5. /\ IsInjective(<<>>) /\ Plans!ToSet(<<>>) = {}
          /\ required # None => Len(<<>>) <= required
      BY DEF IsInjective, Plans!ToSet
    <2>6. byArrays = limited(none)
      <3> HIDE DEF ids, handles, byArrays, limited
      <3>1. QED
        BY <1>3, <2>2
    <2> HIDE DEF byRows, byArrays, limited, none
    <2>7. QED
      BY <2>1, <2>4, <2>5, <2>6
  <1>5. CASE details # <<>>
    <2>1. byRows = limited(byDetails)
      BY <1>5 DEF Plans!CreatedMembers
    <2>2. byDetails = IF Refused \in Plans!ToSet(found) \/ ~IsInjective(found)
                      THEN Refused ELSE found
      BY DEF Plans!MembersOfDetails, Plans!IsInjective, IsInjective
    <2>3. Refused \notin Plans!ToSet(found) =>
              \A i \in DOMAIN details :
                  /\ found[i] \in DOMAIN directory
                  /\ ids[i] # None => ids[i] = found[i]
                  /\ handles[i] # None => handles[i] = directory[found[i]]
      <3> SUFFICES ASSUME Refused \notin Plans!ToSet(found), NEW i \in DOMAIN details
                   PROVE  /\ found[i] \in DOMAIN directory
                          /\ ids[i] # None => ids[i] = found[i]
                          /\ handles[i] # None => handles[i] = directory[found[i]]
        OBVIOUS
      <3>1. Plans!Member(directory, details[i]) # Refused
        BY DEF Plans!ToSet
      <3>2. QED
        BY <3>1, MemberFits
    <2>4. ASSUME byRows # Refused
          PROVE  /\ IsInjective(byRows)
                 /\ Plans!ToSet(byRows) \subseteq DOMAIN directory
                 /\ required # None => Len(byRows) <= required
      <3>1. byRows = found /\ byDetails = found /\ byDetails # Refused
        BY <2>1, <2>2, <2>4
      <3>2. Refused \notin Plans!ToSet(found) /\ IsInjective(found)
        BY <2>2, <3>1
      <3>3. Plans!ToSet(found) \subseteq DOMAIN directory
        BY <2>3, <3>2 DEF Plans!ToSet
      <3>4. Len(found) \in Nat
        BY <1>2
      <3>5. required # None => ~(Len(found) > required)
        BY <2>1, <2>4, <3>1
      <3> HIDE DEF found, byRows
      <3>6. QED
        BY <3>1, <3>2, <3>3, <3>4, <3>5
    <2>5. ASSUME paired
          PROVE  Plans!MembersOfArrays(directory, ids, handles, FALSE) = byDetails
      <3>1. /\ Len(ids) = n /\ Len(handles) = n
            /\ DOMAIN ids = 1..n /\ DOMAIN handles = 1..n
        BY <1>2
      <3>2. Plans!MembersOfArrays(directory, ids, handles, FALSE) =
                IF ~(IsInjective(ids) /\ IsInjective(handles))
                   \/ Refused \in Plans!ToSet(found)
                THEN Refused ELSE found
        <4> DEFINE at(seq, i) == IF i \in DOMAIN seq THEN seq[i] ELSE None
                   matched == [i \in 1..n |-> Plans!Member(directory,
                       [memberId |-> at(ids, i), memberHandle |-> at(handles, i)])]
        <4>1. Plans!MembersOfArrays(directory, ids, handles, FALSE) =
                  IF ~(IsInjective(ids) /\ IsInjective(handles))
                     \/ Refused \in Plans!ToSet(matched)
                  THEN Refused ELSE matched
          <5> HIDE DEF ids, handles, n
          <5>1. QED
            BY <3>1 DEF Plans!MembersOfArrays, Plans!IsInjective, IsInjective
        <4>2. matched = found
          BY <1>2
        <4> HIDE DEF matched, found, ids, handles
        <4>3. QED
          BY <4>1, <4>2
      <3>3. Refused \notin Plans!ToSet(found) =>
                (IsInjective(found) <=> IsInjective(ids) /\ IsInjective(handles))
        <4> SUFFICES ASSUME Refused \notin Plans!ToSet(found)
                     PROVE  IsInjective(found) <=> IsInjective(ids) /\ IsInjective(handles)
          OBVIOUS
        <4>1. \A i \in DOMAIN details : /\ found[i] \in DOMAIN directory
                                        /\ ids[i] = found[i]
                                        /\ handles[i] = directory[found[i]]
          BY <2>3, <2>5
        <4>2. DOMAIN found = DOMAIN details /\ DOMAIN ids = DOMAIN details
              /\ DOMAIN handles = DOMAIN details
          OBVIOUS
        <4> HIDE DEF found, ids, handles
        <4>3. QED
          BY <4>1, <4>2 DEF IsInjective, IsDirectory
      <3> HIDE DEF found, ids, handles, byDetails
      <3>4. QED
        BY <2>2, <3>2, <3>3
    <2> HIDE DEF byRows, byArrays, byDetails, ids, handles, limited
    <2>6. QED
      BY <1>3, <2>1, <2>4, <2>5
  <1>6. QED
    BY <1>4, <1>5

-----------------------------------------------------------------------------
(* The hours *)

\* The hours of an instance are counted by this library too.
LEMMA HourSizesAre == \A S : Hours!Cardinality(S) = Cardinality(S)
  BY DEF Hours!Cardinality, Cardinality

LEMMA MinMaxAre ==
    ASSUME NEW S \in SUBSET Int, IsFiniteSet(S), S # {}
    PROVE  /\ Hours!Min(S) \in S /\ \A y \in S : Hours!Min(S) <= y
           /\ Hours!Max(S) \in S /\ \A y \in S : y <= Hours!Max(S)
  BY EndsExist DEF Hours!Min, Hours!Max

\* An hour is a thing and a number up to its hours.
LEMMA HourIs ==
    ASSUME NEW S
    PROVE  /\ \A h \in Hours!HoursOf(S) :
                  \E x \in S : h[1] = x /\ h[2] \in 1..x.hours /\ h = <<h[1], h[2]>>
           /\ \A x \in S : \A j \in 1..x.hours : <<x, j>> \in Hours!HoursOf(S)
  <1>1. ASSUME NEW h \in Hours!HoursOf(S)
        PROVE  \E x \in S : h[1] = x /\ h[2] \in 1..x.hours /\ h = <<h[1], h[2]>>
    <2>1. PICK x \in S : h \in {x} \X (1..x.hours)
      BY DEF Hours!HoursOf
    <2>2. QED
      BY <2>1
  <1>2. ASSUME NEW x \in S, NEW j \in 1..x.hours
        PROVE  <<x, j>> \in Hours!HoursOf(S)
    <2>1. <<x, j>> \in {x} \X (1..x.hours)
      OBVIOUS
    <2>2. QED
      BY <2>1 DEF Hours!HoursOf
  <1>3. QED
    BY <1>1, <1>2

\* Finitely many things have finitely many hours.
LEMMA HoursAreFinite ==
    ASSUME NEW S, IsFiniteSet(S), \A x \in S : x.hours \in Nat
    PROVE  IsFiniteSet(Hours!HoursOf(S)) /\ Hours!Hours(S) = Cardinality(Hours!HoursOf(S))
  <1> DEFINE of == [x \in S |-> {x} \X (1..x.hours)]
             T == {{x} \X (1..x.hours) : x \in S}
  <1>1. of \in Surjection(S, T)
    BY DEF Surjection
  <1>2. IsFiniteSet(T)
    BY <1>1, FS_Surjection
  <1>3. ASSUME NEW t \in T
        PROVE  IsFiniteSet(t)
    <2>1. PICK x \in S : t = {x} \X (1..x.hours)
      OBVIOUS
    <2>2. x.hours \in Nat
      OBVIOUS
    <2>3. IsFiniteSet(1..x.hours)
      BY <2>2, FS_Interval
    <2>4. IsFiniteSet({x})
      BY FS_Singleton
    <2>5. QED
      BY <2>1, <2>3, <2>4, FS_Product
  <1>4. IsFiniteSet(UNION T)
    <2> HIDE DEF T
    <2>1. QED
      BY <1>2, <1>3, FS_UNION
  <1>5. QED
    BY <1>4, HourSizesAre DEF Hours!HoursOf, Hours!Hours

\* The hours of two sets with nothing in common add up.
LEMMA HoursAreAdded ==
    ASSUME NEW S, IsFiniteSet(S), NEW T, IsFiniteSet(T), S \cap T = {},
           \A x \in S \union T : x.hours \in Nat
    PROVE  Hours!Hours(S \union T) = Hours!Hours(S) + Hours!Hours(T)
  <1> DEFINE P == Hours!HoursOf(S)
             Q == Hours!HoursOf(T)
  <1>1. /\ IsFiniteSet(P) /\ Hours!Hours(S) = Cardinality(P)
        /\ IsFiniteSet(Q) /\ Hours!Hours(T) = Cardinality(Q)
    BY HoursAreFinite
  <1>2. IsFiniteSet(S \union T)
    BY FS_Union
  <1>3. Hours!Hours(S \union T) = Cardinality(Hours!HoursOf(S \union T))
    BY <1>2, HoursAreFinite
  <1>4. Hours!HoursOf(S \union T) = P \union Q
    BY DEF Hours!HoursOf
  <1>5. P \cap Q = {}
    BY HourIs
  <1> HIDE DEF P, Q
  <1>6. Cardinality(P \union Q) = Cardinality(P) + Cardinality(Q) - Cardinality({})
    BY <1>1, <1>5, FS_Union
  <1>7. Cardinality(P) \in Nat /\ Cardinality(Q) \in Nat /\ Cardinality({}) = 0
    BY <1>1, FS_EmptySet, FS_CardinalityType
  <1>8. Hours!Hours(S \union T) = Cardinality(P \union Q)
    BY <1>3, <1>4, Zenon
  <1> DEFINE p == Cardinality(P)
             q == Cardinality(Q)
             e == Cardinality({})
             u == Cardinality(P \union Q)
  <1>9. u = p + q - e /\ p \in Nat /\ q \in Nat /\ e = 0
    BY <1>6, <1>7
  <1> HIDE DEF p, q, e, u
  <1>10. u = p + q
    BY <1>9
  <1>11. QED
    BY <1>1, <1>8, <1>10, Zenon DEF p, q, u

\* Things that have as many hours as there are members of the sets they stand for, and
\* stand for sets with nothing in common, have as many hours as those sets together.
LEMMA HoursAreShared ==
    ASSUME NEW W, NEW U, IsFiniteSet(U), NEW F \in [W -> SUBSET U],
           \A w \in W : w.hours = Cardinality(F[w]),
           \A v, w \in W : v = w \/ F[v] \cap F[w] = {},
           \A u \in U : \E w \in W : u \in F[w]
    PROVE  Hours!Hours(W) = Cardinality(U)
  <1> DEFINE n(w) == Cardinality(F[w])
             IsCount(w, f) == f \in Bijection(1..n(w), F[w])
             count == [w \in W |-> CHOOSE f : IsCount(w, f)]
             H == Hours!HoursOf(W)
             nth == [h \in H |-> count[h[1]][h[2]]]
  <1>1. ASSUME NEW w \in W
        PROVE  IsCount(w, count[w])
    <2>1. IsFiniteSet(F[w])
      BY FS_Subset
    <2>2. ExistsBijection(1..n(w), F[w])
      BY <2>1, FS_CardinalityType
    <2>3. \E f : IsCount(w, f)
      BY <2>2 DEF ExistsBijection
    <2> HIDE DEF IsCount
    <2>4. QED
      BY <2>3
  <1>2. ASSUME NEW w \in W
        PROVE  /\ \A j \in 1..n(w) : count[w][j] \in F[w]
               /\ \A i, j \in 1..n(w) : count[w][i] = count[w][j] => i = j
               /\ \A u \in F[w] : \E j \in 1..n(w) : count[w][j] = u
    <2> DEFINE f == count[w]
               N == 1..n(w)
               X == F[w]
    <2>1. f \in Bijection(N, X)
      BY <1>1
    <2> HIDE DEF f, N, X
    <2>2. /\ \A j \in N : f[j] \in X
          /\ \A i, j \in N : f[i] = f[j] => i = j
          /\ \A u \in X : \E j \in N : f[j] = u
      BY <2>1 DEF Bijection, Injection, IsInjective, Surjection
    <2>3. QED
      BY <2>2 DEF f, N, X
  <1> HIDE DEF count
  <1>3. ASSUME NEW h \in H
        PROVE  /\ h[1] \in W /\ h[2] \in 1..n(h[1]) /\ h = <<h[1], h[2]>>
               /\ nth[h] = count[h[1]][h[2]] /\ nth[h] \in F[h[1]]
    <2>1. h[1] \in W /\ h[2] \in 1..n(h[1]) /\ h = <<h[1], h[2]>>
      BY HourIs
    <2>2. QED
      BY <1>2, <2>1
  <1>4. ASSUME NEW w \in W, NEW j \in 1..n(w)
        PROVE  <<w, j>> \in H
    BY <1>4, HourIs
  <1> HIDE DEF H
  <1>5. nth \in [H -> U]
    BY <1>3
  <1>6. ASSUME NEW g \in H, NEW h \in H, nth[g] = nth[h]
        PROVE  g = h
    <2>1. g[1] = h[1]
      BY <1>3, <1>6
    <2>2. QED
      BY <1>2, <1>3, <1>6, <2>1
  <1>7. ASSUME NEW u \in U
        PROVE  \E h \in H : nth[h] = u
    <2>1. PICK w \in W : u \in F[w]
      OBVIOUS
    <2>2. PICK j \in 1..n(w) : count[w][j] = u
      BY <1>2, <2>1
    <2>3. <<w, j>> \in H /\ nth[<<w, j>>] = u
      BY <1>3, <1>4, <2>2
    <2>4. QED
      BY <2>3
  <1>8. nth \in Bijection(H, U)
    <2> HIDE DEF nth
    <2>1. QED
      BY <1>5, <1>6, <1>7 DEF Bijection, Injection, IsInjective, Surjection
  <1>9. ExistsBijection(U, H)
    <2> HIDE DEF nth
    <2>1. ExistsBijection(H, U)
      BY <1>8 DEF ExistsBijection
    <2>2. QED
      BY <2>1, Fun_ExistsBijSymmetric
  <1>10. Cardinality(H) = Cardinality(U)
    BY <1>9, FS_Bijection
  <1>11. QED
    BY <1>10, HourSizesAre DEF H, Hours!Hours

\* Division, as an inequality.
LEMMA Division ==
    ASSUME NEW a \in Nat, NEW b \in Nat \ {0}
    PROVE  a \div b \in Nat /\ b * (a \div b) <= a /\ a < b * (a \div b) + b
  OBVIOUS

LEMMA Multiples ==
    ASSUME NEW c \in Nat \ {0}, NEW a \in Int, NEW b \in Int
    PROVE  /\ c * a \in Int /\ c * b \in Int /\ c * (a + 1) = c * a + c
           /\ c * a < c * b => a < b
           /\ a <= b => c * a <= c * b
  OBVIOUS

LEMMA SubSeqIs ==
    ASSUME NEW S, NEW s \in Seq(S), NEW a \in 1..Len(s), NEW b \in 0..Len(s)
    PROVE  /\ DOMAIN SubSeq(s, a, b) = 1..(b - a + 1)
           /\ \A i \in 1..(b - a + 1) : SubSeq(s, a, b)[i] = s[a + i - 1]
  OBVIOUS

\* The lesser and the greater of two numbers.
LEMMA OfTwo ==
    ASSUME NEW x \in Int, NEW y \in Int
    PROVE  /\ Hours!Min({x, y}) = IF x <= y THEN x ELSE y
           /\ Hours!Max({x, y}) = IF x <= y THEN y ELSE x
  <1> DEFINE S == {x, y}
  <1>1. S = {x} \union {y} /\ S # {} /\ S \in SUBSET Int
    OBVIOUS
  <1>2. IsFiniteSet({x}) /\ IsFiniteSet({y})
    BY FS_Singleton
  <1>3. IsFiniteSet(S)
    <2> HIDE DEF S
    <2>1. QED
      BY <1>1, <1>2, FS_Union
  <1>4. /\ Hours!Min(S) \in S /\ \A z \in S : Hours!Min(S) <= z
        /\ Hours!Max(S) \in S /\ \A z \in S : z <= Hours!Max(S)
    <2> HIDE DEF S
    <2>1. QED
      BY <1>1, <1>3, MinMaxAre
  <1>5. QED
    BY <1>4

\* Every place of a list is on one page, and in one place of it.
IsPaged(s, size) ==
    LET pages == 1..Hours!TotalPages(Len(s), size)
        page(p) == Hours!Page(s, p, size)
    IN  /\ \A p \in pages : \A i \in DOMAIN page(p) :
               /\ i \in 1..size /\ size * (p - 1) + i \in 1..Len(s)
               /\ page(p)[i] = s[size * (p - 1) + i]
        /\ \A n \in 1..Len(s) : \E p \in pages : \E i \in DOMAIN page(p) :
               n = size * (p - 1) + i

LEMMA ListsArePaged ==
    ASSUME NEW S, NEW s \in Seq(S), NEW size \in Nat \ {0}
    PROVE  IsPaged(s, size)
  <1> DEFINE n == Len(s)
             total == Hours!TotalPages(n, size)
             page(p) == Hours!Page(s, p, size)
             before(p) == size * (p - 1)
  <1>1. n \in Nat /\ size \in Nat /\ size > 0
    OBVIOUS
  <1>2. total \in Nat /\ n <= size * total /\ size * total <= n + size - 1
    <2>1. n + size - 1 \in Nat
      BY <1>1
    <2> DEFINE m == n + size - 1
    <2>2. total = m \div size
      BY DEF Hours!TotalPages
    <2> HIDE DEF m, total
    <2>3. total \in Nat /\ size * total <= m /\ m < size * total + size
      BY <2>1, <2>2, Division DEF m
    <2>4. QED
      BY <1>1, <2>3, Multiples DEF m
  <1> HIDE DEF n, total
  <1>3. ASSUME NEW p \in 1..total
        PROVE  /\ before(p) \in Nat /\ before(p) < n
               /\ DOMAIN page(p) = {i \in 1..size : before(p) + i <= n}
               /\ \A i \in DOMAIN page(p) : page(p)[i] = s[before(p) + i]
    <2> DEFINE b == before(p)
               end == Hours!Min({p * size, n})
    <2>1. b \in Int /\ size * p = b + size /\ b <= size * total - size /\ b >= 0
      <3>1. p \in Int /\ p - 1 \in Int /\ total - 1 \in Int /\ 0 \in Int
            /\ p - 1 <= total - 1 /\ 0 <= p - 1
        BY <1>2
      <3>2. size * (p - 1) <= size * (total - 1) /\ size * 0 <= size * (p - 1)
        BY <3>1, Multiples
      <3>3. size * (p - 1 + 1) = size * (p - 1) + size
        BY <3>1, Multiples
      <3>4. size * (total - 1 + 1) = size * (total - 1) + size
        BY <3>1, Multiples
      <3>5. p - 1 + 1 = p /\ total - 1 + 1 = total /\ size * 0 = 0
        BY <1>2
      <3>6. size * (p - 1) \in Int /\ size * (total - 1) \in Int
        BY <3>1, Multiples
      <3>7. QED
        BY <3>2, <3>3, <3>4, <3>5, <3>6
    <2>2. b < n
      BY <1>1, <1>2, <2>1, Multiples
    <2>3. end = IF b + size <= n THEN b + size ELSE n
      <3>1. p * size = b + size
        BY <2>1
      <3>2. p * size \in Int
        BY <1>1, <2>1, <3>1
      <3>3. end = IF p * size <= n THEN p * size ELSE n
        BY <1>1, <3>2, OfTwo
      <3> HIDE DEF end, b
      <3>4. QED
        BY <3>1, <3>3
    <2>4. page(p) = SubSeq(s, b + 1, end)
      <3>1. (p - 1) * size = b
        OBVIOUS
      <3>2. page(p) = SubSeq(s, (p - 1) * size + 1, end)
        BY DEF Hours!Page, n
      <3>3. QED
        BY <3>1, <3>2
    <2> HIDE DEF b, end
    <2>5. b + 1 \in 1..Len(s) /\ end \in 0..Len(s)
      BY <1>1, <2>1, <2>2, <2>3 DEF n
    <2>6. /\ DOMAIN page(p) = 1..(end - (b + 1) + 1)
          /\ \A i \in 1..(end - (b + 1) + 1) : page(p)[i] = s[b + 1 + i - 1]
      BY <2>4, <2>5, SubSeqIs
    <2>7. 1..(end - (b + 1) + 1) = {i \in 1..size : b + i <= n}
      BY <1>1, <2>1, <2>2, <2>3
    <2>8. \A i \in 1..(end - (b + 1) + 1) : b + 1 + i - 1 = b + i
      BY <2>1, <2>3
    <2>9. QED
      BY <2>1, <2>2, <2>6, <2>7, <2>8 DEF b
  <1>4. ASSUME NEW k \in 1..n
        PROVE  \E p \in 1..total : \E i \in DOMAIN page(p) : k = before(p) + i
    <2> DEFINE q == (k - 1) \div size
               i == k - size * q
    <2>1. k - 1 \in Nat /\ k \in Int
      BY <1>1
    <2>2. q \in Nat /\ size * q <= k - 1 /\ k - 1 < size * q + size
      BY <2>1, Division
    <2> HIDE DEF q
    <2>3. size * q \in Int /\ size * total \in Int
      BY <1>2, <2>2, Multiples
    <2>4. q < total
      <3>1. size * q < size * total
        BY <1>1, <1>2, <2>2, <2>3
      <3>2. QED
        BY <1>2, <2>2, <3>1, Multiples
    <2>5. q + 1 \in 1..total /\ before(q + 1) = size * q
      BY <1>2, <2>2, <2>4
    <2>6. i \in 1..size /\ size * q + i = k
      BY <2>1, <2>2, <2>3
    <2>7. i \in DOMAIN page(q + 1)
      <3>1. DOMAIN page(q + 1) = {j \in 1..size : before(q + 1) + j <= n}
        BY <1>3, <2>5
      <3> HIDE DEF page, before, i
      <3>2. QED
        BY <1>1, <2>5, <2>6, <3>1
    <2>8. QED
      BY <2>5, <2>6, <2>7
  <1>5. QED
    <2>1. ASSUME NEW p \in 1..total, NEW i \in DOMAIN page(p)
          PROVE  /\ i \in 1..size /\ before(p) + i \in 1..n
                 /\ page(p)[i] = s[before(p) + i]
      <3>1. i \in {j \in 1..size : before(p) + j <= n} /\ page(p)[i] = s[before(p) + i]
        BY <1>3
      <3>2. before(p) \in Nat
        BY <1>3
      <3> HIDE DEF page, before
      <3>3. QED
        BY <1>1, <3>1, <3>2
    <2>2. QED
      BY <1>4, <2>1 DEF IsPaged, n, total

LEMMA PagesAreApart ==
    ASSUME NEW size \in Nat \ {0}, NEW p \in Int, NEW r \in Int,
           NEW i \in 1..size, NEW j \in 1..size, size * (p - 1) + i = size * (r - 1) + j
    PROVE  p = r /\ i = j
  <1>1. ASSUME NEW a \in Int, NEW b \in Int, NEW k \in 1..size, NEW l \in 1..size,
               size * (a - 1) + k = size * (b - 1) + l
        PROVE  a <= b
    <2>1. /\ size * (a - 1) \in Int /\ size * (b - 1) \in Int
          /\ size * (b - 1 + 1) = size * (b - 1) + size
      BY Multiples
    <2>2. b - 1 + 1 = b /\ size * b \in Int
      BY <2>1
    <2>3. size * (a - 1) < size * b
      BY <1>1, <2>1, <2>2
    <2>4. a - 1 < b
      BY <2>3, Multiples
    <2>5. QED
      BY <2>4
  <1>2. p <= r /\ r <= p
    BY <1>1
  <1>3. p = r
    BY <1>2
  <1>4. size * (p - 1) \in Int
    BY Multiples
  <1>5. QED
    BY <1>3, <1>4

IsHolder(a) == /\ a.id \in Int /\ a.title \in Int /\ a.handle \in Int
               /\ {a.startDate, a.endDate} \subseteq Int \union {None}
               /\ {a.perDay, a.perWeek} \subseteq Nat \union {None}

\* Timecards as the database keeps them: an assignment has one entry of a day, and names
\* stand in the order of their numbers.
IsTimecards(d) ==
    /\ IsFiniteSet(d.entries)
    /\ \A e \in d.entries : e.hours \in Nat /\ e.workDate \in Int
    /\ \A e \in d.entries : \E a \in d.assignments : a.id = e.assignment
    /\ \A e, f \in d.entries : e.assignment = f.assignment /\ e.workDate = f.workDate => e = f
    /\ \A a \in d.assignments : IsHolder(a)
    /\ \A a, b \in d.assignments : a.id = b.id => a = b
    /\ \A e, f \in d.entries : e.id = f.id => e = f

\* The entries in the order in which a query returns them.
IsOrder(order, d) ==
    /\ \A e \in d.entries : order[e.id] \in Int
    /\ \A e, f \in d.entries : order[e.id] = order[f.id] => e.id = f.id

\* An approval is shown as a group of what it approved.
LEMMA GroupsSplit ==
    ASSUME NEW B, IsFiniteSet(B)
    PROVE  LET G == Hours!GroupByApproval(B) IN
           /\ IsFiniteSet(G)
           /\ \A g \in G : g \subseteq B /\ g # {} /\ IsFiniteSet(g)
           /\ \A e \in B : \E g \in G : e \in g
           /\ \A g \in G : \A e \in g : \A f \in B :
                  f \in g <=> Hours!ApprovalKey(f) = Hours!ApprovalKey(e)
           /\ \A g, h \in G : g = h \/ g \cap h = {}
  <1> DEFINE G == Hours!GroupByApproval(B)
             with(k) == {e \in B : Hours!ApprovalKey(e) = k}
             groupOf == [e \in B |-> with(Hours!ApprovalKey(e))]
  <1>1. \A g : g \in G <=> \E e \in B : g = with(Hours!ApprovalKey(e))
    BY DEF Hours!GroupByApproval
  <1>2. groupOf \in Surjection(B, G)
    <2>1. groupOf \in [B -> G]
      BY <1>1
    <2>2. \A g \in G : \E e \in B : groupOf[e] = g
      BY <1>1
    <2> HIDE DEF groupOf, G
    <2>3. QED
      BY <2>1, <2>2 DEF Surjection
  <1>3. IsFiniteSet(G)
    BY <1>2, FS_Surjection
  <1> HIDE DEF G
  <1>4. \A g \in G : g \subseteq B /\ g # {}
    BY <1>1
  <1>5. \A g \in G : IsFiniteSet(g)
    BY <1>4, FS_Subset
  <1>6. ASSUME NEW e \in B
        PROVE  \E g \in G : e \in g
    <2>1. with(Hours!ApprovalKey(e)) \in G /\ e \in with(Hours!ApprovalKey(e))
      BY <1>1
    <2>2. QED
      BY <2>1
  <1>7. \A g \in G : \A e \in g : \A f \in B :
            f \in g <=> Hours!ApprovalKey(f) = Hours!ApprovalKey(e)
    BY <1>1
  <1>8. ASSUME NEW g \in G, NEW h \in G, NEW e \in g, e \in h
        PROVE  g = h
    BY <1>4, <1>7, <1>8
  <1>9. \A g, h \in G : g = h \/ g \cap h = {}
    BY <1>8
  <1>10. /\ IsFiniteSet(G)
         /\ \A g \in G : g \subseteq B /\ g # {} /\ IsFiniteSet(g)
         /\ \A e \in B : \E g \in G : e \in g
         /\ \A g \in G : \A e \in g : \A f \in B :
                f \in g <=> Hours!ApprovalKey(f) = Hours!ApprovalKey(e)
         /\ \A g, h \in G : g = h \/ g \cap h = {}
    <2>1. \A g \in G : g \subseteq B /\ g # {} /\ IsFiniteSet(g)
      BY <1>4, <1>5
    <2>2. \A e \in B : \E g \in G : e \in g
      BY <1>6
    <2>3. QED
      BY <1>3, <1>7, <1>9, <2>1, <2>2
  <1>11. QED
    BY <1>10, Zenon DEF G

Owner(d, g) == Hours!AssignmentOf(d, CHOOSE e \in g : TRUE)

\* The entries of an approval are of one assignment.
LEMMA OwnersAre ==
    ASSUME NEW d, IsTimecards(d), NEW B \in SUBSET d.entries
    PROVE  /\ \A e \in B : \A a \in d.assignments :
                  a.id = e.assignment => Hours!AssignmentOf(d, e) = a
           /\ \A g \in Hours!GroupByApproval(B) :
                  Owner(d, g) \in d.assignments /\ \A e \in g : e.assignment = Owner(d, g).id
  <1>1. ASSUME NEW e \in B
        PROVE  /\ Hours!AssignmentOf(d, e) \in d.assignments
               /\ Hours!AssignmentOf(d, e).id = e.assignment
    BY DEF IsTimecards, Hours!AssignmentOf
  <1>2. \A e \in B : \A a \in d.assignments :
            a.id = e.assignment => Hours!AssignmentOf(d, e) = a
    BY <1>1 DEF IsTimecards
  <1>3. ASSUME NEW g \in Hours!GroupByApproval(B)
        PROVE  Owner(d, g) \in d.assignments /\ \A e \in g : e.assignment = Owner(d, g).id
    <2> DEFINE f == CHOOSE e \in g : TRUE
    <2>1. IsFiniteSet(B)
      BY FS_Subset DEF IsTimecards
    <2>2. g \subseteq B /\ g # {}
          /\ \A e \in g : \A c \in B : c \in g <=> Hours!ApprovalKey(c) = Hours!ApprovalKey(e)
      BY <2>1, GroupsSplit
    <2>3. f \in g
      BY <2>2
    <2> HIDE DEF f
    <2>4. \A e \in g : e.assignment = f.assignment
      BY <2>2, <2>3 DEF Hours!ApprovalKey
    <2>5. QED
      BY <1>1, <2>2, <2>3, <2>4 DEF Owner, f
  <1>4. QED
    BY <1>2, <1>3

LEMMA Lexicographic ==
    ASSUME NEW a, NEW b, NEW c, NEW e, NEW k, NEW l, NEW m, NEW n
    PROVE  LET r == <<a, b, c, e>>
               s == <<k, l, m, n>>
           IN  (\E i \in 1..4 : r[i] < s[i] /\ \A j \in 1..i - 1 : r[j] = s[j])
                   <=> \/ a < k
                       \/ a = k /\ b < l
                       \/ a = k /\ b = l /\ c < m
                       \/ a = k /\ b = l /\ c = m /\ e < n
  OBVIOUS

\* The first and the last day of an approval are days of its entries.
LEMMA DaysAre ==
    ASSUME NEW d, IsTimecards(d), NEW g \in SUBSET d.entries, g # {}
    PROVE  /\ Hours!FirstDay(g) \in Int /\ Hours!LastDay(g) \in Int
           /\ \A e \in g : Hours!FirstDay(g) <= e.workDate /\ e.workDate <= Hours!LastDay(g)
           /\ \E e \in g : e.workDate = Hours!FirstDay(g)
           /\ Hours!FirstDay(g) <= Hours!LastDay(g)
  <1> DEFINE T == {e.workDate : e \in g}
             day == [e \in g |-> e.workDate]
  <1>1. IsFiniteSet(g)
    BY FS_Subset DEF IsTimecards
  <1>2. day \in Surjection(g, T)
    BY DEF Surjection
  <1>3. IsFiniteSet(T) /\ T # {} /\ T \in SUBSET Int
    BY <1>1, <1>2, FS_Surjection DEF IsTimecards
  <1>4. /\ Hours!Min(T) \in T /\ \A y \in T : Hours!Min(T) <= y
        /\ Hours!Max(T) \in T /\ \A y \in T : y <= Hours!Max(T)
    <2> HIDE DEF T
    <2>1. QED
      BY <1>3, MinMaxAre
  <1>5. Hours!FirstDay(g) = Hours!Min(T) /\ Hours!LastDay(g) = Hours!Max(T)
    BY DEF Hours!FirstDay, Hours!LastDay
  <1>6. \A e \in g : e.workDate \in T
    OBVIOUS
  <1>7. \A t \in T : \E e \in g : e.workDate = t
    OBVIOUS
  <1> HIDE DEF T
  <1>8. QED
    BY <1>3, <1>4, <1>5, <1>6, <1>7

\* Every member of G has one place of the list.
Lists(s, G) ==
    /\ s \in Seq(G)
    /\ \A i, j \in 1..Len(s) : s[i] = s[j] => i = j
    /\ \A g \in G : \E i \in 1..Len(s) : s[i] = g

\* The order of approvals in a list.
ApprovalOrder(d, o, G) == {p \in G \X G : Hours!Before(d, o, p[1], p[2])}

\* What approvals are sorted by.
LEMMA SortKeyIs ==
    ASSUME NEW d, IsTimecards(d), NEW B \in SUBSET d.entries,
           NEW g \in Hours!GroupByApproval(B)
    PROVE  /\ Hours!FirstEntry(g) \in g /\ Hours!FirstEntry(g) \in d.entries
           /\ Hours!FirstEntry(g).workDate = Hours!FirstDay(g)
           /\ Hours!SortKey(d, g) = <<Owner(d, g).title, Owner(d, g).handle, Hours!FirstDay(g)>>
           /\ Owner(d, g).title \in Int /\ Owner(d, g).handle \in Int /\ Hours!FirstDay(g) \in Int
  <1>1. IsFiniteSet(B)
    BY FS_Subset DEF IsTimecards
  <1>2. g \in SUBSET d.entries /\ g # {} /\ g \subseteq B
    BY <1>1, GroupsSplit
  <1>3. Hours!FirstDay(g) \in Int /\ \E e \in g : e.workDate = Hours!FirstDay(g)
    BY <1>2, DaysAre
  <1>4. Hours!FirstEntry(g) \in g /\ Hours!FirstEntry(g).workDate = Hours!FirstDay(g)
    BY <1>3 DEF Hours!FirstEntry
  <1>5. Owner(d, g) \in d.assignments /\ \A e \in g : e.assignment = Owner(d, g).id
    BY OwnersAre
  <1>6. Hours!AssignmentOf(d, Hours!FirstEntry(g)) = Owner(d, g)
    BY <1>2, <1>4, <1>5, OwnersAre
  <1>7. QED
    BY <1>2, <1>3, <1>4, <1>5, <1>6 DEF Hours!SortKey, IsTimecards, IsHolder

LEMMA BeforeIs ==
    ASSUME NEW d, IsTimecards(d), NEW B \in SUBSET d.entries, NEW o,
           NEW g \in Hours!GroupByApproval(B), NEW h \in Hours!GroupByApproval(B)
    PROVE  LET last(x) == o[Hours!FirstEntry(x).id]
               title(x) == Owner(d, x).title
               handle(x) == Owner(d, x).handle
               first(x) == Hours!FirstDay(x)
           IN  Hours!Before(d, o, g, h) <=>
                \/ title(g) < title(h)
                \/ title(g) = title(h) /\ handle(g) < handle(h)
                \/ title(g) = title(h) /\ handle(g) = handle(h) /\ first(g) < first(h)
                \/ /\ title(g) = title(h) /\ handle(g) = handle(h) /\ first(g) = first(h)
                   /\ last(g) < last(h)
  <1> DEFINE last(x) == o[Hours!FirstEntry(x).id]
             title(x) == Owner(d, x).title
             handle(x) == Owner(d, x).handle
             first(x) == Hours!FirstDay(x)
             r == <<title(g), handle(g), first(g), last(g)>>
             s == <<title(h), handle(h), first(h), last(h)>>
             key(x) == Hours!SortKey(d, x)
             k == <<key(g)[1], key(g)[2], key(g)[3], last(g)>>
             l == <<key(h)[1], key(h)[2], key(h)[3], last(h)>>
  <1>1. k = r /\ l = s
    <2>1. /\ Hours!SortKey(d, g) = <<title(g), handle(g), first(g)>>
          /\ Hours!SortKey(d, h) = <<title(h), handle(h), first(h)>>
      BY SortKeyIs
    <2>2. QED
      BY <2>1
  <1>2. Hours!Before(d, o, g, h)
            <=> \E i \in 1..4 : k[i] < l[i] /\ \A j \in 1..i - 1 : k[j] = l[j]
    BY Zenon DEF Hours!Before
  <1> HIDE DEF k, l, r, s
  <1>3. Hours!Before(d, o, g, h)
            <=> \E i \in 1..4 : r[i] < s[i] /\ \A j \in 1..i - 1 : r[j] = s[j]
    BY <1>1, <1>2
  <1> USE DEF r, s
  <1>4. QED
    BY <1>3, Lexicographic

LEMMA ApprovalsAreOrdered ==
    ASSUME NEW d, IsTimecards(d), NEW B \in SUBSET d.entries, NEW o, IsOrder(o, d)
    PROVE  LET G == Hours!GroupByApproval(B) IN Orders(ApprovalOrder(d, o, G), G)
  <1> DEFINE G == Hours!GroupByApproval(B)
             first(g) == Hours!FirstDay(g)
             title(g) == Owner(d, g).title
             handle(g) == Owner(d, g).handle
             last(g) == o[Hours!FirstEntry(g).id]
             lower(g, h) ==
                \/ title(g) < title(h)
                \/ title(g) = title(h) /\ handle(g) < handle(h)
                \/ title(g) = title(h) /\ handle(g) = handle(h) /\ first(g) < first(h)
                \/ /\ title(g) = title(h) /\ handle(g) = handle(h) /\ first(g) = first(h)
                   /\ last(g) < last(h)
  <1>1. \A g, h \in G : Hours!Before(d, o, g, h) <=> lower(g, h)
    BY BeforeIs
  <1>2. ASSUME NEW g \in G
        PROVE  title(g) \in Int /\ handle(g) \in Int /\ first(g) \in Int /\ last(g) \in Int
    <2>1. title(g) \in Int /\ handle(g) \in Int /\ first(g) \in Int
          /\ Hours!FirstEntry(g) \in d.entries
      BY SortKeyIs
    <2>2. QED
      BY <2>1 DEF IsOrder
  <1>3. ASSUME NEW g \in G, NEW h \in G, last(g) = last(h)
        PROVE  g = h
    <2> DEFINE e == Hours!FirstEntry(g)
               f == Hours!FirstEntry(h)
    <2>1. e \in g /\ f \in h /\ e \in d.entries /\ f \in d.entries
      BY SortKeyIs
    <2>2. e.id = f.id
      BY <1>3, <2>1 DEF IsOrder
    <2> HIDE DEF e, f
    <2>3. e = f
      BY <2>1, <2>2 DEF IsTimecards
    <2>4. \A x, y \in G : x = y \/ x \cap y = {}
      <3>1. IsFiniteSet(B)
        BY FS_Subset DEF IsTimecards
      <3>2. QED
        BY <3>1, GroupsSplit
    <2> HIDE DEF G
    <2>5. QED
      BY <2>1, <2>3, <2>4
  <1> HIDE DEF G, first, title, handle, last
  <1>6. \A g, h \in G : <<g, h>> \in ApprovalOrder(d, o, G) <=> lower(g, h)
    BY <1>1 DEF ApprovalOrder
  <1>7. \A g \in G : ~lower(g, g)
    BY <1>2
  <1>8. \A g, h, k \in G : lower(g, h) /\ lower(h, k) => lower(g, k)
    BY <1>2
  <1>9. \A g, h \in G : g = h \/ lower(g, h) \/ lower(h, g)
    BY <1>2, <1>3
  <1> HIDE DEF lower
  <1>10. Orders(ApprovalOrder(d, o, G), G)
    BY <1>6, <1>7, <1>8, <1>9 DEF Orders
  <1>11. QED
    BY <1>10 DEF G

\* Where no two approvals tie, the order of the query does not matter.
LEMMA OneOrderSuffices ==
    ASSUME NEW d, IsTimecards(d), NEW B \in SUBSET d.entries,
           NEW o, IsOrder(o, d), NEW t, IsOrder(t, d),
           \A g, h \in Hours!GroupByApproval(B) :
               Hours!SortKey(d, g) = Hours!SortKey(d, h) => g = h
    PROVE  Hours!InOrder(d, o, Hours!GroupByApproval(B))
               = Hours!InOrder(d, t, Hours!GroupByApproval(B))
  <1> DEFINE G == Hours!GroupByApproval(B)
             first(g) == Hours!FirstDay(g)
             title(g) == Owner(d, g).title
             handle(g) == Owner(d, g).handle
             sooner(g, h) ==
                \/ title(g) < title(h)
                \/ title(g) = title(h) /\ handle(g) < handle(h)
                \/ title(g) = title(h) /\ handle(g) = handle(h) /\ first(g) < first(h)
             tied(g, h) == title(g) = title(h) /\ handle(g) = handle(h) /\ first(g) = first(h)
  <1>1. ASSUME NEW g \in G, NEW h \in G, tied(g, h)
        PROVE  g = h
    <2>1. Hours!SortKey(d, g) = Hours!SortKey(d, h)
      BY <1>1, SortKeyIs
    <2>2. QED
      BY <2>1
  <1>2. ASSUME NEW g \in G, NEW h \in G, NEW u
        PROVE  Hours!Before(d, u, g, h) <=>
                   \/ sooner(g, h)
                   \/ tied(g, h) /\ u[Hours!FirstEntry(g).id] < u[Hours!FirstEntry(h).id]
    BY BeforeIs
  <1> HIDE DEF G, sooner, tied
  <1>3. ASSUME NEW g \in G
        PROVE  Hours!Place(d, o, G, g) = Hours!Place(d, t, G, g)
    <2>1. {h \in G : h = g \/ Hours!Before(d, o, h, g)}
              = {h \in G : h = g \/ Hours!Before(d, t, h, g)}
      BY <1>1, <1>2
    <2>2. QED
      BY <2>1, Zenon DEF Hours!Place
  <1> DEFINE N == 1..Hours!Cardinality(G)
             at(u, n) == CHOOSE g \in G : Hours!Place(d, u, G, g) = n
  <1>4. \A n : at(o, n) = at(t, n)
    BY <1>3
  <1>6. /\ Hours!InOrder(d, o, G) = [n \in N |-> at(o, n)]
        /\ Hours!InOrder(d, t, G) = [n \in N |-> at(t, n)]
    BY Zenon DEF Hours!InOrder
  <1> HIDE DEF at, N
  <1>5. [n \in N |-> at(o, n)] = [n \in N |-> at(t, n)]
    BY <1>4
  <1>7. QED
    BY <1>5, <1>6 DEF G

\* The list of approvals has every approval once.
LEMMA ApprovalsAreListed ==
    ASSUME NEW d, IsTimecards(d), NEW B \in SUBSET d.entries, NEW o, IsOrder(o, d)
    PROVE  Lists(Hours!InOrder(d, o, Hours!GroupByApproval(B)), Hours!GroupByApproval(B))
  <1> DEFINE G == Hours!GroupByApproval(B)
             R == ApprovalOrder(d, o, G)
             N == Cardinality(G)
             s == Hours!InOrder(d, o, G)
             place(g) == Hours!Place(d, o, G, g)
  <1>1. IsFiniteSet(G)
    <2>1. IsFiniteSet(B)
      BY FS_Subset DEF IsTimecards
    <2>2. QED
      BY <2>1, GroupsSplit
  <1>2. Orders(R, G)
    BY ApprovalsAreOrdered
  <1>3. N \in Nat
    BY <1>1, FS_CardinalityType
  <1> HIDE DEF G
  <1>4. HasPlaces(R, G)
    BY <1>1, <1>2, OrderGivesPlaces
  <1>5. ASSUME NEW g \in G
        PROVE  place(g) = Cardinality(Through(R, G, g))
    <2>1. {h \in G : h = g \/ Hours!Before(d, o, h, g)} = Through(R, G, g)
      BY DEF Through, ApprovalOrder
    <2>2. place(g) = Cardinality({h \in G : h = g \/ Hours!Before(d, o, h, g)})
      BY HourSizesAre, Zenon DEF Hours!Place
    <2>3. QED
      BY <2>1, <2>2
  <1> HIDE DEF R, place
  <1>6. /\ \A g \in G : place(g) \in 1..N
        /\ \A g, h \in G : place(g) = place(h) => g = h
        /\ \A n \in 1..N : \E g \in G : place(g) = n
    BY <1>4, <1>5 DEF HasPlaces
  <1>7. s = [n \in 1..N |-> CHOOSE g \in G : place(g) = n]
    BY HourSizesAre, Zenon DEF Hours!InOrder, place
  <1> HIDE DEF N, s
  <1>8. \A n \in 1..N : s[n] \in G /\ place(s[n]) = n
    BY <1>6, <1>7
  <1>9. s \in [1..N -> G]
    BY <1>7, <1>8
  <1>10. s \in Seq(G) /\ Len(s) = N
    BY <1>3, <1>9
  <1>11. \A g \in G : s[place(g)] = g
    BY <1>6, <1>8
  <1>12. QED
    BY <1>6, <1>8, <1>10, <1>11 DEF Lists, s, G

\* A request for the approved list, and for the list of assignees.
IsHourQuery(q) ==
    /\ {"engagement", "assignee", "excludeTestProjects", "page", "perPage", "status",
        "from", "to", "manager"} \subseteq DOMAIN q
    /\ q.perPage \in Nat \ {0}

ProjectsOf(caller) == IF caller.admin THEN None ELSE caller.projects

\* Every row of W is of one of the approvals G, and every approval has one.
Shows(d, W, G) ==
    \E f \in [W -> G] :
        /\ \A r, t \in W : f[r] = f[t] => r = t
        /\ \A g \in G : \E r \in W : f[r] = g
        /\ \A r \in W : r.row = Hours!ToRow(d, f[r]) /\ r.hours = r.row.hours

\* The requests for the pages met one order of the entries, or no tie.
FitTogether(d, caller, q, orders) ==
    LET G == Hours!GroupByApproval(Hours!Backlog(d, q, ProjectsOf(caller)))
    IN  Hours!InOneOrder(d, G, orders, Hours!TotalPages(Hours!Cardinality(G), q.perPage))

\* The pages of the approved list show every approval of the backlog once.
LEMMA ApprovalsAreShown ==
    ASSUME NEW d, IsTimecards(d), NEW caller, caller.admin \/ caller.tm,
           NEW q, IsHourQuery(q), NEW orders, \A p \in Nat \ {0} : IsOrder(orders[p], d),
           FitTogether(d, caller, q, orders)
    PROVE  Shows(d, Hours!AllRows(d, caller, q, orders),
                 Hours!GroupByApproval(Hours!Backlog(d, q, ProjectsOf(caller))))
  <1> DEFINE P == ProjectsOf(caller)
             B == Hours!Backlog(d, q, P)
             G == Hours!GroupByApproval(B)
             W == Hours!AllRows(d, caller, q, orders)
             s == Hours!InOrder(d, orders[1], G)
             pages == Hours!TotalPages(Len(s), q.perPage)
             size == q.perPage
             paged(p) == [q EXCEPT !.page = p]
             answer(p) == Hours!FindApprovedTimesheets(d, caller, paged(p), orders[p])
             shown(p) == Hours!Page(s, p, size)
             rows(p) == {[page |-> p, at |-> i, row |-> answer(p).data[i],
                          hours |-> answer(p).data[i].hours] : i \in DOMAIN answer(p).data}
  <1>1. W = UNION {rows(p) : p \in 1..answer(1).totalPages}
    BY Zenon DEF Hours!AllRows
  <1>2. ASSUME NEW p
        PROVE  /\ Hours!Backlog(d, paged(p), P) = B
               /\ paged(p).page = p /\ paged(p).perPage = size
    <2>1. /\ paged(p).page = p /\ paged(p).perPage = size
          /\ paged(p).engagement = q.engagement /\ paged(p).assignee = q.assignee
          /\ paged(p).excludeTestProjects = q.excludeTestProjects
      BY DEF IsHourQuery
    <2> HIDE DEF P, paged
    <2>2. \A a : Hours!Listed(a, paged(p), P) <=> Hours!Listed(a, q, P)
      BY <2>1 DEF Hours!Listed
    <2>3. QED
      BY <2>1, <2>2 DEF Hours!Backlog
  <1> HIDE DEF paged
  <1>3. ASSUME P = {}
        PROVE  W = {} /\ G = {}
    <2>2. ~caller.admin
      BY <1>3, NoneIsNoAnswer DEF ProjectsOf
    <2>3. \A p : answer(p).totalPages = 0
      BY <1>3, <2>2 DEF Hours!FindApprovedTimesheets, ProjectsOf
    <2>4. W = {}
      BY <1>1, <2>3
    <2>5. \A a : ~Hours!Listed(a, q, P)
      BY <1>3, NoneIsNoAnswer DEF Hours!Listed
    <2>6. B = {}
      BY <2>5 DEF Hours!Backlog
    <2>7. G = {}
      BY <2>6 DEF Hours!GroupByApproval
    <2>8. QED
      BY <2>4, <2>7
  <1>5. Lists(s, G)
    <2>1. B \in SUBSET d.entries
      BY DEF Hours!Backlog, Hours!Unpaid, Hours!Approved
    <2>2. IsOrder(orders[1], d)
      OBVIOUS
    <2> HIDE DEF B
    <2>3. QED
      BY <2>1, <2>2, ApprovalsAreListed
  <1>10. ASSUME NEW p \in {1} \union (1..pages)
         PROVE  Hours!InOrder(d, orders[p], G) = s
    <2>1. B \in SUBSET d.entries
      BY DEF Hours!Backlog, Hours!Unpaid, Hours!Approved
    <2>2. Hours!InOneOrder(d, G, orders, Hours!TotalPages(Hours!Cardinality(G), size))
      BY Zenon DEF FitTogether
    <2>3. Len(s) = Hours!Cardinality(G)
      <3>1. IsFiniteSet(G)
        <4>1. IsFiniteSet(B)
          BY <2>1, FS_Subset DEF IsTimecards
        <4>2. QED
          BY <4>1, GroupsSplit
      <3>2. Cardinality(G) \in Nat
        BY <3>1, FS_CardinalityType
      <3> DEFINE place(g) == Hours!Place(d, orders[1], G, g)
      <3>3. s = [n \in 1..Cardinality(G) |-> CHOOSE g \in G : place(g) = n]
        BY HourSizesAre, Zenon DEF Hours!InOrder
      <3> HIDE DEF G, s, place
      <3>4. DOMAIN s = 1..Cardinality(G) /\ s \in Seq(G)
        BY <1>5, <3>3 DEF Lists
      <3>5. QED
        BY <3>2, <3>4, HourSizesAre
    <2>4. IsOrder(orders[1], d) /\ (p \in Nat \ {0} => IsOrder(orders[p], d))
      OBVIOUS
    <2> HIDE DEF s
    <2>5. pages = Hours!TotalPages(Hours!Cardinality(G), size)
      BY <2>3
    <2> HIDE DEF pages
    <2>6. p = 1 \/ (p \in 1..pages /\ p \in Nat \ {0})
      OBVIOUS
    <2> USE DEF s
    <2>7. CASE p = 1
      BY <2>7
    <2>8. CASE p \in 1..pages /\ p \in Nat \ {0} /\ orders[p] = orders[1]
      BY <2>8
    <2>9. CASE /\ p \in 1..pages /\ p \in Nat \ {0}
               /\ \A g, h \in G : Hours!SortKey(d, g) = Hours!SortKey(d, h) => g = h
      <3> HIDE DEF B
      <3>1. QED
        BY <2>1, <2>4, <2>9, OneOrderSuffices
    <2> HIDE DEF s, G
    <2>10. QED
      BY <2>2, <2>5, <2>6, <2>7, <2>8, <2>9 DEF Hours!InOneOrder
  <1>4. ASSUME P # {}
        PROVE  \A p \in {1} \union (1..pages) :
                   /\ answer(p).data = [i \in DOMAIN shown(p) |-> Hours!ToRow(d, shown(p)[i])]
                   /\ answer(p).totalPages = Hours!TotalPages(Len(s), size)
    <2> SUFFICES ASSUME NEW p \in {1} \union (1..pages)
                 PROVE  /\ answer(p).data
                               = [i \in DOMAIN shown(p) |-> Hours!ToRow(d, shown(p)[i])]
                        /\ answer(p).totalPages = Hours!TotalPages(Len(s), size)
      OBVIOUS
    <2>1. Hours!InOrder(d, orders[p], Hours!GroupByApproval(Hours!Backlog(d, paged(p), P))) = s
      BY <1>2, <1>10
    <2>2. Hours!Page(s, paged(p).page, paged(p).perPage) = shown(p)
      BY <1>2
    <2>3. Hours!TotalPages(Len(s), paged(p).perPage) = Hours!TotalPages(Len(s), size)
      BY <1>2
    <2>4. P = IF caller.admin THEN None ELSE caller.projects
      BY DEF ProjectsOf
    <2> HIDE DEF P, s, shown, pages
    <2>5. answer(p) = [data |-> [i \in DOMAIN shown(p) |-> Hours!ToRow(d, shown(p)[i])],
                       totalCount |-> Len(s),
                       totalPages |-> Hours!TotalPages(Len(s), size)]
      BY <1>4, <2>1, <2>2, <2>3, <2>4 DEF Hours!FindApprovedTimesheets
    <2> HIDE DEF answer
    <2>6. QED
      BY <2>5
  <1>6. size \in Nat \ {0}
    BY DEF IsHourQuery
  <1>7. IsPaged(s, size)
    BY <1>5, <1>6, ListsArePaged DEF Lists
  <1>11. pages = Hours!TotalPages(Len(s), size)
    OBVIOUS
  <1> HIDE DEF G, s, W, size, answer, pages
  <1>8. ASSUME P # {}
        PROVE  Shows(d, W, G)
    <2> DEFINE total == Hours!TotalPages(Len(s), size)
               at(p, i) == size * (p - 1) + i
               f == [r \in W |-> s[at(r.page, r.at)]]
    <2>1. ASSUME NEW r \in W
          PROVE  /\ r.page \in 1..total /\ r.at \in DOMAIN shown(r.page)
                 /\ r = [page |-> r.page, at |-> r.at, row |-> r.row, hours |-> r.hours]
                 /\ r.row = Hours!ToRow(d, shown(r.page)[r.at])
                 /\ r.hours = r.row.hours
      <3>1. PICK p \in 1..total : r \in rows(p)
        BY <1>1, <1>4, <1>8, <1>11, <2>1
      <3> DEFINE data == [i \in DOMAIN shown(p) |-> Hours!ToRow(d, shown(p)[i])]
      <3>2. answer(p).data = data
        BY <1>4, <1>8, <1>11
      <3>3. PICK i \in DOMAIN shown(p) :
                r = [page |-> p, at |-> i, row |-> data[i], hours |-> data[i].hours]
        BY <3>1, <3>2
      <3> HIDE DEF shown
      <3>4. data[i] = Hours!ToRow(d, shown(p)[i])
        BY <3>3
      <3>5. QED
        BY <3>3, <3>4
    <2>2. ASSUME NEW r \in W
          PROVE  /\ r.at \in 1..size /\ at(r.page, r.at) \in 1..Len(s)
                 /\ shown(r.page)[r.at] = f[r]
      BY <1>7, <2>1 DEF IsPaged
    <2>3. f \in [W -> G]
      BY <1>5, <2>2 DEF Lists
    <2>4. \A r \in W : r.row = Hours!ToRow(d, f[r]) /\ r.hours = r.row.hours
      BY <2>1, <2>2
    <2>5. ASSUME NEW r \in W, NEW t \in W, f[r] = f[t]
          PROVE  r = t
      <3>1. at(r.page, r.at) = at(t.page, t.at)
        BY <1>5, <2>2, <2>5 DEF Lists
      <3>2. r.page \in Int /\ t.page \in Int
        BY <2>1
      <3>3. r.at \in 1..size /\ t.at \in 1..size
        BY <2>2
      <3>4. size * (r.page - 1) + r.at = size * (t.page - 1) + t.at
        BY <3>1
      <3>5. r.page = t.page /\ r.at = t.at
        BY <1>6, <3>2, <3>3, <3>4, PagesAreApart
      <3> HIDE DEF f, shown
      <3>6. r.row = t.row
        BY <2>4, <2>5
      <3>7. QED
        BY <2>1, <3>5, <3>6
    <2>6. ASSUME NEW g \in G
          PROVE  \E r \in W : f[r] = g
      <3>1. PICK n \in 1..Len(s) : s[n] = g
        BY <1>5 DEF Lists
      <3>2. PICK p \in 1..total : \E i \in DOMAIN shown(p) : n = at(p, i)
        BY <1>7 DEF IsPaged
      <3>3. PICK i \in DOMAIN shown(p) : n = at(p, i)
        BY <3>2
      <3>4. i \in DOMAIN answer(p).data
        BY <1>4, <1>8, <1>11, <3>3
      <3> DEFINE r == [page |-> p, at |-> i, row |-> answer(p).data[i],
                       hours |-> answer(p).data[i].hours]
      <3>5. r \in rows(p)
        BY <3>4
      <3>6. r \in W
        <4>1. p \in 1..answer(1).totalPages
          BY <1>4, <1>8
        <4> HIDE DEF r, rows
        <4>2. QED
          BY <1>1, <3>5, <4>1
      <3>7. r.page = p /\ r.at = i
        OBVIOUS
      <3> HIDE DEF r
      <3>8. f[r] = g
        BY <3>1, <3>3, <3>6, <3>7
      <3>9. QED
        BY <3>6, <3>8
    <2> HIDE DEF f
    <2>7. QED
      BY <2>3, <2>4, <2>5, <2>6 DEF Shows
  <1>9. ASSUME P = {}
        PROVE  Shows(d, W, G)
    <2> DEFINE f == [r \in W |-> r]
    <2>1. W = {} /\ G = {}
      BY <1>3, <1>9
    <2>2. f \in [W -> G]
      BY <2>1
    <2>3. QED
      BY <2>1, <2>2 DEF Shows
  <1>12. Shows(d, W, G)
    BY <1>8, <1>9
  <1>13. QED
    BY <1>12 DEF W, G

\* What a payment summary holds of an assignment.
IsSummary(d, a, viewer, from, to) ==
    LET all == Hours!InRange(Hours!Of(d, a), from, to)
        approved == Hours!Approved(all)
        summary == Hours!PaymentSummary(d, a, viewer, from, to)
    IN  /\ summary.entryIds = Hours!Ids(Hours!Unpaid(approved))
        /\ summary.totalHours = Hours!Hours(Hours!Unpaid(approved))
        /\ summary.approvedHours = Hours!Hours(approved)
        /\ summary.paidHours = Hours!Hours(all \ Hours!Unpaid(all))
        /\ summary.expectedHours = Hours!ExpectedHours(a, from, to)

LEMMA SummaryIs ==
    ASSUME NEW d, NEW a, NEW viewer, viewer # "Member",
           NEW from, NEW to, Hours!ValidRange(from, to)
    PROVE  IsSummary(d, a, viewer, from, to)
  BY DEF IsSummary, Hours!PaymentSummary

\* The approved list shares out the payable hours of every assignment, whatever the
\* database holds and whoever asks for however long pages.
THEOREM EveryBacklogAddsUp ==
    ASSUME NEW d, IsTimecards(d), NEW caller, caller.admin \/ caller.tm,
           NEW q, IsHourQuery(q), NEW orders, \A p \in Nat \ {0} : IsOrder(orders[p], d)
    PROVE  Hours!BacklogAddsUp(d, caller, q, orders)
  <1> SUFFICES ASSUME FitTogether(d, caller, q, orders)
               PROVE  Hours!BacklogAddsUp(d, caller, q, orders)
    BY Zenon DEF Hours!BacklogAddsUp, FitTogether, ProjectsOf
  <1> DEFINE P == ProjectsOf(caller)
             B == Hours!Backlog(d, q, P)
             G == Hours!GroupByApproval(B)
             W == Hours!AllRows(d, caller, q, orders)
             of(a) == {r \in W : r.row.assignmentId = a.id}
             all(a) == Hours!PaymentSummary(d, a, "Administrator", None, None)
             seen(a) == Hours!Listed(a, q, P)
             mine(a) == {e \in B : e.assignment = a.id}
  <1>1. IsFiniteSet(B) /\ B \in SUBSET d.entries
        /\ \A e \in B : e.status = "APPROVED" /\ e.payment = None
    <2>1. B \in SUBSET d.entries /\ \A e \in B : e.status = "APPROVED" /\ e.payment = None
      BY DEF Hours!Backlog, Hours!Unpaid, Hours!Approved
    <2> HIDE DEF B
    <2>2. QED
      BY <2>1, FS_Subset DEF IsTimecards
  <1>2. \A e \in B : \A a \in d.assignments : e.assignment = a.id => Hours!AssignmentOf(d, e) = a
    BY <1>1, OwnersAre
  <1>3. \A g \in G :
            /\ Owner(d, g) \in d.assignments
            /\ \A e \in g : e.assignment = Owner(d, g).id
    BY <1>1, OwnersAre
  <1>4. /\ \A g \in G : g \subseteq B /\ g # {} /\ IsFiniteSet(g)
        /\ \A e \in B : \E g \in G : e \in g
        /\ \A g, h \in G : g = h \/ g \cap h = {}
    BY <1>1, GroupsSplit
  <1>5. ASSUME NEW a \in d.assignments
        PROVE  /\ all(a).entryIds = Hours!Ids(Hours!Unpaid(Hours!Approved(Hours!Of(d, a))))
               /\ all(a).totalHours = Hours!Hours(Hours!Unpaid(Hours!Approved(Hours!Of(d, a))))
               /\ mine(a) = IF seen(a) THEN Hours!Unpaid(Hours!Approved(Hours!Of(d, a)))
                            ELSE {}
    <2>1. Hours!ValidRange(None, None)
      BY DEF Hours!ValidRange
    <2>2. Hours!InRange(Hours!Of(d, a), None, None) = Hours!Of(d, a)
      BY DEF Hours!InRange
    <2> DEFINE payable == Hours!Unpaid(Hours!Approved(Hours!Of(d, a)))
    <2>3. all(a).entryIds = Hours!Ids(payable) /\ all(a).totalHours = Hours!Hours(payable)
      <3> DEFINE every == Hours!InRange(Hours!Of(d, a), None, None)
      <3>1. /\ all(a).entryIds = Hours!Ids(Hours!Unpaid(Hours!Approved(every)))
            /\ all(a).totalHours = Hours!Hours(Hours!Unpaid(Hours!Approved(every)))
        <4>1. IsSummary(d, a, "Administrator", None, None)
          BY <2>1, SummaryIs
        <4>2. QED
          BY <4>1 DEF IsSummary
      <3> HIDE DEF every, all
      <3>2. QED
        BY <2>2, <3>1 DEF every
    <2>4. \A e \in d.entries : e.assignment = a.id => Hours!AssignmentOf(d, e) = a
      <3>1. d.entries \in SUBSET d.entries
        OBVIOUS
      <3>2. QED
        BY <3>1, OwnersAre
    <2> HIDE DEF P
    <2>5. mine(a) = IF seen(a) THEN payable ELSE {}
      BY <2>4 DEF Hours!Backlog, Hours!Unpaid, Hours!Approved, Hours!Of
    <2>6. QED
      BY <2>3, <2>5
  <1>6. PICK f \in [W -> G] :
            /\ \A r, t \in W : f[r] = f[t] => r = t
            /\ \A g \in G : \E r \in W : f[r] = g
            /\ \A r \in W : r.row = Hours!ToRow(d, f[r]) /\ r.hours = r.row.hours
    <2>1. Shows(d, W, G)
      BY ApprovalsAreShown
    <2> HIDE DEF W, G
    <2>2. QED
      BY <2>1 DEF Shows
  <1>7. ASSUME NEW r \in W
        PROVE  /\ r.row.assignmentId = Owner(d, f[r]).id
               /\ r.row.hoursLeft = Hours!ListHoursLeft(d, Owner(d, f[r]))
               /\ r.row.workPeriodStart = Hours!FirstDay(f[r])
               /\ r.row.workPeriodEnd = Hours!LastDay(f[r])
               /\ r.hours = Hours!Hours(f[r])
               /\ r.row.entryIds = Hours!Ids(f[r])
    <2>1. r.row = Hours!ToRow(d, f[r]) /\ r.hours = r.row.hours
      BY <1>6
    <2> HIDE DEF W
    <2>2. QED
      BY <2>1 DEF Hours!ToRow, Owner
  <1> HIDE DEF W, B, G, P
  <1>8. ASSUME NEW a \in d.assignments
        PROVE  /\ \A r \in of(a) : r \in W /\ f[r] \in G /\ f[r] \subseteq mine(a)
                                   /\ Owner(d, f[r]) = a
               /\ \A e \in mine(a) : \E r \in of(a) : e \in f[r]
    <2>1. ASSUME NEW r \in of(a)
          PROVE  r \in W /\ f[r] \in G /\ f[r] \subseteq mine(a) /\ Owner(d, f[r]) = a
      <3>1. r \in W /\ f[r] \in G /\ Owner(d, f[r]).id = a.id
        BY <1>6, <1>7
      <3>2. f[r] \subseteq mine(a)
        BY <1>3, <1>4, <3>1
      <3>3. Owner(d, f[r]) = a
        BY <1>3, <3>1 DEF IsTimecards
      <3>4. QED
        BY <3>1, <3>2, <3>3
    <2>2. ASSUME NEW e \in mine(a)
          PROVE  \E r \in of(a) : e \in f[r]
      <3>1. PICK g \in G : e \in g
        BY <1>4
      <3>2. PICK r \in W : f[r] = g
        BY <1>6
      <3>3. r.row.assignmentId = a.id
        BY <1>3, <1>7, <3>1, <3>2
      <3>4. QED
        BY <3>1, <3>2, <3>3
    <2>3. QED
      BY <2>1, <2>2
  <1>9. ASSUME NEW a \in d.assignments
        PROVE  UNION {r.row.entryIds : r \in of(a)} = IF seen(a) THEN all(a).entryIds ELSE {}
    <2>1. UNION {r.row.entryIds : r \in of(a)} = Hours!Ids(mine(a))
      <3> HIDE DEF mine
      <3>1. \A r \in of(a) : r.row.entryIds = Hours!Ids(f[r]) /\ f[r] \subseteq mine(a)
        BY <1>7, <1>8
      <3>2. \A e \in mine(a) : \E r \in of(a) : e \in f[r]
        BY <1>8
      <3> HIDE DEF of
      <3>3. ASSUME NEW i \in UNION {r.row.entryIds : r \in of(a)}
            PROVE  i \in Hours!Ids(mine(a))
        BY <3>1 DEF Hours!Ids
      <3>4. ASSUME NEW i \in Hours!Ids(mine(a))
            PROVE  i \in UNION {r.row.entryIds : r \in of(a)}
        <4>1. PICK e \in mine(a) : i = e.id
          BY DEF Hours!Ids
        <4>2. PICK r \in of(a) : e \in f[r]
          BY <3>2
        <4>3. i \in r.row.entryIds
          BY <3>1, <4>1, <4>2 DEF Hours!Ids
        <4>4. QED
          BY <4>3
      <3>5. QED
        BY <3>3, <3>4
    <2>2. Hours!Ids({}) = {}
      BY DEF Hours!Ids
    <2> HIDE DEF mine, all, seen, of
    <2>3. QED
      BY <1>5, <2>1, <2>2
  <1>10. ASSUME NEW a \in d.assignments
         PROVE  Hours!Hours(of(a)) = Hours!Hours(mine(a))
    <2> DEFINE O == of(a)
               M == mine(a)
               U == Hours!HoursOf(M)
               F == [r \in O |-> Hours!HoursOf(f[r])]
    <2>1. IsFiniteSet(M) /\ \A e \in M : e.hours \in Nat
      <3>1. M \in SUBSET B
        OBVIOUS
      <3> HIDE DEF M
      <3>2. QED
        BY <1>1, <3>1, FS_Subset DEF IsTimecards
    <2>2. /\ \A r \in O : r \in W /\ f[r] \in G /\ f[r] \subseteq M
          /\ \A e \in M : \E r \in O : e \in f[r]
      BY <1>8
    <2> HIDE DEF O, M
    <2>3. IsFiniteSet(U) /\ Hours!Hours(M) = Cardinality(U)
      BY <2>1, HoursAreFinite
    <2>4. ASSUME NEW r \in O
          PROVE  F[r] \in SUBSET U /\ r.hours = Cardinality(F[r])
      <3>1. IsFiniteSet(f[r]) /\ \A e \in f[r] : e.hours \in Nat
        BY <1>4, <2>1, <2>2
      <3>2. Hours!Hours(f[r]) = Cardinality(Hours!HoursOf(f[r]))
        BY <3>1, HoursAreFinite
      <3>3. Hours!HoursOf(f[r]) \subseteq U
        BY <2>2 DEF Hours!HoursOf
      <3>4. r.hours = Hours!Hours(f[r])
        BY <1>7, <2>2
      <3>5. QED
        BY <3>2, <3>3, <3>4
    <2>5. F \in [O -> SUBSET U]
      BY <2>4
    <2>6. ASSUME NEW r \in O, NEW t \in O, r # t
          PROVE  F[r] \cap F[t] = {}
      <3>1. f[r] \cap f[t] = {}
        BY <1>4, <1>6, <2>2, <2>6
      <3>2. \A h \in F[r] : h[1] \in f[r]
        BY HourIs
      <3>3. \A h \in F[t] : h[1] \in f[t]
        BY HourIs
      <3> HIDE DEF F
      <3>4. QED
        BY <3>1, <3>2, <3>3
    <2>7. ASSUME NEW u \in U
          PROVE  \E r \in O : u \in F[r]
      <3>1. PICK e \in M : u[1] = e /\ u[2] \in 1..e.hours /\ u = <<u[1], u[2]>>
        BY HourIs
      <3>2. PICK r \in O : e \in f[r]
        BY <2>2
      <3>3. u \in Hours!HoursOf(f[r])
        BY <3>1, <3>2, HourIs
      <3>4. QED
        BY <3>3
    <2> HIDE DEF F, U
    <2>8. Hours!Hours(O) = Cardinality(U)
      BY <2>3, <2>4, <2>5, <2>6, <2>7, HoursAreShared
    <2>9. QED
      BY <2>3, <2>8 DEF O, M
  <1>11. ASSUME NEW a \in d.assignments
         PROVE  Hours!Hours(of(a)) = IF seen(a) THEN all(a).totalHours ELSE 0
    <2>1. Hours!Hours({}) = 0
      <3>1. Hours!HoursOf({}) = {}
        BY DEF Hours!HoursOf
      <3>2. QED
        BY <3>1, HourSizesAre, FS_EmptySet DEF Hours!Hours
    <2> HIDE DEF mine, all, seen, of
    <2>2. QED
      BY <1>5, <1>10, <2>1
  <1>12. ASSUME NEW a \in d.assignments, NEW r \in of(a)
         PROVE  /\ r.row.entryIds \subseteq
                       Hours!PaymentSummary(d, a, "Tm", r.row.workPeriodStart,
                                            r.row.workPeriodEnd).entryIds
                /\ d.unread = {} =>
                       r.row.hoursLeft = Hours!TimesheetHoursLeft(d, a, "Administrator")
    <2> DEFINE g == f[r]
               from == Hours!FirstDay(g)
               to == Hours!LastDay(g)
    <2>1. r \in W /\ g \in G /\ g \subseteq mine(a) /\ Owner(d, g) = a
      BY <1>8
    <2>2. g \in SUBSET d.entries /\ g # {}
      BY <1>1, <1>4, <2>1
    <2> HIDE DEF g
    <2>3. /\ from \in Int /\ to \in Int /\ from <= to
          /\ \A e \in g : from <= e.workDate /\ e.workDate <= to
      BY <2>2, DaysAre
    <2> HIDE DEF from, to
    <2>4. Hours!ValidRange(from, to)
      BY <2>3 DEF Hours!ValidRange
    <2> DEFINE payable == Hours!Unpaid(Hours!Approved(Hours!InRange(Hours!Of(d, a), from, to)))
    <2>5. Hours!PaymentSummary(d, a, "Tm", from, to).entryIds = Hours!Ids(payable)
      <3>1. IsSummary(d, a, "Tm", from, to)
        BY <2>4, SummaryIs
      <3>2. QED
        BY <3>1 DEF IsSummary
    <2>6. g \subseteq payable
      BY <1>1, <2>1, <2>2, <2>3 DEF Hours!Unpaid, Hours!Approved, Hours!InRange, Hours!Of
    <2>7. Hours!Ids(g) \subseteq Hours!Ids(payable)
      BY <2>6 DEF Hours!Ids
    <2>8. d.unread = {} =>
              Hours!ListHoursLeft(d, a) = Hours!TimesheetHoursLeft(d, a, "Administrator")
      BY DEF Hours!ListHoursLeft, Hours!TimesheetHoursLeft, Hours!ProcessedHours
    <2>9. QED
      BY <1>7, <2>1, <2>5, <2>7, <2>8 DEF g, from, to
  <1> HIDE DEF seen, all, of
  <1>13. QED
    BY <1>9, <1>11, <1>12 DEF Hours!BacklogAddsUp, seen, all, of, W, P, ProjectsOf

\* The weekdays of a period on which an assignment runs.
Workdays(a, from, to) ==
    {n \in from..to : /\ a.startDate # None => a.startDate <= n
                      /\ a.endDate # None => n <= a.endDate
                      /\ Hours!Weekday(n)}

\* The rounding of a sum is at most one off the sum of the roundings, and is exact on
\* whole hundredths.
LEMMA RoundedIs ==
    /\ \A x \in Nat : Hours!Rounded(x) \in Nat
    /\ Hours!Rounded(0) = 0
    /\ \A x, y \in Nat :
           Hours!Rounded(x + y) - (Hours!Rounded(x) + Hours!Rounded(y)) \in -1..1
    /\ \A x \in Nat : Hours!Rounded(5 * x) = x
  <1>1. ASSUME NEW x \in Nat
        PROVE  /\ Hours!Rounded(x) \in Nat
               /\ 10 * Hours!Rounded(x) <= 2 * x + 5
               /\ 2 * x + 5 < 10 * Hours!Rounded(x) + 10
    <2>1. 2 * x + 5 \in Nat
      OBVIOUS
    <2>2. QED
      BY <2>1, Division DEF Hours!Rounded
  <1>2. ASSUME NEW x \in Nat, NEW y \in Nat
        PROVE  Hours!Rounded(x + y) - (Hours!Rounded(x) + Hours!Rounded(y)) \in -1..1
    <2> DEFINE r == Hours!Rounded(x)
               s == Hours!Rounded(y)
               t == Hours!Rounded(x + y)
    <2>1. /\ r \in Nat /\ 10 * r <= 2 * x + 5 /\ 2 * x + 5 < 10 * r + 10
          /\ s \in Nat /\ 10 * s <= 2 * y + 5 /\ 2 * y + 5 < 10 * s + 10
      BY <1>1
    <2>2. t \in Nat /\ 10 * t <= 2 * (x + y) + 5 /\ 2 * (x + y) + 5 < 10 * t + 10
      <3>1. x + y \in Nat
        OBVIOUS
      <3>2. QED
        BY <1>1, <3>1
    <2> HIDE DEF r, s, t
    <2>3. t - (r + s) \in -1..1
      BY <2>1, <2>2
    <2>4. QED
      BY <2>3 DEF r, s, t
  <1>3. ASSUME NEW x \in Nat
        PROVE  Hours!Rounded(5 * x) = x
    <2> DEFINE y == 5 * x
               r == Hours!Rounded(y)
    <2>1. y \in Nat /\ y = 5 * x
      OBVIOUS
    <2> HIDE DEF y
    <2>2. r \in Nat /\ 10 * r <= 2 * y + 5 /\ 2 * y + 5 < 10 * r + 10
      BY <1>1, <2>1
    <2> HIDE DEF r
    <2>3. r = x
      BY <2>1, <2>2
    <2>4. QED
      BY <2>3 DEF r, y
  <1>4. Hours!Rounded(0) = 0
    BY <1>1
  <1>5. QED
    BY <1>1, <1>2, <1>3, <1>4

\* What is expected of a period are the standard hours of its workdays, rounded.
LEMMA ExpectedIs ==
    ASSUME NEW a, IsHolder(a), NEW from \in Int, NEW to \in Int
    PROVE  /\ IsFiniteSet(Workdays(a, from, to)) /\ Cardinality(Workdays(a, from, to)) \in Nat
           /\ Hours!FifthsPerDay(a) # None => Hours!FifthsPerDay(a) \in Nat
           /\ Hours!OrZero(Hours!ExpectedHours(a, from, to)) =
                  IF Hours!FifthsPerDay(a) = None THEN 0
                  ELSE Hours!Rounded(Hours!FifthsPerDay(a) * Cardinality(Workdays(a, from, to)))
  <1> DEFINE h == Hours!FifthsPerDay(a)
             start == IF a.startDate = None THEN from ELSE Hours!Max({from, a.startDate})
             end == IF a.endDate = None THEN to ELSE Hours!Min({to, a.endDate})
             days == {n \in start..end : Hours!Weekday(n)}
             W == Workdays(a, from, to)
  <1>1. h # None => h \in Nat
    BY DEF Hours!FifthsPerDay, IsHolder
  <1>2. IsFiniteSet(W) /\ Cardinality(W) \in Nat
    <2>1. IsFiniteSet(from..to)
      BY FS_Interval
    <2>2. W \in SUBSET (from..to)
      BY DEF Workdays
    <2>3. IsFiniteSet(W)
      BY <2>1, <2>2, FS_Subset
    <2>4. QED
      BY <2>3, FS_CardinalityType
  <1>3. /\ start \in Int /\ end \in Int
        /\ \A n \in Int : start <= n <=> from <= n /\ (a.startDate # None => a.startDate <= n)
        /\ \A n \in Int : n <= end <=> n <= to /\ (a.endDate # None => n <= a.endDate)
    <2>1. /\ a.startDate # None => a.startDate \in Int
          /\ a.endDate # None => a.endDate \in Int
      BY DEF IsHolder
    <2>2. a.startDate # None =>
              start = IF from <= a.startDate THEN a.startDate ELSE from
      BY <2>1, OfTwo
    <2>3. a.endDate # None => end = IF to <= a.endDate THEN to ELSE a.endDate
      BY <2>1, OfTwo
    <2>4. a.startDate = None => start = from
      OBVIOUS
    <2>5. a.endDate = None => end = to
      OBVIOUS
    <2> HIDE DEF start, end
    <2>6. QED
      BY <2>1, <2>2, <2>3, <2>4, <2>5
  <1>4. days = W
    <2> HIDE DEF start, end
    <2>1. QED
      BY <1>3 DEF Workdays
  <1>5. start > end => W = {}
    <2> HIDE DEF start, end, W
    <2>1. QED
      BY <1>3, <1>4
  <1>6. Hours!Cardinality(days) = Cardinality(W)
    BY <1>4, HourSizesAre
  <1>7. Hours!ExpectedHours(a, from, to) =
            IF h = None \/ h = 0 \/ start > end THEN None
            ELSE Hours!Rounded(h * Cardinality(W))
    <2>1. from # None /\ to # None
      BY NoneIsNoAnswer
    <2>2. Hours!ExpectedHours(a, from, to) =
              IF None \in {from, to, h} \/ h = 0 THEN None
              ELSE IF start > end THEN None
              ELSE Hours!Rounded(h * Hours!Cardinality(days))
      BY Zenon DEF Hours!ExpectedHours
    <2> HIDE DEF h, start, end, days, W
    <2>3. QED
      BY <1>6, <2>1, <2>2
  <1>8. W = {} => Cardinality(W) = 0
    BY FS_EmptySet
  <1> HIDE DEF h, start, end, W
  <1>9. QED
    <2> DEFINE c == Cardinality(W)
    <2>1. c \in Nat
      BY <1>2
    <2>2. start > end => c = 0
      BY <1>5, <1>8
    <2> HIDE DEF c
    <2>3. h # None => h * c \in Nat
      BY <1>1, <2>1
    <2>4. h # None /\ (h = 0 \/ start > end) => h * c = 0
      BY <1>1, <2>1, <2>2
    <2> DEFINE e == Hours!Rounded(h * c)
    <2>5. (h # None => e \in Nat) /\ (h # None /\ (h = 0 \/ start > end) => e = 0)
      BY <2>3, <2>4, RoundedIs
    <2> HIDE DEF e
    <2>7. Hours!OrZero(IF h = None \/ h = 0 \/ start > end THEN None ELSE e) =
              IF h = None THEN 0 ELSE e
      BY <2>5, NoneIsNoAnswer DEF Hours!OrZero
    <2>6. QED
      BY <1>1, <1>2, <1>7, <2>7 DEF c, h, W, e

\* A period cut in two has the hours of its parts, whatever the database holds; the
\* rounding of the expected hours is at most one hundredth.
THEOREM EveryPeriodAddsUp ==
    ASSUME NEW d, IsTimecards(d), NEW from \in Int, NEW to \in Int, NEW cut \in from..to - 1
    PROVE  Hours!PeriodsAddUp(d, from, to, cut)
  <1> SUFFICES ASSUME NEW a \in d.assignments
               PROVE  LET gap(f) ==
                              Hours!OrZero(Hours!PaymentSummary(d, a, "Manager", from, to)[f])
                              - (Hours!OrZero(Hours!PaymentSummary(d, a, "Manager", from, cut)[f])
                                 + Hours!OrZero(Hours!PaymentSummary(d, a, "Manager", cut + 1, to)[f]))
                      IN  /\ \A f \in {"totalHours", "approvedHours", "paidHours"} : gap(f) = 0
                          /\ gap("expectedHours") \in IF a.perDay = None THEN -1..1 ELSE {0}
    BY DEF Hours!PeriodsAddUp
  <1> DEFINE E == Hours!Of(d, a)
             whole == Hours!InRange(E, from, to)
             first == Hours!InRange(E, from, cut)
             second == Hours!InRange(E, cut + 1, to)
             sum(k, l) == Hours!PaymentSummary(d, a, "Manager", k, l)
             gap(x) == Hours!OrZero(sum(from, to)[x])
                       - (Hours!OrZero(sum(from, cut)[x]) + Hours!OrZero(sum(cut + 1, to)[x]))
  <1>1. cut \in Int /\ cut + 1 \in Int /\ from <= cut /\ cut + 1 <= to
        /\ None \notin {from, cut, cut + 1, to}
    BY NoneIsNoAnswer
  <1>2. /\ Hours!ValidRange(from, to) /\ Hours!ValidRange(from, cut)
        /\ Hours!ValidRange(cut + 1, to)
    BY <1>1 DEF Hours!ValidRange
  <1>3. ASSUME NEW k, NEW l, Hours!ValidRange(k, l)
        PROVE  LET all == Hours!InRange(E, k, l) IN
               /\ sum(k, l)["totalHours"] = Hours!Hours(Hours!Unpaid(Hours!Approved(all)))
               /\ sum(k, l)["approvedHours"] = Hours!Hours(Hours!Approved(all))
               /\ sum(k, l)["paidHours"] = Hours!Hours(all \ Hours!Unpaid(all))
               /\ sum(k, l)["expectedHours"] = Hours!ExpectedHours(a, k, l)
    <2>1. IsSummary(d, a, "Manager", k, l)
      BY <1>3, SummaryIs
    <2>2. QED
      BY <2>1 DEF IsSummary
  <1> HIDE DEF sum
  <1>4. IsFiniteSet(E) /\ \A e \in E : e.hours \in Nat /\ e.workDate \in Int
    <2>1. E \in SUBSET d.entries
      BY DEF Hours!Of
    <2> HIDE DEF E
    <2>2. QED
      BY <2>1, FS_Subset DEF IsTimecards
  <1> HIDE DEF E
  <1>5. /\ whole = {e \in E : from <= e.workDate /\ e.workDate <= to}
        /\ first = {e \in E : from <= e.workDate /\ e.workDate <= cut}
        /\ second = {e \in E : cut + 1 <= e.workDate /\ e.workDate <= to}
    BY <1>1 DEF Hours!InRange
  <1> HIDE DEF whole, first, second
  <1>6. ASSUME NEW S, NEW T, NEW U, S \in SUBSET first, T \in SUBSET second, U = S \union T
        PROVE  /\ Hours!Hours(U) = Hours!Hours(S) + Hours!Hours(T)
               /\ {Hours!Hours(U), Hours!Hours(S), Hours!Hours(T)} \subseteq Nat
    <2>1. S \in SUBSET E /\ T \in SUBSET E
      BY <1>5, <1>6
    <2>2. IsFiniteSet(S) /\ IsFiniteSet(T)
      BY <1>4, <2>1, FS_Subset
    <2>3. S \cap T = {}
      BY <1>1, <1>4, <1>5, <1>6
    <2>4. \A x \in S \union T : x.hours \in Nat
      BY <1>4, <2>1
    <2>5. Hours!Hours(S \union T) = Hours!Hours(S) + Hours!Hours(T)
      BY <2>2, <2>3, <2>4, HoursAreAdded
    <2>6. Hours!Hours(S) \in Nat /\ Hours!Hours(T) \in Nat
      BY <2>2, <2>4, HoursAreFinite, FS_CardinalityType
    <2>7. Hours!Hours(U) = Hours!Hours(S \union T)
      BY <1>6
    <2>8. QED
      BY <2>5, <2>6, <2>7
  <1>7. whole = first \union second
    BY <1>1, <1>4, <1>5
  <1>8. gap("totalHours") = 0
    <2> DEFINE of(X) == Hours!Unpaid(Hours!Approved(X))
    <2>1. of(first) \in SUBSET first /\ of(second) \in SUBSET second
          /\ of(whole) = of(first) \union of(second)
      BY <1>7 DEF Hours!Unpaid, Hours!Approved
    <2>2. /\ sum(from, to)["totalHours"] = Hours!Hours(of(whole))
          /\ sum(from, cut)["totalHours"] = Hours!Hours(of(first))
          /\ sum(cut + 1, to)["totalHours"] = Hours!Hours(of(second))
      BY <1>2, <1>3 DEF whole, first, second
    <2> HIDE DEF of
    <2>3. /\ Hours!Hours(of(whole)) = Hours!Hours(of(first)) + Hours!Hours(of(second))
          /\ {Hours!Hours(of(whole)), Hours!Hours(of(first)), Hours!Hours(of(second))} \subseteq Nat
      BY <1>6, <2>1
    <2>4. QED
      BY <2>2, <2>3, NoneIsNoAnswer DEF Hours!OrZero
  <1>9. gap("approvedHours") = 0
    <2> DEFINE of(X) == Hours!Approved(X)
    <2>1. of(first) \in SUBSET first /\ of(second) \in SUBSET second
          /\ of(whole) = of(first) \union of(second)
      BY <1>7 DEF Hours!Approved
    <2>2. /\ sum(from, to)["approvedHours"] = Hours!Hours(of(whole))
          /\ sum(from, cut)["approvedHours"] = Hours!Hours(of(first))
          /\ sum(cut + 1, to)["approvedHours"] = Hours!Hours(of(second))
      BY <1>2, <1>3 DEF whole, first, second
    <2> HIDE DEF of
    <2>3. /\ Hours!Hours(of(whole)) = Hours!Hours(of(first)) + Hours!Hours(of(second))
          /\ {Hours!Hours(of(whole)), Hours!Hours(of(first)), Hours!Hours(of(second))} \subseteq Nat
      BY <1>6, <2>1
    <2>4. QED
      BY <2>2, <2>3, NoneIsNoAnswer DEF Hours!OrZero
  <1>10. gap("paidHours") = 0
    <2> DEFINE of(X) == X \ Hours!Unpaid(X)
    <2>1. of(first) \in SUBSET first /\ of(second) \in SUBSET second
          /\ of(whole) = of(first) \union of(second)
      BY <1>7 DEF Hours!Unpaid
    <2>2. /\ sum(from, to)["paidHours"] = Hours!Hours(of(whole))
          /\ sum(from, cut)["paidHours"] = Hours!Hours(of(first))
          /\ sum(cut + 1, to)["paidHours"] = Hours!Hours(of(second))
      BY <1>2, <1>3 DEF whole, first, second
    <2> HIDE DEF of
    <2>3. /\ Hours!Hours(of(whole)) = Hours!Hours(of(first)) + Hours!Hours(of(second))
          /\ {Hours!Hours(of(whole)), Hours!Hours(of(first)), Hours!Hours(of(second))} \subseteq Nat
      BY <1>6, <2>1
    <2>4. QED
      BY <2>2, <2>3, NoneIsNoAnswer DEF Hours!OrZero
  <1>11. gap("expectedHours") \in IF a.perDay = None THEN -1..1 ELSE {0}
    <2> DEFINE h == Hours!FifthsPerDay(a)
               A == Workdays(a, from, to)
               F == Workdays(a, from, cut)
               T == Workdays(a, cut + 1, to)
               rounded(x) == Hours!Rounded(x)
               expected(k, l) == Hours!OrZero(Hours!ExpectedHours(a, k, l))
    <2>1. gap("expectedHours") = expected(from, to) - (expected(from, cut) + expected(cut + 1, to))
      <3>1. /\ sum(from, to)["expectedHours"] = Hours!ExpectedHours(a, from, to)
            /\ sum(from, cut)["expectedHours"] = Hours!ExpectedHours(a, from, cut)
            /\ sum(cut + 1, to)["expectedHours"] = Hours!ExpectedHours(a, cut + 1, to)
        BY <1>2, <1>3
      <3>2. QED
        BY <3>1
    <2>2. IsHolder(a)
      BY DEF IsTimecards
    <2>3. /\ IsFiniteSet(F) /\ IsFiniteSet(T)
          /\ Cardinality(F) \in Nat /\ Cardinality(T) \in Nat
          /\ h # None => h \in Nat
          /\ expected(from, to) = IF h = None THEN 0 ELSE rounded(h * Cardinality(A))
          /\ expected(from, cut) = IF h = None THEN 0 ELSE rounded(h * Cardinality(F))
          /\ expected(cut + 1, to) = IF h = None THEN 0 ELSE rounded(h * Cardinality(T))
      BY <1>1, <2>2, ExpectedIs
    <2>4. A = F \union T /\ F \cap T = {}
      BY <1>1 DEF Workdays
    <2>5. a.perDay # None => a.perDay \in Nat /\ h = 5 * a.perDay /\ h # None
      BY <2>2, NoneIsNoAnswer DEF IsHolder, Hours!FifthsPerDay
    <2> HIDE DEF A, F, T, h, expected, rounded
    <2>6. Cardinality(A) = Cardinality(F) + Cardinality(T)
      <3>1. Cardinality(F \union T) = Cardinality(F) + Cardinality(T) - Cardinality({})
        BY <2>3, <2>4, FS_Union
      <3>2. Cardinality({}) = 0
        BY FS_EmptySet
      <3>3. Cardinality(A) = Cardinality(F \union T)
        BY <2>4
      <3>4. QED
        BY <2>3, <3>1, <3>2, <3>3
    <2> DEFINE f == Cardinality(F)
               t == Cardinality(T)
    <2>7. f \in Nat /\ t \in Nat /\ Cardinality(A) = f + t
      BY <2>3, <2>6
    <2>8. /\ expected(from, to) = IF h = None THEN 0 ELSE rounded(h * (f + t))
          /\ expected(from, cut) = IF h = None THEN 0 ELSE rounded(h * f)
          /\ expected(cut + 1, to) = IF h = None THEN 0 ELSE rounded(h * t)
      BY <2>3, <2>7
    <2> HIDE DEF f, t, gap
    <2>9. CASE h = None
      <3>1. a.perDay = None
        BY <2>5, <2>9
      <3>2. expected(from, to) = 0 /\ expected(from, cut) = 0 /\ expected(cut + 1, to) = 0
        BY <2>8, <2>9
      <3>3. QED
        BY <2>1, <3>1, <3>2
    <2>10. CASE h # None
      <3> DEFINE m == h * f
                 n == h * t
      <3>1. m \in Nat /\ n \in Nat /\ h * (f + t) = m + n
        BY <2>3, <2>7, <2>10
      <3> HIDE DEF m, n
      <3>2. gap("expectedHours") = rounded(m + n) - (rounded(m) + rounded(n))
        BY <2>1, <2>8, <2>10, <3>1 DEF m, n
      <3>3. gap("expectedHours") \in -1..1
        BY <3>1, <3>2, RoundedIs DEF rounded
      <3>4. ASSUME a.perDay # None
            PROVE  gap("expectedHours") = 0
        <4> DEFINE p == a.perDay * f
                   r == a.perDay * t
        <4>1. p \in Nat /\ r \in Nat /\ m = 5 * p /\ n = 5 * r
          BY <2>5, <2>7, <3>4 DEF m, n
        <4> HIDE DEF p, r
        <4>2. rounded(5 * p) = p /\ rounded(5 * r) = r /\ rounded(5 * (p + r)) = p + r
          BY <4>1, RoundedIs DEF rounded
        <4>3. m + n = 5 * (p + r)
          BY <4>1
        <4>4. rounded(m + n) = p + r /\ rounded(m) = p /\ rounded(n) = r
          BY <4>1, <4>2, <4>3
        <4>5. QED
          BY <3>2, <4>1, <4>4
      <3>5. QED
        BY <3>3, <3>4
    <2>11. QED
      BY <2>9, <2>10
  <1>12. QED
    <2>1. \A f \in {"totalHours", "approvedHours", "paidHours"} : gap(f) = 0
      <3> HIDE DEF gap
      <3>1. QED
        BY <1>8, <1>9, <1>10
    <2>2. QED
      BY <1>11, <2>1 DEF gap, sum

\* A list narrowed to a status shows what the whole list shows with it, whatever the
\* database holds.
THEOREM EveryStatusAgrees ==
    ASSUME NEW d, IsTimecards(d), NEW caller, NEW q, IsHourQuery(q)
    PROVE  Hours!StatusesAgree(d, caller, q)
  <1> DEFINE every == [q EXCEPT !.status = None]
             rows == Hours!FindEngagements(d, caller, q)
             in(a, k) == Hours!InEngagementList(d, a, caller, k)
             row(a, k) == Hours!ToEngagementRow(d, a, caller, k)
             refused == \/ ~caller.admin /\ ~caller.tm /\ caller.userId = None
                        \/ ~Hours!ValidRange(q.from, q.to)
  <1>1. /\ every.status = None /\ every.from = q.from /\ every.to = q.to
        /\ every.manager = q.manager /\ every.engagement = q.engagement
        /\ every.assignee = q.assignee
    BY DEF IsHourQuery
  <1> HIDE DEF every
  <1>2. /\ refused => rows = Refused
        /\ ~refused => /\ rows = {row(a, q) : a \in {b \in d.assignments : in(b, q)}}
                       /\ Hours!FindEngagements(d, caller, every) =
                              {row(a, every) : a \in {b \in d.assignments : in(b, every)}}
    BY <1>1 DEF Hours!FindEngagements
  <1>3. \A a : row(a, every) = row(a, q)
    BY <1>1 DEF Hours!ToEngagementRow, Hours!ToRollupStatus
  <1>4. ASSUME NEW a, NEW s \in Hours!RollupFilter, q.status = s
        PROVE  in(a, q) <=> in(a, every) /\ row(a, q).timesheetStatus = s
    <2> DEFINE entries == Hours!InRange(Hours!Of(d, a), q.from, q.to)
               counted == {e \in entries : e.status \in {"SUBMITTED", "APPROVED"}}
    <2>1. row(a, q).timesheetStatus = IF Hours!Some(counted, "SUBMITTED") THEN "PendingApproval"
                                      ELSE IF Hours!Some(counted, "APPROVED") THEN "Approved"
                                      ELSE "NotSubmitted"
      BY DEF Hours!ToEngagementRow, Hours!ToRollupStatus
    <2>2. /\ Hours!Some(counted, "SUBMITTED") <=> Hours!Some(entries, "SUBMITTED")
          /\ Hours!Some(counted, "APPROVED") <=> Hours!Some(entries, "APPROVED")
          /\ Hours!Some(entries, "SUBMITTED") \/ Hours!Some(entries, "APPROVED")
                 => entries # {}
      BY DEF Hours!Some
    <2> DEFINE common == /\ a.status = "ASSIGNED"
                         /\ ~caller.admin /\ ~caller.tm => caller.userId \in a.managers
                         /\ (caller.admin \/ caller.tm) /\ q.manager # None =>
                                a.managers \cap q.manager # {}
                         /\ a.project # "ignored"
                         /\ q.engagement # None => a.title \in q.engagement
                         /\ q.assignee # None => a.handle \in q.assignee
    <2>3. s \in {"PendingApproval", "Approved"} /\ s # None /\ None \notin {"PendingApproval", "Approved"}
      BY NoneIsNoAnswer DEF Hours!RollupFilter
    <2>4. in(a, q) <=> /\ common
                       /\ s = "PendingApproval" => Hours!Some(entries, "SUBMITTED")
                       /\ s = "Approved" => Hours!Some(entries, "APPROVED")
                                            /\ ~Hours!Some(entries, "SUBMITTED")
      BY <1>4, <2>3 DEF Hours!InEngagementList
    <2>5. in(a, every) <=> common /\ ({q.from, q.to} # {None} => entries # {})
      BY <1>1, <2>3 DEF Hours!InEngagementList
    <2> HIDE DEF in, row, entries, counted, common
    <2>6. QED
      BY <2>1, <2>2, <2>3, <2>4, <2>5
  <1>5. ASSUME rows # Refused, NEW s \in Hours!RollupFilter, q.status = s
        PROVE  rows = {r \in Hours!FindEngagements(d, caller, every) : r.timesheetStatus = s}
    <2> HIDE DEF in, row, rows, refused
    <2>1. QED
      BY <1>2, <1>3, <1>4, <1>5
  <1>6. QED
    BY <1>5 DEF Hours!StatusesAgree, every

-----------------------------------------------------------------------------
(* The dashboard: orders and keys *)

LEMMA FlexiSizesAre == \A S : Flexi!Cardinality(S) = Cardinality(S)
  BY DEF Flexi!Cardinality, Cardinality

\* The first along an order is before all others, and nothing else is.
IsFirst(x, R, S) == x \in S /\ \A y \in S \ {x} : <<x, y>> \in R

LEMMA FirstIs ==
    ASSUME NEW S, IsFiniteSet(S), S # {}, NEW R, Orders(R, S)
    PROVE  /\ IsFirst(Flexi!FirstOf(S, R), R, S)
           /\ \A x : IsFirst(x, R, S) => x = Flexi!FirstOf(S, R)
  <1>1. \E x : IsFirst(x, R, S)
    <2>1. 1 \in 1..Cardinality(S)
      BY FS_CardinalityType, FS_EmptySet
    <2>2. PICK x \in S : Cardinality(Through(R, S, x)) = 1
      BY <2>1, OrderGivesPlaces DEF HasPlaces
    <2>3. IsFiniteSet(Through(R, S, x))
      BY FS_Subset DEF Through
    <2>4. PICK z : Through(R, S, x) = {z}
      BY <2>2, <2>3, FS_Singleton
    <2>5. ASSUME NEW y \in S, <<y, x>> \in R
          PROVE  y = x
      <3>1. x \in Through(R, S, x) /\ y \in Through(R, S, x)
        BY <2>5 DEF Through
      <3>2. QED
        BY <2>4, <3>1
    <2>6. QED
      BY <2>5 DEF Orders, IsFirst
  <1>2. \A x, y : IsFirst(x, R, S) /\ IsFirst(y, R, S) => x = y
    BY DEF Orders, IsFirst
  <1>3. Flexi!FirstOf(S, R) = CHOOSE x \in S : \A y \in S \ {x} : <<x, y>> \in R
    BY DEF Flexi!FirstOf
  <1>4. IsFirst(Flexi!FirstOf(S, R), R, S)
    BY <1>1, <1>3 DEF IsFirst
  <1>5. QED
    BY <1>2, <1>4

\* An order carried along a one-to-one map.
Carries(f, S, R, T, Q) ==
    /\ f \in Bijection(S, T)
    /\ \A x, y \in S : <<x, y>> \in R <=> <<f[x], f[y]>> \in Q

LEMMA BijectionIs ==
    ASSUME NEW S, NEW T, NEW f
    PROVE  f \in Bijection(S, T) <=>
               /\ f \in [S -> T]
               /\ \A x, y \in S : f[x] = f[y] => x = y
               /\ \A t \in T : \E x \in S : f[x] = t
  BY DEF Bijection, Injection, Surjection, IsInjective

LEMMA SameSize ==
    ASSUME NEW S, NEW T, NEW f \in Bijection(S, T), IsFiniteSet(S)
    PROVE  IsFiniteSet(T) /\ Cardinality(T) = Cardinality(S)
  <1>1. ExistsBijection(S, T)
    BY DEF ExistsBijection
  <1>2. QED
    BY <1>1, FS_Bijection

LEMMA OrdersAreCarried ==
    ASSUME NEW f, NEW S, NEW R, NEW T, NEW Q, Carries(f, S, R, T, Q), Orders(Q, T)
    PROVE  Orders(R, S)
  <1>1. /\ f \in [S -> T] /\ \A x, y \in S : f[x] = f[y] => x = y
        /\ \A x, y \in S : <<x, y>> \in R <=> <<f[x], f[y]>> \in Q
    BY BijectionIs DEF Carries
  <1>2. \A x \in S : f[x] \in T
    BY <1>1
  <1>3. QED
    BY <1>1, <1>2 DEF Orders

LEMMA FirstsAreCarried ==
    ASSUME NEW f, NEW S, NEW R, NEW T, NEW Q, Carries(f, S, R, T, Q), Orders(Q, T),
           IsFiniteSet(S), S # {}
    PROVE  Flexi!FirstOf(S, R) \in S /\ Flexi!FirstOf(T, Q) = f[Flexi!FirstOf(S, R)]
  <1> DEFINE x == Flexi!FirstOf(S, R)
  <1>1. Orders(R, S)
    BY OrdersAreCarried
  <1>2. IsFirst(x, R, S)
    BY <1>1, FirstIs
  <1>3. /\ f \in [S -> T] /\ \A t \in T : \E y \in S : f[y] = t
        /\ \A y, z \in S : <<y, z>> \in R <=> <<f[y], f[z]>> \in Q
    BY BijectionIs DEF Carries
  <1>4. IsFiniteSet(T) /\ T # {}
    BY <1>3, SameSize DEF Carries
  <1> HIDE DEF x
  <1>5. IsFirst(f[x], Q, T)
    BY <1>2, <1>3 DEF IsFirst
  <1>6. QED
    BY <1>2, <1>4, <1>5, FirstIs DEF x, IsFirst

\* A sorted list has one place for every row; the rows up to the n-th are n.
LEMMA SortedIs ==
    ASSUME NEW S, IsFiniteSet(S), NEW R, Orders(R, S)
    PROVE  LET s == Flexi!InOrder(S, R) IN
           /\ Cardinality(S) \in Nat
           /\ s \in [1..Cardinality(S) -> S] /\ s \in Seq(S) /\ Len(s) = Cardinality(S)
           /\ \A n \in 1..Cardinality(S) : Cardinality(Through(R, S, s[n])) = n
           /\ \A x \in S : \E n \in 1..Cardinality(S) : s[n] = x
           /\ \A n \in 1..Cardinality(S) : \A x \in S :
                  Cardinality(Through(R, S, x)) = n => s[n] = x
  <1> DEFINE s == Flexi!InOrder(S, R)
             N == Cardinality(S)
             place(x) == Cardinality(Through(R, S, x))
  <1>1. N \in Nat
    BY FS_CardinalityType
  <1>2. s = [n \in 1..N |-> CHOOSE x \in S : place(x) = n]
    <2>1. \A x : place(x) = Flexi!Place(S, R, x)
      BY FlexiSizesAre, Zenon DEF Flexi!Place, Through
    <2> HIDE DEF place
    <2>2. s = [n \in 1..N |-> CHOOSE x \in S : Flexi!Place(S, R, x) = n]
      BY FlexiSizesAre, Zenon DEF Flexi!InOrder
    <2>3. QED
      BY <2>1, <2>2
  <1>3. HasPlaces(R, S)
    BY OrderGivesPlaces
  <1>4. /\ \A x \in S : place(x) \in 1..N
        /\ \A x, y \in S : place(x) = place(y) => x = y
        /\ \A n \in 1..N : \E x \in S : place(x) = n
    BY <1>3 DEF HasPlaces
  <1> HIDE DEF s, N, place
  <1>5. \A n \in 1..N : s[n] \in S /\ place(s[n]) = n
    BY <1>2, <1>4
  <1>6. s \in [1..N -> S]
    BY <1>2, <1>5
  <1>7. s \in Seq(S) /\ Len(s) = N
    BY <1>1, <1>6
  <1>8. \A n \in 1..N : \A x \in S : place(x) = n => s[n] = x
    BY <1>4, <1>5
  <1>9. \A x \in S : \E n \in 1..N : s[n] = x
    BY <1>4, <1>8
  <1>10. QED
    BY <1>1, <1>5, <1>6, <1>7, <1>8, <1>9 DEF s, N, place

LEMMA SortsAreCarried ==
    ASSUME NEW f, NEW S, NEW R, NEW T, NEW Q, Carries(f, S, R, T, Q), Orders(Q, T),
           IsFiniteSet(S)
    PROVE  /\ IsFiniteSet(T) /\ Cardinality(T) = Cardinality(S)
           /\ \A n \in 1..Cardinality(S) :
                  Flexi!InOrder(T, Q)[n] = f[Flexi!InOrder(S, R)[n]]
  <1>1. Orders(R, S)
    BY OrdersAreCarried
  <1>2. /\ f \in [S -> T] /\ \A x, y \in S : f[x] = f[y] => x = y
        /\ \A t \in T : \E y \in S : f[y] = t
        /\ \A y, z \in S : <<y, z>> \in R <=> <<f[y], f[z]>> \in Q
    BY BijectionIs DEF Carries
  <1>3. IsFiniteSet(T) /\ Cardinality(T) = Cardinality(S)
    BY SameSize DEF Carries
  <1>4. ASSUME NEW x \in S
        PROVE  Cardinality(Through(Q, T, f[x])) = Cardinality(Through(R, S, x))
    <2> DEFINE A == Through(R, S, x)
               B == Through(Q, T, f[x])
               g == [y \in A |-> f[y]]
    <2>1. A \in SUBSET S /\ IsFiniteSet(A)
      BY FS_Subset DEF Through
    <2>2. \A y \in S : y \in A <=> f[y] \in B
      BY <1>2 DEF Through
    <2>3. \A t \in B : t \in T
      BY DEF Through
    <2> HIDE DEF A, B
    <2>4. g \in [A -> B]
      BY <2>1, <2>2
    <2>5. \A y, z \in A : g[y] = g[z] => y = z
      BY <1>2, <2>1
    <2>6. \A t \in B : \E y \in A : g[y] = t
      BY <1>2, <2>1, <2>2, <2>3
    <2> HIDE DEF g
    <2>7. g \in Bijection(A, B)
      BY <2>4, <2>5, <2>6, BijectionIs
    <2>8. QED
      BY <2>1, <2>7, SameSize DEF A, B
  <1>5. ASSUME NEW n \in 1..Cardinality(S)
        PROVE  Flexi!InOrder(T, Q)[n] = f[Flexi!InOrder(S, R)[n]]
    <2> DEFINE x == Flexi!InOrder(S, R)[n]
    <2>1. x \in S /\ Cardinality(Through(R, S, x)) = n
      BY <1>1, SortedIs
    <2> HIDE DEF x
    <2>2. f[x] \in T /\ Cardinality(Through(Q, T, f[x])) = n
      BY <1>2, <1>4, <2>1
    <2>3. QED
      BY <1>3, <2>2, SortedIs DEF x
  <1>6. QED
    BY <1>3, <1>5

\* What is before all others, and nothing before it, is the head of the list.
LEMMA HeadIs ==
    ASSUME NEW S, IsFiniteSet(S), NEW R, NEW h \in S, <<h, h>> \notin R,
           \A y \in S \ {h} : <<h, y>> \in R /\ <<y, h>> \notin R
    PROVE  Flexi!InOrder(S, R)[1] = h
  <1> DEFINE place(x) == Cardinality(Through(R, S, x))
  <1>1. Flexi!InOrder(S, R)
            = [n \in 1..Cardinality(S) |-> CHOOSE x \in S : Flexi!Place(S, R, x) = n]
    BY FlexiSizesAre, Zenon DEF Flexi!InOrder
  <1>8. \A x : place(x) = Flexi!Place(S, R, x)
    BY FlexiSizesAre, Zenon DEF Flexi!Place, Through
  <1>2. 1 \in 1..Cardinality(S)
    BY FS_CardinalityType, FS_EmptySet
  <1>3. Through(R, S, h) = {h}
    BY DEF Through
  <1>4. place(h) = 1
    BY <1>3, FS_Singleton
  <1>5. ASSUME NEW x \in S, place(x) = 1
        PROVE  x = h
    <2>1. IsFiniteSet(Through(R, S, x))
      BY FS_Subset DEF Through
    <2>2. PICK z : Through(R, S, x) = {z}
      BY <1>5, <2>1, FS_Singleton
    <2>3. x \in Through(R, S, x) /\ h \in Through(R, S, x)
      BY DEF Through
    <2>4. QED
      BY <2>2, <2>3
  <1> HIDE DEF place
  <1>6. (CHOOSE x \in S : Flexi!Place(S, R, x) = 1) = h
    BY <1>4, <1>5, <1>8
  <1>7. QED
    BY <1>1, <1>2, <1>6

Keyed == Int \union {None}
Directions == {"asc", "desc"}
AKey == Keyed \X Directions

\* ORDER BY by one key leaves no two values of it aside.
LEMMA OneKeyOrders ==
    ASSUME NEW x \in Keyed, NEW y \in Keyed, NEW z \in Keyed, NEW dir
    PROVE  /\ ~Flexi!SqlLess(x, x, dir)
           /\ Flexi!SqlLess(x, y, dir) /\ Flexi!SqlLess(y, z, dir)
                  => Flexi!SqlLess(x, z, dir)
           /\ x = y \/ Flexi!SqlLess(x, y, dir) \/ Flexi!SqlLess(y, x, dir)
  <1>1. None \notin Int
    BY NoneIsNoAnswer
  <1>2. QED
    BY <1>1 DEF Flexi!SqlLess, Keyed

\* Keys are as many as there are directions, each with its own.
HasKeys(keys, dirs) ==
    /\ keys = [i \in 1..Len(dirs) |-> keys[i]]
    /\ \A i \in 1..Len(dirs) : keys[i] = <<keys[i][1], dirs[i]>> /\ keys[i][1] \in Keyed

LEMMA KeysOrder ==
    ASSUME NEW T, NEW Q, NEW keys, NEW dirs \in Seq(Directions),
           \A x \in T : HasKeys(keys[x], dirs),
           \A x, y \in T : <<x, y>> \in Q <=> Flexi!SqlBefore(keys[x], keys[y]),
           \A x, y \in T : keys[x] = keys[y] => x = y
    PROVE  Orders(Q, T)
  <1> DEFINE n == Len(dirs)
             less(x, y, i) == Flexi!SqlLess(keys[x][i][1], keys[y][i][1], dirs[i])
             same(x, y, i) == \A j \in 1..(i - 1) : keys[x][j] = keys[y][j]
  <1>1. n \in Nat
    OBVIOUS
  <1>2. ASSUME NEW x \in T, NEW y \in T
        PROVE  <<x, y>> \in Q <=> \E i \in 1..n : less(x, y, i) /\ same(x, y, i)
    <2>1. HasKeys(keys[x], dirs)
      OBVIOUS
    <2>2. Len(keys[x]) = n
      BY <1>1, <2>1 DEF HasKeys
    <2>3. \A i \in 1..n : keys[x][i][2] = dirs[i]
      BY <2>1 DEF HasKeys
    <2> HIDE DEF n
    <2>4. QED
      BY <2>2, <2>3 DEF Flexi!SqlBefore
  <1>3. \A x \in T : \A i \in 1..n : keys[x][i][1] \in Keyed
    BY DEF HasKeys
  <1>4. \A x, y \in T : \A i \in 1..n :
            keys[x][i] = keys[y][i] <=> keys[x][i][1] = keys[y][i][1]
    <2>1. ASSUME NEW x \in T, NEW y \in T, NEW i \in 1..n, keys[x][i][1] = keys[y][i][1]
          PROVE  keys[x][i] = keys[y][i]
      <3>1. keys[x][i] = <<keys[x][i][1], dirs[i]>> /\ keys[y][i] = <<keys[y][i][1], dirs[i]>>
        BY DEF HasKeys
      <3>2. QED
        BY <2>1, <3>1
    <2>2. QED
      BY <2>1
  <1>5. ASSUME NEW x \in T, NEW y \in T, x # y
        PROVE  \E i \in 1..n : keys[x][i] # keys[y][i] /\ same(x, y, i)
    <2> DEFINE D == {i \in 1..n : keys[x][i] # keys[y][i]}
    <2>1. D # {}
      <3>1. keys[x] # keys[y]
        BY <1>5
      <3>2. HasKeys(keys[x], dirs) /\ HasKeys(keys[y], dirs)
        OBVIOUS
      <3>3. keys[x] = [i \in 1..n |-> keys[x][i]] /\ keys[y] = [i \in 1..n |-> keys[y][i]]
        BY <3>2 DEF HasKeys
      <3> HIDE DEF n
      <3>4. QED
        BY <3>1, <3>3
    <2>2. D \in SUBSET Int /\ IsFiniteSet(D)
      <3>1. D \in SUBSET (1..n) /\ IsFiniteSet(1..n)
        BY <1>1, FS_Interval
      <3>2. \A i \in 1..n : i \in Int
        BY <1>1
      <3> HIDE DEF D, n
      <3>3. IsFiniteSet(D)
        BY <3>1, FS_Subset
      <3>4. QED
        BY <3>1, <3>2, <3>3
    <2>3. PICK i \in D : \A j \in D : i <= j
      <3> HIDE DEF D
      <3>1. QED
        BY <2>1, <2>2, EndsExist
    <2> HIDE DEF n
    <2>4. \A j \in 1..(i - 1) : j \in 1..n /\ ~(i <= j)
      BY <1>1
    <2>5. QED
      BY <2>3, <2>4
  <1> HIDE DEF n
  <1>6. ASSUME NEW x \in T, NEW y \in T, NEW z \in T,
               <<x, y>> \in Q, <<y, z>> \in Q
        PROVE  <<x, z>> \in Q
    <2>1. PICK i \in 1..n : less(x, y, i) /\ same(x, y, i)
      BY <1>2, <1>6
    <2>2. PICK k \in 1..n : less(y, z, k) /\ same(y, z, k)
      BY <1>2, <1>6
    <2>3. CASE i < k
      <3>1. keys[y][i] = keys[z][i]
        BY <1>1, <2>2, <2>3
      <3>2. less(x, z, i)
        BY <2>1, <3>1
      <3>3. same(x, z, i)
        BY <1>1, <2>1, <2>2, <2>3
      <3>4. QED
        BY <1>2, <3>2, <3>3
    <2>4. CASE k < i
      <3>1. keys[x][k] = keys[y][k]
        BY <1>1, <2>1, <2>4
      <3>2. less(x, z, k)
        BY <2>2, <3>1
      <3>3. same(x, z, k)
        BY <1>1, <2>1, <2>2, <2>4
      <3>4. QED
        BY <1>2, <3>2, <3>3
    <2>5. CASE i = k
      <3>1. less(x, z, i)
        BY <1>3, <2>1, <2>2, <2>5, OneKeyOrders
      <3>2. same(x, z, i)
        BY <2>1, <2>2, <2>5
      <3>3. QED
        BY <1>2, <3>1, <3>2
    <2>6. QED
      BY <1>1, <2>3, <2>4, <2>5
  <1>7. ASSUME NEW x \in T
        PROVE  <<x, x>> \notin Q
    BY <1>2, <1>3, OneKeyOrders
  <1>8. ASSUME NEW x \in T, NEW y \in T, x # y
        PROVE  <<x, y>> \in Q \/ <<y, x>> \in Q
    <2>1. PICK i \in 1..n : keys[x][i] # keys[y][i] /\ same(x, y, i)
      BY <1>5, <1>8
    <2>2. less(x, y, i) \/ less(y, x, i)
      BY <1>3, <1>4, <2>1, OneKeyOrders
    <2>3. same(y, x, i)
      BY <2>1
    <2>4. QED
      BY <1>2, <2>1, <2>2, <2>3
  <1>9. QED
    BY <1>6, <1>7, <1>8 DEF Orders

\* x is p with s after it.
IsAppended(x, p, s) ==
    /\ Len(x) = Len(p) + Len(s)
    /\ x = [i \in 1..(Len(p) + Len(s)) |-> x[i]]
    /\ \A i \in 1..Len(p) : x[i] = p[i]
    /\ \A i \in 1..Len(s) : x[Len(p) + i] = s[i]

LEMMA AppendedIs ==
    ASSUME NEW K, NEW p \in Seq(K), NEW s \in Seq(K)
    PROVE  p \o s \in Seq(K) /\ IsAppended(p \o s, p, s)
  <1> DEFINE x == p \o s
  <1>1. x \in Seq(K)
    OBVIOUS
  <1>2. Len(x) = Len(p) + Len(s)
    OBVIOUS
  <1>3. \A i \in 1..Len(p) : x[i] = p[i]
    OBVIOUS
  <1>4. \A i \in 1..Len(s) : x[Len(p) + i] = s[i]
    OBVIOUS
  <1> HIDE DEF x
  <1>5. x = [i \in 1..Len(x) |-> x[i]]
    BY <1>1
  <1>6. x = [i \in 1..(Len(p) + Len(s)) |-> x[i]]
    BY <1>2, <1>5
  <1>7. x \in Seq(K) /\ IsAppended(x, p, s)
    BY <1>1, <1>2, <1>3, <1>4, <1>6, Zenon DEF IsAppended
  <1>8. QED
    BY <1>7, Zenon DEF x

\* The first keys of two rows, up to the i-th, are the same.
Same(k, l, i) == \A j \in 1..(i - 1) : k[j] = l[j]

\* Keys appended decide where those before them are the same.
LEMMA KeysAppended ==
    ASSUME NEW K, NEW p \in Seq(K), NEW r \in Seq(K), NEW s \in Seq(K), NEW t \in Seq(K),
           Len(p) = Len(r), Len(s) = Len(t)
    PROVE  Flexi!SqlBefore(p \o s, r \o t) <=>
               Flexi!SqlBefore(p, r) \/ (p = r /\ Flexi!SqlBefore(s, t))
  <1> DEFINE m == Len(p)
             n == Len(s)
             x == p \o s
             y == r \o t
             less(k, l, i) == Flexi!SqlLess(k[i][1], l[i][1], k[i][2])
  <1>0. IsAppended(x, p, s) /\ IsAppended(y, r, t)
    BY AppendedIs
  <1> HIDE DEF x, y
  <1>1. m \in Nat /\ n \in Nat /\ Len(x) = m + n
    BY <1>0 DEF IsAppended
  <1>2. \A i \in 1..m : x[i] = p[i] /\ y[i] = r[i]
    BY <1>0 DEF IsAppended
  <1>3. \A i \in 1..n : x[m + i] = s[i] /\ y[m + i] = t[i]
    BY <1>0 DEF IsAppended
  <1>4. p = r <=> \A i \in 1..m : p[i] = r[i]
    <2>1. p = [i \in 1..m |-> p[i]] /\ r = [i \in 1..m |-> r[i]]
      OBVIOUS
    <2> HIDE DEF m
    <2>2. QED
      BY <2>1
  <1>5. /\ Flexi!SqlBefore(x, y) <=> \E i \in 1..(m + n) : less(x, y, i) /\ Same(x, y, i)
        /\ Flexi!SqlBefore(p, r) <=> \E i \in 1..m : less(p, r, i) /\ Same(p, r, i)
        /\ Flexi!SqlBefore(s, t) <=> \E i \in 1..n : less(s, t, i) /\ Same(s, t, i)
    BY <1>1 DEF Flexi!SqlBefore, Same
  <1> HIDE DEF m, n
  <1>6. \A i \in 1..m : (less(x, y, i) /\ Same(x, y, i)) <=> (less(p, r, i) /\ Same(p, r, i))
    <2> TAKE i \in 1..m
    <2>1. \A j \in 1..(i - 1) : j \in 1..m
      BY <1>1
    <2>2. QED
      BY <1>2, <2>1 DEF Same
  <1>7. \A i \in 1..n : (less(x, y, m + i) /\ Same(x, y, m + i))
                            <=> (p = r /\ less(s, t, i) /\ Same(s, t, i))
    <2> TAKE i \in 1..n
    <2>1. less(x, y, m + i) <=> less(s, t, i)
      BY <1>3
    <2>2. ASSUME Same(x, y, m + i)
          PROVE  p = r /\ Same(s, t, i)
      <3>1. \A j \in 1..m : j \in 1..(m + i - 1)
        BY <1>1
      <3>2. \A j \in 1..(i - 1) : j \in 1..n /\ m + j \in 1..(m + i - 1)
        BY <1>1
      <3>3. ASSUME NEW j \in 1..m
            PROVE  p[j] = r[j]
        <4>1. x[j] = y[j]
          BY <1>1, <2>2, <3>1 DEF Same
        <4>2. QED
          BY <1>2, <4>1
      <3>4. ASSUME NEW j \in 1..(i - 1)
            PROVE  s[j] = t[j]
        <4>1. x[m + j] = y[m + j]
          BY <1>1, <2>2, <3>2 DEF Same
        <4>2. QED
          BY <1>3, <3>2, <4>1
      <3>5. QED
        BY <1>4, <3>3, <3>4 DEF Same
    <2>3. ASSUME p = r, Same(s, t, i), NEW j \in 1..(m + i - 1)
          PROVE  x[j] = y[j]
      <3>1. CASE j <= m
        BY <1>1, <1>2, <2>3, <3>1
      <3>2. CASE m < j
        <4>1. j - m \in 1..n /\ j - m \in 1..(i - 1) /\ m + (j - m) = j
          BY <1>1, <3>2
        <4>2. QED
          BY <1>3, <2>3, <4>1 DEF Same
      <3>3. QED
        BY <1>1, <3>1, <3>2
    <2>4. QED
      BY <1>1, <2>1, <2>2, <2>3 DEF Same
  <1>8. \A k \in 1..(m + n) : k \in 1..m \/ \E i \in 1..n : k = m + i
    <2> TAKE k \in 1..(m + n)
    <2>1. CASE k <= m
      BY <1>1, <2>1
    <2>2. CASE m < k
      <3>1. k - m \in 1..n /\ k = m + (k - m)
        BY <1>1, <2>2
      <3>2. QED
        BY <3>1
    <2>3. QED
      BY <1>1, <2>1, <2>2
  <1>9. \A i \in 1..m : i \in 1..(m + n)
    BY <1>1
  <1>10. \A i \in 1..n : m + i \in 1..(m + n)
    BY <1>1
  <1> HIDE DEF less
  <1>11. Flexi!SqlBefore(x, y) <=> Flexi!SqlBefore(p, r) \/ (p = r /\ Flexi!SqlBefore(s, t))
    BY <1>5, <1>6, <1>7, <1>8, <1>9, <1>10
  <1>12. QED
    BY <1>11 DEF x, y

LEMMA SequenceIs ==
    ASSUME NEW n \in Nat, NEW S, NEW s \in [1..n -> S]
    PROVE  s \in Seq(S) /\ Len(s) = n
  OBVIOUS

\* Values with their directions are keys.
IsKeyed(k, dirs, n) == k \in Seq(AKey) /\ Len(k) = n /\ HasKeys(k, dirs)

LEMMA KeysAre ==
    ASSUME NEW n \in Nat, NEW k, NEW dirs,
           k = [i \in 1..n |-> k[i]], dirs = [i \in 1..n |-> dirs[i]],
           \A i \in 1..n : dirs[i] \in Directions /\ \E x \in Keyed : k[i] = <<x, dirs[i]>>
    PROVE  IsKeyed(k, dirs, n) /\ dirs \in Seq(Directions) /\ Len(dirs) = n
  <1>1. dirs \in Seq(Directions) /\ Len(dirs) = n
    <2>1. dirs \in [1..n -> Directions]
      OBVIOUS
    <2>2. QED
      BY <2>1, SequenceIs
  <1>2. \A i \in 1..n : k[i] \in AKey /\ k[i] = <<k[i][1], dirs[i]>> /\ k[i][1] \in Keyed
    <2> TAKE i \in 1..n
    <2>1. PICK x \in Keyed : k[i] = <<x, dirs[i]>>
      OBVIOUS
    <2>2. k[i][1] = x
      BY <2>1
    <2>3. <<x, dirs[i]>> \in AKey
      BY DEF AKey
    <2>4. QED
      BY <2>1, <2>2, <2>3
  <1>3. k \in [1..n -> AKey]
    BY <1>2
  <1>4. QED
    BY <1>1, <1>2, <1>3, SequenceIs DEF HasKeys, IsKeyed

LEMMA OneIsKeyed ==
    ASSUME NEW x1 \in Keyed, NEW d1 \in Directions
    PROVE  IsKeyed(<<<<x1, d1>>>>,
                   <<d1>>, 1)
  <1> DEFINE k == <<<<x1, d1>>>>
             e == <<d1>>
  <1>1. /\ e[1] = d1 /\ k[1] = <<x1, e[1]>>
    OBVIOUS
  <1>2. /\ k = [i \in 1..1 |-> k[i]] /\ e = [i \in 1..1 |-> e[i]] /\ 1 \in Nat
        /\ \A i \in 1..1 : i = 1
    OBVIOUS
  <1> HIDE DEF k, e
  <1>3. \A i \in 1..1 : e[i] \in Directions /\ \E x \in Keyed : k[i] = <<x, e[i]>>
    BY <1>1, <1>2
  <1>4. QED
    BY <1>2, <1>3, KeysAre DEF k, e

LEMMA TwoAreKeyed ==
    ASSUME NEW x1 \in Keyed, NEW d1 \in Directions,
           NEW x2 \in Keyed, NEW d2 \in Directions
    PROVE  IsKeyed(<<<<x1, d1>>, <<x2, d2>>>>,
                   <<d1, d2>>, 2)
  <1> DEFINE k == <<<<x1, d1>>, <<x2, d2>>>>
             e == <<d1, d2>>
  <1>1. /\ e[1] = d1 /\ k[1] = <<x1, e[1]>>
        /\ e[2] = d2 /\ k[2] = <<x2, e[2]>>
    OBVIOUS
  <1>2. /\ k = [i \in 1..2 |-> k[i]] /\ e = [i \in 1..2 |-> e[i]] /\ 2 \in Nat
        /\ \A i \in 1..2 : i = 1 \/ i = 2
    OBVIOUS
  <1> HIDE DEF k, e
  <1>3. \A i \in 1..2 : e[i] \in Directions /\ \E x \in Keyed : k[i] = <<x, e[i]>>
    BY <1>1, <1>2
  <1>4. QED
    BY <1>2, <1>3, KeysAre DEF k, e

LEMMA ThreeAreKeyed ==
    ASSUME NEW x1 \in Keyed, NEW d1 \in Directions,
           NEW x2 \in Keyed, NEW d2 \in Directions,
           NEW x3 \in Keyed, NEW d3 \in Directions
    PROVE  IsKeyed(<<<<x1, d1>>, <<x2, d2>>, <<x3, d3>>>>,
                   <<d1, d2, d3>>, 3)
  <1> DEFINE k == <<<<x1, d1>>, <<x2, d2>>, <<x3, d3>>>>
             e == <<d1, d2, d3>>
  <1>1. /\ e[1] = d1 /\ k[1] = <<x1, e[1]>>
        /\ e[2] = d2 /\ k[2] = <<x2, e[2]>>
        /\ e[3] = d3 /\ k[3] = <<x3, e[3]>>
    OBVIOUS
  <1>2. /\ k = [i \in 1..3 |-> k[i]] /\ e = [i \in 1..3 |-> e[i]] /\ 3 \in Nat
        /\ \A i \in 1..3 : i = 1 \/ i = 2 \/ i = 3
    OBVIOUS
  <1> HIDE DEF k, e
  <1>3. \A i \in 1..3 : e[i] \in Directions /\ \E x \in Keyed : k[i] = <<x, e[i]>>
    BY <1>1, <1>2
  <1>4. QED
    BY <1>2, <1>3, KeysAre DEF k, e

LEMMA FourAreKeyed ==
    ASSUME NEW x1 \in Keyed, NEW d1 \in Directions,
           NEW x2 \in Keyed, NEW d2 \in Directions,
           NEW x3 \in Keyed, NEW d3 \in Directions,
           NEW x4 \in Keyed, NEW d4 \in Directions
    PROVE  IsKeyed(<<<<x1, d1>>, <<x2, d2>>, <<x3, d3>>, <<x4, d4>>>>,
                   <<d1, d2, d3, d4>>, 4)
  <1> DEFINE k == <<<<x1, d1>>, <<x2, d2>>, <<x3, d3>>, <<x4, d4>>>>
             e == <<d1, d2, d3, d4>>
  <1>1. /\ e[1] = d1 /\ k[1] = <<x1, e[1]>>
        /\ e[2] = d2 /\ k[2] = <<x2, e[2]>>
        /\ e[3] = d3 /\ k[3] = <<x3, e[3]>>
        /\ e[4] = d4 /\ k[4] = <<x4, e[4]>>
    OBVIOUS
  <1>2. /\ k = [i \in 1..4 |-> k[i]] /\ e = [i \in 1..4 |-> e[i]] /\ 4 \in Nat
        /\ \A i \in 1..4 : i = 1 \/ i = 2 \/ i = 3 \/ i = 4
    OBVIOUS
  <1> HIDE DEF k, e
  <1>3. \A i \in 1..4 : e[i] \in Directions /\ \E x \in Keyed : k[i] = <<x, e[i]>>
    BY <1>1, <1>2
  <1>4. QED
    BY <1>2, <1>3, KeysAre DEF k, e

LEMMA FiveAreKeyed ==
    ASSUME NEW x1 \in Keyed, NEW d1 \in Directions,
           NEW x2 \in Keyed, NEW d2 \in Directions,
           NEW x3 \in Keyed, NEW d3 \in Directions,
           NEW x4 \in Keyed, NEW d4 \in Directions,
           NEW x5 \in Keyed, NEW d5 \in Directions
    PROVE  IsKeyed(<<<<x1, d1>>, <<x2, d2>>, <<x3, d3>>, <<x4, d4>>, <<x5, d5>>>>,
                   <<d1, d2, d3, d4, d5>>, 5)
  <1> DEFINE k == <<<<x1, d1>>, <<x2, d2>>, <<x3, d3>>, <<x4, d4>>, <<x5, d5>>>>
             e == <<d1, d2, d3, d4, d5>>
  <1>1. /\ e[1] = d1 /\ k[1] = <<x1, e[1]>>
        /\ e[2] = d2 /\ k[2] = <<x2, e[2]>>
        /\ e[3] = d3 /\ k[3] = <<x3, e[3]>>
        /\ e[4] = d4 /\ k[4] = <<x4, e[4]>>
        /\ e[5] = d5 /\ k[5] = <<x5, e[5]>>
    OBVIOUS
  <1>2. /\ k = [i \in 1..5 |-> k[i]] /\ e = [i \in 1..5 |-> e[i]] /\ 5 \in Nat
        /\ \A i \in 1..5 : i = 1 \/ i = 2 \/ i = 3 \/ i = 4 \/ i = 5
    OBVIOUS
  <1> HIDE DEF k, e
  <1>3. \A i \in 1..5 : e[i] \in Directions /\ \E x \in Keyed : k[i] = <<x, e[i]>>
    BY <1>1, <1>2
  <1>4. QED
    BY <1>2, <1>3, KeysAre DEF k, e

\* From the m-th place on, x is s.
EndsWith(x, s, m) == \A i \in 1..Len(s) : x[m + i] = s[i]

\* Keys appended are keys.
LEMMA AppendedIsKeyed ==
    ASSUME NEW k, NEW l, NEW dirs \in Seq(Directions), NEW others \in Seq(Directions),
           NEW m, NEW n, IsKeyed(k, dirs, m), IsKeyed(l, others, n),
           Len(dirs) = m, Len(others) = n
    PROVE  /\ IsKeyed(k \o l, dirs \o others, m + n)
           /\ dirs \o others \in Seq(Directions) /\ Len(dirs \o others) = m + n
           /\ EndsWith(k \o l, l, m)
  <1> DEFINE x == k \o l
             e == dirs \o others
  <1>1. m \in Nat /\ n \in Nat
    OBVIOUS
  <1>2. /\ k \in Seq(AKey) /\ Len(k) = m /\ l \in Seq(AKey) /\ Len(l) = n
        /\ HasKeys(k, dirs) /\ HasKeys(l, others)
    BY DEF IsKeyed
  <1>3. /\ x \in Seq(AKey) /\ Len(x) = m + n /\ x = [i \in 1..(m + n) |-> x[i]]
        /\ \A i \in 1..m : x[i] = k[i]
        /\ \A i \in 1..n : x[m + i] = l[i]
    <2>1. x \in Seq(AKey) /\ IsAppended(x, k, l)
      BY <1>2, AppendedIs
    <2> HIDE DEF x
    <2>2. QED
      BY <1>2, <2>1 DEF IsAppended
  <1>4. /\ e \in Seq(Directions) /\ Len(e) = m + n
        /\ \A i \in 1..m : e[i] = dirs[i]
        /\ \A i \in 1..n : e[m + i] = others[i]
    <2>1. e \in Seq(Directions) /\ IsAppended(e, dirs, others)
      BY AppendedIs
    <2> HIDE DEF e
    <2>2. QED
      BY <2>1 DEF IsAppended
  <1> HIDE DEF x, e
  <1>7. ASSUME NEW i \in 1..(m + n)
        PROVE  x[i] = <<x[i][1], e[i]>> /\ x[i][1] \in Keyed
    <2>1. CASE i <= m
      <3>1. i \in 1..m
        BY <1>1, <2>1
      <3>2. k[i] = <<k[i][1], dirs[i]>> /\ k[i][1] \in Keyed
        BY <1>2, <3>1 DEF HasKeys
      <3>3. QED
        BY <1>3, <1>4, <3>1, <3>2
    <2>2. CASE m < i
      <3>1. i - m \in 1..n /\ m + (i - m) = i
        BY <1>1, <2>2
      <3>2. l[i - m] = <<l[i - m][1], others[i - m]>> /\ l[i - m][1] \in Keyed
        BY <1>2, <3>1 DEF HasKeys
      <3>3. x[i] = l[i - m] /\ e[i] = others[i - m]
        BY <1>3, <1>4, <3>1
      <3>4. QED
        BY <3>2, <3>3
    <2>3. QED
      BY <1>1, <2>1, <2>2
  <1>8. HasKeys(x, e)
    BY <1>3, <1>4, <1>7 DEF HasKeys
  <1>9. QED
    BY <1>2, <1>3, <1>4, <1>8 DEF IsKeyed, EndsWith, x, e

\* The first comparison that is not zero decides.
LEMMA FirstNonZeroIs ==
    ASSUME NEW n \in Nat, NEW s \in [1..n -> Int]
    PROVE  /\ Flexi!FirstNonZero(s) \in Int
           /\ Flexi!FirstNonZero(s) < 0
                  <=> \E i \in 1..n : s[i] < 0 /\ \A j \in 1..(i - 1) : s[j] = 0
  <1> DEFINE D == {i \in 1..n : s[i] # 0}
             Decides(i) == i \in 1..n /\ s[i] # 0 /\ \A j \in 1..(i - 1) : s[j] = 0
  <1>1. CASE D = {}
    <2>1. Flexi!FirstNonZero(s) = 0
      BY <1>1 DEF Flexi!FirstNonZero
    <2>2. QED
      BY <1>1, <2>1
  <1>2. CASE D # {}
    <2>1. D \in SUBSET (1..n) /\ IsFiniteSet(1..n) /\ (1..n) \in SUBSET Int
      BY FS_Interval
    <2>2. IsFiniteSet(D) /\ D \in SUBSET Int
      <3> HIDE DEF D
      <3>1. QED
        BY <2>1, FS_Subset
    <2>3. PICK k \in D : \A j \in D : k <= j
      <3> HIDE DEF D
      <3>1. QED
        BY <1>2, <2>2, EndsExist
    <2>4. \A j \in 1..(k - 1) : j \in 1..n /\ ~(k <= j)
      BY <2>3
    <2>5. Decides(k)
      BY <2>3, <2>4
    <2>6. \A i, j : Decides(i) /\ Decides(j) => i = j
      <3> SUFFICES ASSUME NEW i, NEW j, Decides(i), Decides(j)
                   PROVE  i = j
        OBVIOUS
      <3>1. CASE i < j
        <4>1. i \in 1..(j - 1)
          BY <3>1
        <4>2. QED
          BY <4>1
      <3>2. CASE j < i
        <4>1. j \in 1..(i - 1)
          BY <3>2
        <4>2. QED
          BY <4>1
      <3>3. QED
        BY <3>1, <3>2
    <2>7. Flexi!FirstNonZero(s) = s[CHOOSE i \in 1..n :
              s[i] # 0 /\ \A j \in 1..(i - 1) : s[j] = 0]
      <3>1. DOMAIN s = 1..n
        OBVIOUS
      <3>2. ~ \A i \in DOMAIN s : s[i] = 0
        BY <1>2
      <3>3. QED
        BY <3>1, <3>2, Zenon DEF Flexi!FirstNonZero
    <2>8. (CHOOSE i \in 1..n : s[i] # 0 /\ \A j \in 1..(i - 1) : s[j] = 0) = k
      BY <2>5, <2>6
    <2>9. Flexi!FirstNonZero(s) = s[k]
      BY <2>7, <2>8
    <2>10. \A i \in 1..n : s[i] < 0 /\ (\A j \in 1..(i - 1) : s[j] = 0) => Decides(i)
      OBVIOUS
    <2> HIDE DEF Decides
    <2>11. \A i \in 1..n : s[i] < 0 /\ (\A j \in 1..(i - 1) : s[j] = 0) => i = k
      BY <2>5, <2>6, <2>10
    <2>12. QED
      BY <2>5, <2>9, <2>11 DEF Decides
  <1>3. QED
    BY <1>1, <1>2

LEMMA FirstOfTwo ==
    ASSUME NEW a \in Int, NEW b \in Int
    PROVE  /\ Flexi!FirstNonZero(<<a, b>>) \in Int
           /\ Flexi!FirstNonZero(<<a, b>>) < 0 <=> a < 0 \/ (a = 0 /\ b < 0)
  <1> DEFINE s == <<a, b>>
  <1>1. s \in [1..2 -> Int] /\ s[1] = a /\ s[2] = b
    OBVIOUS
  <1>2. \A i \in 1..2 : (\A j \in 1..(i - 1) : s[j] = 0) <=> (i = 1 \/ a = 0)
    OBVIOUS
  <1>3. 2 \in Nat /\ \A i : i \in 1..2 <=> i = 1 \/ i = 2
    OBVIOUS
  <1> HIDE DEF s
  <1>4. /\ Flexi!FirstNonZero(s) \in Int
        /\ Flexi!FirstNonZero(s) < 0
               <=> \E i \in 1..2 : s[i] < 0 /\ \A j \in 1..(i - 1) : s[j] = 0
    BY <1>1, <1>3, FirstNonZeroIs
  <1>5. Flexi!FirstNonZero(s) < 0 <=> a < 0 \/ (a = 0 /\ b < 0)
    BY <1>1, <1>2, <1>3, <1>4
  <1>6. QED
    BY <1>4, <1>5 DEF s

LEMMA FirstOfFour ==
    ASSUME NEW a \in Int, NEW b \in Int, NEW c \in Int, NEW e \in Int
    PROVE  /\ Flexi!FirstNonZero(<<a, b, c, e>>) \in Int
           /\ Flexi!FirstNonZero(<<a, b, c, e>>) < 0
                  <=> \/ a < 0
                      \/ a = 0 /\ b < 0
                      \/ a = 0 /\ b = 0 /\ c < 0
                      \/ a = 0 /\ b = 0 /\ c = 0 /\ e < 0
  <1> DEFINE s == <<a, b, c, e>>
  <1>1. s \in [1..4 -> Int] /\ s[1] = a /\ s[2] = b /\ s[3] = c /\ s[4] = e
    OBVIOUS
  <1>2. \A i \in 1..4 : (\A j \in 1..(i - 1) : s[j] = 0)
            <=> (i > 1 => a = 0) /\ (i > 2 => b = 0) /\ (i > 3 => c = 0)
    OBVIOUS
  <1>3. 4 \in Nat /\ \A i : i \in 1..4 <=> i = 1 \/ i = 2 \/ i = 3 \/ i = 4
    OBVIOUS
  <1> HIDE DEF s
  <1>4. /\ Flexi!FirstNonZero(s) \in Int
        /\ Flexi!FirstNonZero(s) < 0
               <=> \E i \in 1..4 : s[i] < 0 /\ \A j \in 1..(i - 1) : s[j] = 0
    BY <1>1, <1>3, FirstNonZeroIs
  <1>5. Flexi!FirstNonZero(s) < 0
            <=> \E i \in 1..4 : s[i] < 0 /\ (i > 1 => a = 0) /\ (i > 2 => b = 0)
                                /\ (i > 3 => c = 0)
    BY <1>2, <1>4
  <1>6. QED
    BY <1>1, <1>3, <1>4, <1>5 DEF s

\* Orders of rows by one, three, four and five keys.
LEMMA OneKey ==
    ASSUME NEW x1, NEW y1, NEW d1
    PROVE  Flexi!SqlBefore(<<<<x1, d1>>>>, <<<<y1, d1>>>>) <=> Flexi!SqlLess(x1, y1, d1)
  BY DEF Flexi!SqlBefore

LEMMA TwoKeys ==
    ASSUME NEW x1, NEW y1, NEW d1, NEW x2, NEW y2, NEW d2
    PROVE  Flexi!SqlBefore(<<<<x1, d1>>, <<x2, d2>>>>, <<<<y1, d1>>, <<y2, d2>>>>) <=>
               \/ Flexi!SqlLess(x1, y1, d1)
               \/ x1 = y1 /\ Flexi!SqlLess(x2, y2, d2)
  BY DEF Flexi!SqlBefore

LEMMA ThreeKeys ==
    ASSUME NEW x1, NEW y1, NEW d1, NEW x2, NEW y2, NEW d2, NEW x3, NEW y3, NEW d3
    PROVE  Flexi!SqlBefore(<<<<x1, d1>>, <<x2, d2>>, <<x3, d3>>>>,
                           <<<<y1, d1>>, <<y2, d2>>, <<y3, d3>>>>) <=>
               \/ Flexi!SqlLess(x1, y1, d1)
               \/ x1 = y1 /\ Flexi!SqlLess(x2, y2, d2)
               \/ x1 = y1 /\ x2 = y2 /\ Flexi!SqlLess(x3, y3, d3)
  BY DEF Flexi!SqlBefore

LEMMA FourKeys ==
    ASSUME NEW x1, NEW y1, NEW d1, NEW x2, NEW y2, NEW d2, NEW x3, NEW y3, NEW d3,
           NEW x4, NEW y4, NEW d4
    PROVE  Flexi!SqlBefore(<<<<x1, d1>>, <<x2, d2>>, <<x3, d3>>, <<x4, d4>>>>,
                           <<<<y1, d1>>, <<y2, d2>>, <<y3, d3>>, <<y4, d4>>>>) <=>
               \/ Flexi!SqlLess(x1, y1, d1)
               \/ x1 = y1 /\ Flexi!SqlLess(x2, y2, d2)
               \/ x1 = y1 /\ x2 = y2 /\ Flexi!SqlLess(x3, y3, d3)
               \/ x1 = y1 /\ x2 = y2 /\ x3 = y3 /\ Flexi!SqlLess(x4, y4, d4)
  BY DEF Flexi!SqlBefore

LEMMA FiveKeys ==
    ASSUME NEW x1, NEW y1, NEW d1, NEW x2, NEW y2, NEW d2, NEW x3, NEW y3, NEW d3,
           NEW x4, NEW y4, NEW d4, NEW x5, NEW y5, NEW d5
    PROVE  Flexi!SqlBefore(<<<<x1, d1>>, <<x2, d2>>, <<x3, d3>>, <<x4, d4>>, <<x5, d5>>>>,
                           <<<<y1, d1>>, <<y2, d2>>, <<y3, d3>>, <<y4, d4>>, <<y5, d5>>>>) <=>
               \/ Flexi!SqlLess(x1, y1, d1)
               \/ x1 = y1 /\ Flexi!SqlLess(x2, y2, d2)
               \/ x1 = y1 /\ x2 = y2 /\ Flexi!SqlLess(x3, y3, d3)
               \/ x1 = y1 /\ x2 = y2 /\ x3 = y3 /\ Flexi!SqlLess(x4, y4, d4)
               \/ x1 = y1 /\ x2 = y2 /\ x3 = y3 /\ x4 = y4 /\ Flexi!SqlLess(x5, y5, d5)
  BY DEF Flexi!SqlBefore

-----------------------------------------------------------------------------
(* The dashboard: dates and scores *)

Dates == [m : 0..35, d : Int, h : Int]

\* An assignment whose dates are in the three years of the calendar.
IsAssignment(a) ==
    /\ {a.id, a.member, a.handle, a.updatedAt} \subseteq Int
    /\ {a.startDate, a.endDate} \subseteq Dates \union {None}
    /\ a.months \in Keyed
    /\ a.startDate # None /\ a.months # None => a.startDate.m + a.months \in 0..35

\* A dashboard as the database keeps it.
IsDashboard(d) ==
    /\ IsFiniteSet(d.engagements) /\ IsFiniteSet(d.assignments)
    /\ \A e \in d.engagements : e.id \in Int /\ e.title \in Int
    /\ \A e, f \in d.engagements : e.id = f.id => e = f
    /\ \A a \in d.assignments : IsAssignment(a)
    /\ \A a, b \in d.assignments : a.id = b.id => a = b
    /\ \A a \in d.assignments : \E e \in d.engagements : e.id = a.engagement

LEMMA MonthsStart == \A m \in 0..35 : Flexi!MonthStart[m] \in Nat
  <1> TAKE m \in 0..35
  <1> DEFINE P == (0..m - 1) \X (1..31)
             D == {date \in P : date[2] <= Flexi!MonthLength(date[1])}
  <1>1. IsFiniteSet(0..m - 1) /\ IsFiniteSet(1..31)
    <2>1. m - 1 \in Int /\ 0 \in Int /\ 1 \in Int /\ 31 \in Int
      OBVIOUS
    <2>2. QED
      BY <2>1, FS_Interval
  <1>2. IsFiniteSet(P)
    BY <1>1, FS_Product
  <1>3. IsFiniteSet(D)
    <2>1. D \in SUBSET P
      OBVIOUS
    <2> HIDE DEF P, D
    <2>2. QED
      BY <1>2, <2>1, FS_Subset
  <1>4. Flexi!MonthStart[m] = Flexi!Cardinality(D)
    BY DEF Flexi!MonthStart
  <1> HIDE DEF D
  <1>5. QED
    BY <1>3, <1>4, FlexiSizesAre, FS_CardinalityType

\* Both languages give an assignment the same end.
LEMMA EndsAgree ==
    ASSUME NEW a, IsAssignment(a)
    PROVE  /\ Flexi!ResolvedEnd(a) \in Keyed
           /\ Flexi!SqlEnd(a) = Flexi!ResolvedEnd(a)
  <1>1. CASE a.endDate # None
    <2>1. a.endDate \in Dates
      BY <1>1 DEF IsAssignment
    <2>2. Flexi!At(a.endDate) \in Int
      BY <2>1, MonthsStart DEF Flexi!At, Dates
    <2>3. QED
      BY <1>1, <2>2 DEF Flexi!ResolvedEnd, Flexi!SqlEnd, Keyed
  <1>2. CASE a.endDate = None /\ (a.startDate = None \/ a.months = None)
    BY <1>2 DEF Flexi!ResolvedEnd, Flexi!SqlEnd, Keyed
  <1>3. CASE a.endDate = None /\ a.startDate # None /\ a.months # None
    <2> DEFINE n == a.startDate.m + a.months
               moved == [a.startDate EXCEPT !.m = @ + a.months]
    <2>1. a.startDate \in Dates /\ n \in 0..35
      BY <1>3 DEF IsAssignment
    <2>2. moved.m = n /\ moved.d = a.startDate.d /\ moved.h = a.startDate.h
      BY <2>1 DEF Dates
    <2>3. Flexi!ResolvedEnd(a) = Flexi!At(moved)
      BY <1>3 DEF Flexi!ResolvedEnd
    <2>4. Flexi!SqlEnd(a)
              = 2 * Flexi!MonthStart[n] + 2 * (a.startDate.d - 1) + a.startDate.h
      BY <1>3 DEF Flexi!SqlEnd
    <2> HIDE DEF n, moved
    <2>5. Flexi!MonthStart[n] \in Nat
      BY <2>1, MonthsStart
    <2>6. a.startDate.d \in Int /\ a.startDate.h \in Int
      BY <2>1 DEF Dates
    <2>7. Flexi!At(moved) = 2 * (Flexi!MonthStart[n] + a.startDate.d - 1) + a.startDate.h
      BY <2>2 DEF Flexi!At
    <2>8. QED
      BY <2>3, <2>4, <2>5, <2>6, <2>7 DEF Keyed
  <1>4. QED
    BY <1>1, <1>2, <1>3

LEMMA DaysLeftAre ==
    ASSUME NEW end \in Keyed
    PROVE  Flexi!DaysLeft(end) \in Keyed /\ (Flexi!DaysLeft(end) = None <=> end = None)
  <1>1. None \notin Int /\ Today \in Int
    BY NoneIsNoAnswer, TodayIsAnInstant
  <1>2. \A x \in Int : Flexi!Day(x) \in Int
    BY DEF Flexi!Day
  <1>3. QED
    BY <1>1, <1>2 DEF Flexi!DaysLeft, Keyed

\* What SQL scores an assignment with.
Score(d, a) ==
    [id |-> a.id, member |-> a.member, handle |-> a.handle,
     title |-> Flexi!EngagementOf(d, a).title,
     isCurrent |-> a.status \in Flexi!Assigned,
     isCompletion |-> a.status \in Flexi!Completed,
     end |-> Flexi!SqlEnd(a), daysRemaining |-> Flexi!DaysLeft(Flexi!SqlEnd(a)),
     latest |-> IF Flexi!SqlEnd(a) = None THEN a.updatedAt ELSE Flexi!SqlEnd(a)]

Searched(d, handle) == {b \in Flexi!Qualifying(d) : handle \in {None, b.handle}}

LEMMA ScoredAre ==
    ASSUME NEW d, NEW handle
    PROVE  Flexi!Scored(d, handle) = {Score(d, a) : a \in Searched(d, handle)}
  BY DEF Flexi!Scored, Score, Searched

LEMMA AssignmentIs ==
    ASSUME NEW d, IsDashboard(d), NEW a \in d.assignments
    PROVE  /\ a.id \in Int /\ a.member \in Int /\ a.handle \in Int
           /\ Flexi!EngagementOf(d, a) \in d.engagements
           /\ Flexi!EngagementOf(d, a).title \in Int
           /\ Flexi!ResolvedEnd(a) \in Keyed /\ Flexi!SqlEnd(a) = Flexi!ResolvedEnd(a)
           /\ Flexi!CompletionTime(a) \in Int
           /\ a.status \in Flexi!Completed => Score(d, a).latest = Flexi!CompletionTime(a)
  <1>1. IsAssignment(a)
    BY DEF IsDashboard
  <1>2. Flexi!EngagementOf(d, a) \in d.engagements
    BY DEF IsDashboard, Flexi!EngagementOf
  <1>3. Flexi!ResolvedEnd(a) \in Keyed /\ Flexi!SqlEnd(a) = Flexi!ResolvedEnd(a)
    BY <1>1, EndsAgree
  <1>4. a.id \in Int /\ a.member \in Int /\ a.handle \in Int /\ a.updatedAt \in Int
    BY <1>1 DEF IsAssignment
  <1>5. Flexi!CompletionTime(a) \in Int
    BY <1>3, <1>4 DEF Flexi!CompletionTime, Keyed
  <1>6. a.status \in Flexi!Completed => Score(d, a).latest = Flexi!CompletionTime(a)
    BY <1>3 DEF Flexi!CompletionTime, Flexi!Completed, Score
  <1>7. QED
    BY <1>2, <1>3, <1>4, <1>5, <1>6 DEF IsDashboard

LEMMA ScoresAreApart ==
    ASSUME NEW d, IsDashboard(d), NEW a \in d.assignments, NEW b \in d.assignments,
           Score(d, a).id = Score(d, b).id
    PROVE  a = b
  BY DEF IsDashboard, Score

\* Titles, handles, members and ids decide alike.
LEMMA TiesAgree ==
    ASSUME NEW d, IsDashboard(d), NEW a \in d.assignments, NEW b \in d.assignments
    PROVE  /\ Flexi!CompareTies(d, a, b) \in Int
           /\ Flexi!CompareTies(d, a, b) < 0
                  <=> Flexi!SqlBefore(Flexi!Ties(Score(d, a)), Flexi!Ties(Score(d, b)))
  <1> DEFINE t(x) == Flexi!EngagementOf(d, x).title
  <1>1. /\ t(a) \in Int /\ a.handle \in Int /\ a.member \in Int /\ a.id \in Int
        /\ t(b) \in Int /\ b.handle \in Int /\ b.member \in Int /\ b.id \in Int
    BY AssignmentIs
  <1>2. \A x : Flexi!Ties(Score(d, x)) = <<<<t(x), "asc">>, <<x.handle, "asc">>,
                                           <<x.member, "asc">>, <<x.id, "asc">>>>
    BY DEF Flexi!Ties, Score
  <1>3. Flexi!CompareTies(d, a, b) = Flexi!FirstNonZero(
            <<t(a) - t(b), a.handle - b.handle, a.member - b.member, a.id - b.id>>)
    BY DEF Flexi!CompareTies
  <1> HIDE DEF t
  <1>4. \A x, y \in Int : Flexi!SqlLess(x, y, "asc") <=> x < y
    BY NoneIsNoAnswer DEF Flexi!SqlLess
  <1>5. \A x, y \in Int : x - y \in Int /\ (x - y < 0 <=> x < y) /\ (x - y = 0 <=> x = y)
    OBVIOUS
  <1>6. /\ Flexi!CompareTies(d, a, b) \in Int
        /\ Flexi!CompareTies(d, a, b) < 0
               <=> \/ t(a) < t(b)
                   \/ t(a) = t(b) /\ a.handle < b.handle
                   \/ t(a) = t(b) /\ a.handle = b.handle /\ a.member < b.member
                   \/ /\ t(a) = t(b) /\ a.handle = b.handle /\ a.member = b.member
                      /\ a.id < b.id
    <2> DEFINE i == t(a) - t(b)
               j == a.handle - b.handle
               k == a.member - b.member
               l == a.id - b.id
    <2>1. i \in Int /\ j \in Int /\ k \in Int /\ l \in Int
      BY <1>1, <1>5
    <2>2. /\ (i < 0 <=> t(a) < t(b)) /\ (i = 0 <=> t(a) = t(b))
          /\ (j < 0 <=> a.handle < b.handle) /\ (j = 0 <=> a.handle = b.handle)
          /\ (k < 0 <=> a.member < b.member) /\ (k = 0 <=> a.member = b.member)
          /\ (l < 0 <=> a.id < b.id)
      BY <1>1, <1>5
    <2>3. Flexi!CompareTies(d, a, b) = Flexi!FirstNonZero(<<i, j, k, l>>)
      BY <1>3
    <2> HIDE DEF i, j, k, l
    <2>4. QED
      BY <2>1, <2>2, <2>3, FirstOfFour
  <1>7. Flexi!SqlBefore(Flexi!Ties(Score(d, a)), Flexi!Ties(Score(d, b)))
            <=> \/ t(a) < t(b)
                \/ t(a) = t(b) /\ a.handle < b.handle
                \/ t(a) = t(b) /\ a.handle = b.handle /\ a.member < b.member
                \/ /\ t(a) = t(b) /\ a.handle = b.handle /\ a.member = b.member
                   /\ a.id < b.id
    <2>1. Flexi!SqlBefore(Flexi!Ties(Score(d, a)), Flexi!Ties(Score(d, b)))
              <=> \/ Flexi!SqlLess(t(a), t(b), "asc")
                  \/ t(a) = t(b) /\ Flexi!SqlLess(a.handle, b.handle, "asc")
                  \/ /\ t(a) = t(b) /\ a.handle = b.handle
                     /\ Flexi!SqlLess(a.member, b.member, "asc")
                  \/ /\ t(a) = t(b) /\ a.handle = b.handle /\ a.member = b.member
                     /\ Flexi!SqlLess(a.id, b.id, "asc")
      <3>1. /\ Flexi!Ties(Score(d, a)) = <<<<t(a), "asc">>, <<a.handle, "asc">>,
                                           <<a.member, "asc">>, <<a.id, "asc">>>>
            /\ Flexi!Ties(Score(d, b)) = <<<<t(b), "asc">>, <<b.handle, "asc">>,
                                           <<b.member, "asc">>, <<b.id, "asc">>>>
        BY <1>2
      <3>2. QED
        BY <3>1 DEF Flexi!SqlBefore
    <2>2. QED
      BY <1>1, <1>4, <2>1
  <1>8. QED
    BY <1>6, <1>7

-----------------------------------------------------------------------------
(* The dashboard: a member's primary *)

LEMMA ComparisonsAre ==
    ASSUME NEW x \in Keyed, NEW y \in Keyed
    PROVE  /\ Flexi!CompareAsc(x, y) \in Int
           /\ Flexi!CompareAsc(x, y) < 0 <=> x # None /\ (y = None \/ x < y)
           /\ Flexi!CompareAsc(x, y) = 0 <=> x = y
           /\ Flexi!CompareDesc(x, y) \in Int
           /\ Flexi!CompareDesc(x, y) < 0 <=> x # None /\ (y = None \/ y < x)
           /\ Flexi!CompareDesc(x, y) = 0 <=> x = y
  <1>1. None \notin Int
    BY NoneIsNoAnswer
  <1>2. CASE x \in Int /\ y \in Int
    BY <1>1, <1>2 DEF Flexi!CompareAsc, Flexi!CompareDesc
  <1>3. CASE x = None /\ y = None
    BY <1>3 DEF Flexi!CompareAsc, Flexi!CompareDesc
  <1>4. CASE x = None /\ y \in Int
    BY <1>1, <1>4 DEF Flexi!CompareAsc, Flexi!CompareDesc
  <1>5. CASE x \in Int /\ y = None
    BY <1>1, <1>5 DEF Flexi!CompareAsc, Flexi!CompareDesc
  <1>6. QED
    BY <1>2, <1>3, <1>4, <1>5 DEF Keyed

\* Of two assignments of a member, which one the service puts first.
Sooner(d, a, b, current) ==
    IF current THEN Flexi!EndsBefore(d, a, b) ELSE Flexi!CompletedAfter(d, a, b)

LEMMA SoonerIs ==
    ASSUME NEW d, IsDashboard(d), NEW a \in d.assignments, NEW b \in d.assignments
    PROVE  LET x == Flexi!ResolvedEnd(a)
               y == Flexi!ResolvedEnd(b)
           IN  /\ Flexi!EndsBefore(d, a, b)
                      <=> \/ x # None /\ (y = None \/ x < y)
                          \/ x = y /\ Flexi!CompareTies(d, a, b) < 0
               /\ Flexi!CompletedAfter(d, a, b)
                      <=> \/ Flexi!CompletionTime(b) < Flexi!CompletionTime(a)
                          \/ /\ Flexi!CompletionTime(b) = Flexi!CompletionTime(a)
                             /\ Flexi!CompareTies(d, a, b) < 0
  <1> DEFINE x == Flexi!ResolvedEnd(a)
             y == Flexi!ResolvedEnd(b)
             u == Flexi!CompletionTime(a)
             v == Flexi!CompletionTime(b)
             c == Flexi!CompareAsc(x, y)
             t == Flexi!CompareTies(d, a, b)
  <1>1. x \in Keyed /\ y \in Keyed /\ u \in Int /\ v \in Int
    BY AssignmentIs
  <1>2. t \in Int
    BY TiesAgree
  <1>3. /\ Flexi!EndsBefore(d, a, b) <=> Flexi!FirstNonZero(<<c, t>>) < 0
        /\ Flexi!CompletedAfter(d, a, b) <=> Flexi!FirstNonZero(<<v - u, t>>) < 0
    BY DEF Flexi!EndsBefore, Flexi!CompletedAfter
  <1>4. /\ c \in Int /\ (c < 0 <=> x # None /\ (y = None \/ x < y))
        /\ (c = 0 <=> x = y)
    <2> HIDE DEF x, y
    <2>1. QED
      BY <1>1, ComparisonsAre
  <1> HIDE DEF x, y, u, v, c, t
  <1>5. Flexi!EndsBefore(d, a, b) <=> \/ x # None /\ (y = None \/ x < y)
                                      \/ x = y /\ t < 0
    BY <1>2, <1>3, <1>4, FirstOfTwo
  <1>6. Flexi!CompletedAfter(d, a, b) <=> v < u \/ (v = u /\ t < 0)
    <2> DEFINE w == v - u
    <2>1. w \in Int /\ (w < 0 <=> v < u) /\ (w = 0 <=> v = u)
      BY <1>1
    <2>2. Flexi!CompletedAfter(d, a, b) <=> Flexi!FirstNonZero(<<w, t>>) < 0
      BY <1>3
    <2> HIDE DEF w
    <2>3. QED
      BY <1>2, <2>1, <2>2, FirstOfTwo
  <1>7. QED
    BY <1>5, <1>6 DEF x, y, u, v, t

TiesDirs == <<"asc", "asc", "asc", "asc">>

LEMMA TiesAre ==
    ASSUME NEW d, IsDashboard(d), NEW a \in d.assignments
    PROVE  /\ IsKeyed(Flexi!Ties(Score(d, a)), TiesDirs, 4)
           /\ Flexi!Ties(Score(d, a))[4][1] = a.id
  <1> DEFINE t == Flexi!EngagementOf(d, a).title
             k == <<<<t, "asc">>, <<a.handle, "asc">>, <<a.member, "asc">>, <<a.id, "asc">>>>
  <1>1. t \in Keyed /\ a.handle \in Keyed /\ a.member \in Keyed /\ a.id \in Keyed
    BY AssignmentIs DEF Keyed
  <1>2. Flexi!Ties(Score(d, a)) = k
    BY DEF Flexi!Ties, Score
  <1> HIDE DEF t
  <1>3. k[4][1] = a.id /\ "asc" \in Directions
    BY DEF Directions
  <1>4. IsKeyed(k, TiesDirs, 4)
    BY <1>1, <1>3, FourAreKeyed DEF TiesDirs
  <1>5. QED
    BY <1>2, <1>3, <1>4

\* The keys before the ties, in the list of a member's assignments.
PrimaryHead(s, current) ==
    <<<<IF current /\ s.isCurrent /\ s.end = None THEN 1 ELSE 0, "asc">>,
      <<IF current /\ s.isCurrent THEN s.end ELSE None, "asc">>,
      <<IF ~current /\ s.isCompletion THEN s.latest ELSE None, "desc">>>>

PrimaryDirs == <<"asc", "asc", "desc">>

LEMMA PrimaryHeadIs ==
    ASSUME NEW d, IsDashboard(d), NEW a \in d.assignments, NEW current \in BOOLEAN,
           a.status \in IF current THEN Flexi!Assigned ELSE Flexi!Completed
    PROVE  LET s == Score(d, a)
               x == Flexi!ResolvedEnd(a)
           IN  /\ PrimaryHead(s, current) =
                      IF current
                      THEN <<<<IF x = None THEN 1 ELSE 0, "asc">>, <<x, "asc">>,
                             <<None, "desc">>>>
                      ELSE <<<<0, "asc">>, <<None, "asc">>,
                             <<Flexi!CompletionTime(a), "desc">>>>
               /\ IsKeyed(PrimaryHead(s, current), PrimaryDirs, 3)
  <1> DEFINE s == Score(d, a)
             x == Flexi!ResolvedEnd(a)
             u == Flexi!CompletionTime(a)
             i == IF current /\ s.isCurrent /\ s.end = None THEN 1 ELSE 0
             j == IF current /\ s.isCurrent THEN s.end ELSE None
             k == IF ~current /\ s.isCompletion THEN s.latest ELSE None
  <1>1. x \in Keyed /\ u \in Int /\ Flexi!SqlEnd(a) = x
        /\ (a.status \in Flexi!Completed => s.latest = u)
    BY AssignmentIs
  <1>2. /\ s.isCurrent = (a.status \in Flexi!Assigned)
        /\ s.isCompletion = (a.status \in Flexi!Completed)
        /\ s.end = Flexi!SqlEnd(a)
    BY DEF Score
  <1> HIDE DEF s, x, u
  <1>3. /\ i = IF current /\ x = None THEN 1 ELSE 0
        /\ j = IF current THEN x ELSE None
        /\ k = IF current THEN None ELSE u
    BY <1>1, <1>2
  <1>4. PrimaryHead(s, current) = <<<<i, "asc">>, <<j, "asc">>, <<k, "desc">>>>
    BY DEF PrimaryHead
  <1>5. i \in Keyed /\ j \in Keyed /\ k \in Keyed
    BY <1>1, <1>3 DEF Keyed
  <1> HIDE DEF i, j, k
  <1>6. IsKeyed(PrimaryHead(s, current), PrimaryDirs, 3)
    <2>1. "asc" \in Directions /\ "desc" \in Directions
      BY DEF Directions
    <2>2. QED
      BY <1>4, <1>5, <2>1, ThreeAreKeyed DEF PrimaryDirs
  <1>7. PrimaryHead(s, current) =
            IF current
            THEN <<<<IF x = None THEN 1 ELSE 0, "asc">>, <<x, "asc">>, <<None, "desc">>>>
            ELSE <<<<0, "asc">>, <<None, "asc">>, <<u, "desc">>>>
    BY <1>3, <1>4
  <1>8. QED
    BY <1>6, <1>7 DEF s, x, u

\* SQL numbers a member's assignments as the service sorts them.
LEMMA PrimaryKeysAgree ==
    ASSUME NEW d, IsDashboard(d), NEW a \in d.assignments, NEW b \in d.assignments,
           NEW current \in BOOLEAN,
           {a.status, b.status} \subseteq IF current THEN Flexi!Assigned ELSE Flexi!Completed
    PROVE  Sooner(d, a, b, current)
               <=> Flexi!SqlBefore(Flexi!PrimaryKeys(Score(d, a), current),
                                   Flexi!PrimaryKeys(Score(d, b), current))
  <1> DEFINE x == Flexi!ResolvedEnd(a)
             y == Flexi!ResolvedEnd(b)
             u == Flexi!CompletionTime(a)
             v == Flexi!CompletionTime(b)
             t == Flexi!CompareTies(d, a, b) < 0
             p == PrimaryHead(Score(d, a), current)
             r == PrimaryHead(Score(d, b), current)
  <1>1. x \in Keyed /\ y \in Keyed /\ u \in Int /\ v \in Int
    BY AssignmentIs
  <1>2. Flexi!SqlBefore(Flexi!PrimaryKeys(Score(d, a), current),
                        Flexi!PrimaryKeys(Score(d, b), current))
            <=> Flexi!SqlBefore(p, r) \/ (p = r /\ t)
    <2>1. /\ Flexi!PrimaryKeys(Score(d, a), current) = p \o Flexi!Ties(Score(d, a))
          /\ Flexi!PrimaryKeys(Score(d, b), current) = r \o Flexi!Ties(Score(d, b))
      BY DEF Flexi!PrimaryKeys, PrimaryHead
    <2>2. p \in Seq(AKey) /\ r \in Seq(AKey) /\ Len(p) = 3 /\ Len(r) = 3
      BY PrimaryHeadIs DEF IsKeyed
    <2>3. /\ Flexi!Ties(Score(d, a)) \in Seq(AKey) /\ Len(Flexi!Ties(Score(d, a))) = 4
          /\ Flexi!Ties(Score(d, b)) \in Seq(AKey) /\ Len(Flexi!Ties(Score(d, b))) = 4
      BY TiesAre DEF IsKeyed
    <2>4. t <=> Flexi!SqlBefore(Flexi!Ties(Score(d, a)), Flexi!Ties(Score(d, b)))
      BY TiesAgree
    <2> HIDE DEF p, r, t
    <2>5. QED
      BY <2>1, <2>2, <2>3, <2>4, KeysAppended
  <1>3. /\ Flexi!EndsBefore(d, a, b)
               <=> (x # None /\ (y = None \/ x < y)) \/ (x = y /\ t)
        /\ Flexi!CompletedAfter(d, a, b) <=> v < u \/ (v = u /\ t)
    BY SoonerIs
  <1>4. None \notin Int
    BY NoneIsNoAnswer
  <1>5. CASE current
    <2> DEFINE i == IF x = None THEN 1 ELSE 0
               j == IF y = None THEN 1 ELSE 0
    <2>1. /\ p = <<<<i, "asc">>, <<x, "asc">>, <<None, "desc">>>>
          /\ r = <<<<j, "asc">>, <<y, "asc">>, <<None, "desc">>>>
      BY <1>5, PrimaryHeadIs
    <2>2. /\ i \in {0, 1} /\ (i = 1 <=> x = None)
          /\ j \in {0, 1} /\ (j = 1 <=> y = None)
      OBVIOUS
    <2> HIDE DEF i, j, x, y, p, r, t
    <2>3. Flexi!SqlBefore(p, r) <=> \/ Flexi!SqlLess(i, j, "asc")
                                    \/ i = j /\ Flexi!SqlLess(x, y, "asc")
                                    \/ i = j /\ x = y /\ Flexi!SqlLess(None, None, "desc")
      BY <2>1, ThreeKeys
    <2>4. Flexi!SqlBefore(p, r) <=> x # None /\ (y = None \/ x < y)
      BY <1>1, <1>4, <2>2, <2>3 DEF Flexi!SqlLess, Keyed
    <2>5. p = r <=> x = y
      BY <2>1, <2>2
    <2>6. QED
      BY <1>2, <1>3, <1>5, <2>4, <2>5 DEF Sooner
  <1>6. CASE ~current
    <2>1. /\ p = <<<<0, "asc">>, <<None, "asc">>, <<u, "desc">>>>
          /\ r = <<<<0, "asc">>, <<None, "asc">>, <<v, "desc">>>>
      BY <1>6, PrimaryHeadIs
    <2> HIDE DEF u, v, p, r, t
    <2>2. Flexi!SqlBefore(p, r) <=> \/ Flexi!SqlLess(0, 0, "asc")
                                    \/ Flexi!SqlLess(None, None, "asc")
                                    \/ Flexi!SqlLess(u, v, "desc")
      BY <2>1, ThreeKeys
    <2>3. Flexi!SqlBefore(p, r) <=> v < u
      BY <1>1, <1>4, <2>2 DEF Flexi!SqlLess
    <2>4. p = r <=> u = v
      BY <2>1
    <2>5. QED
      BY <1>2, <1>3, <1>6, <2>3, <2>4 DEF Sooner
  <1>7. QED
    BY <1>5, <1>6

Scores(d, C) == {Score(d, a) : a \in C}

SoonerOrder(d, C, current) == {p \in C \X C : Sooner(d, p[1], p[2], current)}

PrimaryOrder(T, current) ==
    {p \in T \X T : Flexi!SqlBefore(Flexi!PrimaryKeys(p[1], current),
                                    Flexi!PrimaryKeys(p[2], current))}

\* The assignments a member's primary is chosen from.
AreCandidates(d, C, current) ==
    /\ current \in BOOLEAN
    /\ C \subseteq d.assignments
    /\ \A a \in C : a.status \in IF current THEN Flexi!Assigned ELSE Flexi!Completed

LEMMA PrimaryKeysAre ==
    ASSUME NEW d, IsDashboard(d), NEW a \in d.assignments, NEW current \in BOOLEAN,
           a.status \in IF current THEN Flexi!Assigned ELSE Flexi!Completed
    PROVE  LET k == Flexi!PrimaryKeys(Score(d, a), current) IN
           IsKeyed(k, PrimaryDirs \o TiesDirs, 7) /\ k[7][1] = a.id
  <1> DEFINE h == PrimaryHead(Score(d, a), current)
             t == Flexi!Ties(Score(d, a))
  <1>1. Flexi!PrimaryKeys(Score(d, a), current) = h \o t
    BY DEF Flexi!PrimaryKeys, PrimaryHead
  <1>2. IsKeyed(h, PrimaryDirs, 3)
    BY PrimaryHeadIs
  <1>3. IsKeyed(t, TiesDirs, 4) /\ t[4][1] = a.id
    BY TiesAre
  <1> HIDE DEF h, t
  <1>4. PrimaryDirs \in Seq(Directions) /\ TiesDirs \in Seq(Directions)
        /\ Len(PrimaryDirs) = 3 /\ Len(TiesDirs) = 4
    BY DEF PrimaryDirs, TiesDirs, Directions
  <1>5. IsKeyed(h \o t, PrimaryDirs \o TiesDirs, 7) /\ EndsWith(h \o t, t, 3)
    <2> DEFINE m == 3
               n == 4
    <2>1. /\ IsKeyed(h, PrimaryDirs, m) /\ IsKeyed(t, TiesDirs, n)
          /\ Len(PrimaryDirs) = m /\ Len(TiesDirs) = n /\ m + n = 7
      BY <1>2, <1>3, <1>4
    <2> HIDE DEF m, n
    <2>2. IsKeyed(h \o t, PrimaryDirs \o TiesDirs, m + n) /\ EndsWith(h \o t, t, m)
      BY <1>4, <2>1, AppendedIsKeyed
    <2>3. QED
      BY <2>1, <2>2 DEF m
  <1> DEFINE k == h \o t
  <1>6. IsKeyed(k, PrimaryDirs \o TiesDirs, 7) /\ EndsWith(k, t, 3)
    BY <1>5
  <1> HIDE DEF k
  <1>7. k[3 + 4] = t[4]
    <2>1. Len(t) = 4 /\ 4 \in 1..4
      BY <1>3 DEF IsKeyed
    <2>2. QED
      BY <1>6, <2>1 DEF EndsWith
  <1>8. k[7][1] = a.id
    BY <1>3, <1>7
  <1>9. Flexi!PrimaryKeys(Score(d, a), current) = k
    BY <1>1 DEF k
  <1>10. QED
    BY <1>6, <1>8, <1>9

LEMMA CandidatesAreOrdered ==
    ASSUME NEW d, IsDashboard(d), NEW C, NEW current, AreCandidates(d, C, current)
    PROVE  /\ Carries([a \in C |-> Score(d, a)], C, SoonerOrder(d, C, current),
                      Scores(d, C), PrimaryOrder(Scores(d, C), current))
           /\ Orders(PrimaryOrder(Scores(d, C), current), Scores(d, C))
           /\ IsFiniteSet(C)
  <1> DEFINE f == [a \in C |-> Score(d, a)]
             T == Scores(d, C)
             R == SoonerOrder(d, C, current)
             Q == PrimaryOrder(T, current)
             dirs == PrimaryDirs \o TiesDirs
             keys == [s \in T |-> Flexi!PrimaryKeys(s, current)]
  <1>1. /\ current \in BOOLEAN
        /\ \A a \in C : /\ a \in d.assignments
                        /\ a.status \in IF current THEN Flexi!Assigned ELSE Flexi!Completed
    BY DEF AreCandidates
  <1>2. f \in Bijection(C, T)
    <2>1. f \in [C -> T] /\ \A t \in T : \E a \in C : f[a] = t
      BY DEF Scores
    <2>2. \A a, b \in C : f[a] = f[b] => a = b
      <3>1. \A a, b \in C : Score(d, a) = Score(d, b) => a = b
        BY <1>1, ScoresAreApart
      <3>2. QED
        BY <3>1
    <2> HIDE DEF f, T
    <2>3. QED
      BY <2>1, <2>2, BijectionIs
  <1>3. ASSUME NEW s \in T
        PROVE  HasKeys(keys[s], dirs) /\ Len(dirs) = 7 /\ keys[s][7][1] = s.id
    <2>1. PICK a \in C : s = Score(d, a)
      BY DEF Scores
    <2>2. /\ IsKeyed(Flexi!PrimaryKeys(Score(d, a), current), dirs, 7)
          /\ Flexi!PrimaryKeys(Score(d, a), current)[7][1] = a.id
      BY <1>1, PrimaryKeysAre
    <2>3. s.id = a.id
      BY <2>1 DEF Score
    <2> HIDE DEF dirs
    <2>4. keys[s] = Flexi!PrimaryKeys(Score(d, a), current)
      BY <2>1
    <2>5. Len(dirs) = 7
      BY DEF dirs, PrimaryDirs, TiesDirs
    <2>6. QED
      BY <2>2, <2>3, <2>4, <2>5 DEF IsKeyed
  <1>4. \A s, t \in T : keys[s] = keys[t] => s = t
    <2>1. \A s, t \in T : s.id = t.id => s = t
      BY <1>1, ScoresAreApart DEF Scores
    <2> HIDE DEF keys, T
    <2>2. QED
      BY <1>3, <2>1
  <1>5. \A s, t \in T : <<s, t>> \in Q <=> Flexi!SqlBefore(keys[s], keys[t])
    BY DEF PrimaryOrder
  <1>6. Orders(Q, T)
    <2>1. dirs \in Seq(Directions)
      BY DEF PrimaryDirs, TiesDirs, Directions
    <2> HIDE DEF dirs, keys, T, Q
    <2>2. QED
      BY <1>3, <1>4, <1>5, <2>1, KeysOrder
  <1>7. ASSUME NEW a \in C, NEW b \in C
        PROVE  <<a, b>> \in R <=> <<f[a], f[b]>> \in Q
    <2>1. Sooner(d, a, b, current)
              <=> Flexi!SqlBefore(Flexi!PrimaryKeys(Score(d, a), current),
                                  Flexi!PrimaryKeys(Score(d, b), current))
      BY <1>1, PrimaryKeysAgree
    <2>2. <<a, b>> \in R <=> Sooner(d, a, b, current)
      BY DEF SoonerOrder
    <2>3. Score(d, a) \in T /\ Score(d, b) \in T
      BY DEF Scores
    <2>4. <<Score(d, a), Score(d, b)>> \in Q
              <=> Flexi!SqlBefore(Flexi!PrimaryKeys(Score(d, a), current),
                                  Flexi!PrimaryKeys(Score(d, b), current))
      BY <2>3 DEF PrimaryOrder
    <2>5. QED
      BY <2>1, <2>2, <2>4
  <1>8. IsFiniteSet(C)
    BY FS_Subset DEF IsDashboard, AreCandidates
  <1>9. Carries(f, C, R, T, Q)
    <2> HIDE DEF f, R, T, Q
    <2>1. QED
      BY <1>2, <1>7 DEF Carries
  <1>10. QED
    BY <1>6, <1>8, <1>9

\* The row SQL numbers one is the score of the assignment the service puts first.
LEMMA PrimaryIsFirst ==
    ASSUME NEW d, IsDashboard(d), NEW C, NEW current, AreCandidates(d, C, current), C # {}
    PROVE  LET first == Flexi!FirstOf(C, SoonerOrder(d, C, current)) IN
           /\ IsFirst(first, SoonerOrder(d, C, current), C)
           /\ Flexi!FirstOf(Scores(d, C), PrimaryOrder(Scores(d, C), current))
                  = Score(d, first)
  <1> DEFINE f == [a \in C |-> Score(d, a)]
             R == SoonerOrder(d, C, current)
             T == Scores(d, C)
             Q == PrimaryOrder(T, current)
             first == Flexi!FirstOf(C, R)
  <1>1. Carries(f, C, R, T, Q) /\ Orders(Q, T) /\ IsFiniteSet(C)
    BY CandidatesAreOrdered
  <1>2. \A a \in C : f[a] = Score(d, a)
    OBVIOUS
  <1> HIDE DEF f, R, T, Q
  <1>3. first \in C /\ Flexi!FirstOf(T, Q) = f[first]
    BY <1>1, FirstsAreCarried
  <1>4. IsFirst(first, R, C)
    BY <1>1, OrdersAreCarried, FirstIs
  <1>5. QED
    BY <1>2, <1>3, <1>4 DEF R, T, Q

\* The assignments of rows that are current, or completed.
Among(rows, current) ==
    {a \in rows : a.status \in IF current THEN Flexi!Assigned ELSE Flexi!Completed}

\* The primary p of a member's rows is the current one that ends first or, without a
\* current one, the one that was completed last.
IsPrimary(d, rows, p) ==
    /\ p = [assignment |-> p.assignment, current |-> p.current, days |-> p.days,
            completedAt |-> p.completedAt]
    /\ p.current \in BOOLEAN
    /\ p.current <=> Among(rows, TRUE) # {}
    /\ p.assignment \in Among(rows, p.current)
    /\ \A b \in Among(rows, p.current) \ {p.assignment} :
           Sooner(d, p.assignment, b, p.current)
    /\ p.days = IF p.current THEN Flexi!DaysLeft(Flexi!ResolvedEnd(p.assignment)) ELSE None
    /\ p.completedAt = IF p.current THEN None ELSE Flexi!CompletionTime(p.assignment)

FirstAmong(d, rows, current) ==
    Flexi!FirstOf(Among(rows, current), SoonerOrder(d, Among(rows, current), current))

LEMMA PrimaryIs ==
    ASSUME NEW d, IsDashboard(d), NEW rows \in SUBSET d.assignments
    PROVE  /\ Among(rows, TRUE) \union Among(rows, FALSE) = {} => Flexi!Primary(d, rows) = {}
           /\ Among(rows, TRUE) \union Among(rows, FALSE) # {} =>
                  \E p : /\ Flexi!Primary(d, rows) = {p} /\ IsPrimary(d, rows, p)
                         /\ p.assignment = FirstAmong(d, rows, p.current)
  <1> DEFINE C == Among(rows, TRUE)
             D == Among(rows, FALSE)
             next == FirstAmong(d, rows, TRUE)
             last == FirstAmong(d, rows, FALSE)
             p == [assignment |-> next, current |-> TRUE,
                   days |-> Flexi!DaysLeft(Flexi!ResolvedEnd(next)), completedAt |-> None]
             q == [assignment |-> last, current |-> FALSE,
                   days |-> None, completedAt |-> Flexi!CompletionTime(last)]
  <1>1. AreCandidates(d, C, TRUE) /\ AreCandidates(d, D, FALSE)
    BY DEF AreCandidates, Among
  <1>2. Flexi!Primary(d, rows) = IF C # {} THEN {p} ELSE IF D # {} THEN {q} ELSE {}
    <2>1. C = {a \in rows : a.status \in Flexi!Assigned}
      BY DEF Among
    <2>2. D = {a \in rows : a.status \in Flexi!Completed}
      BY DEF Among
    <2>3. /\ SoonerOrder(d, C, TRUE) = {r \in C \X C : Flexi!EndsBefore(d, r[1], r[2])}
          /\ SoonerOrder(d, D, FALSE) = {r \in D \X D : Flexi!CompletedAfter(d, r[1], r[2])}
      BY DEF SoonerOrder, Sooner
    <2>4. /\ next = Flexi!FirstOf(C, {r \in C \X C : Flexi!EndsBefore(d, r[1], r[2])})
          /\ last = Flexi!FirstOf(D, {r \in D \X D : Flexi!CompletedAfter(d, r[1], r[2])})
      BY <2>3 DEF FirstAmong
    <2> HIDE DEF C, D, next, last
    <2>5. QED
      BY <2>1, <2>2, <2>4, Zenon DEF Flexi!Primary
  <1>3. ASSUME C # {}
        PROVE  IsPrimary(d, rows, p)
    <2>1. IsFirst(next, SoonerOrder(d, C, TRUE), C)
      BY <1>1, <1>3, PrimaryIsFirst DEF FirstAmong
    <2> HIDE DEF next
    <2>2. next \in C /\ \A b \in C \ {next} : Sooner(d, next, b, TRUE)
      BY <2>1 DEF IsFirst, SoonerOrder
    <2>3. QED
      BY <1>3, <2>2 DEF IsPrimary
  <1>4. ASSUME C = {}, D # {}
        PROVE  IsPrimary(d, rows, q)
    <2>1. IsFirst(last, SoonerOrder(d, D, FALSE), D)
      BY <1>1, <1>4, PrimaryIsFirst DEF FirstAmong
    <2> HIDE DEF last
    <2>2. last \in D /\ \A b \in D \ {last} : Sooner(d, last, b, FALSE)
      BY <2>1 DEF IsFirst, SoonerOrder
    <2>3. QED
      BY <1>4, <2>2 DEF IsPrimary
  <1>5. p.assignment = next /\ p.current = TRUE /\ q.assignment = last /\ q.current = FALSE
    OBVIOUS
  <1> HIDE DEF p, q
  <1>6. QED
    BY <1>2, <1>3, <1>4, <1>5

\* The row of the member list a primary makes.
RowOf(d, p) ==
    [member |-> p.assignment.member, assignment |-> p.assignment.id,
     handle |-> p.assignment.handle, title |-> Flexi!EngagementOf(d, p.assignment).title,
     current |-> p.current, days |-> p.days, completedAt |-> p.completedAt]

Group(d, handle, m) == {a \in Searched(d, handle) : a.member = m}

LEMMA SearchedAre ==
    ASSUME NEW d, NEW handle
    PROVE  /\ Searched(d, handle) \subseteq d.assignments
           /\ \A a \in Searched(d, handle) :
                  a.status \in Flexi!Assigned \/ a.status \in Flexi!Completed
  BY DEF Searched, Flexi!Qualifying

\* The scores of a member's current or completed assignments.
Candidates(scored, m, current) ==
    {s \in scored : s.member = m /\ IF current THEN s.isCurrent ELSE s.isCompletion}

LEMMA FlagsAre ==
    ASSUME NEW d, NEW handle, NEW m
    PROVE  LET scored == Flexi!Scored(d, handle)
               group == Group(d, handle, m)
           IN  /\ Flexi!HasCurrent(scored, m) <=> Among(group, TRUE) # {}
               /\ Flexi!HasCompletion(scored, m) <=> Among(group, FALSE) # {}
               /\ \A current \in BOOLEAN :
                      Candidates(scored, m, current) = Scores(d, Among(group, current))
  <1> DEFINE scored == Flexi!Scored(d, handle)
             group == Group(d, handle, m)
  <1>1. scored = {Score(d, a) : a \in Searched(d, handle)}
    BY ScoredAre
  <1>2. \A a : /\ Score(d, a).member = a.member
               /\ Score(d, a).isCurrent <=> a.status \in Flexi!Assigned
               /\ Score(d, a).isCompletion <=> a.status \in Flexi!Completed
    BY DEF Score
  <1> HIDE DEF scored
  <1>3. Flexi!HasCurrent(scored, m) <=> Among(group, TRUE) # {}
    BY <1>1, <1>2 DEF Flexi!HasCurrent, Among, Group
  <1>4. Flexi!HasCompletion(scored, m) <=> Among(group, FALSE) # {}
    BY <1>1, <1>2 DEF Flexi!HasCompletion, Among, Group
  <1>5. ASSUME NEW current \in BOOLEAN
        PROVE  Candidates(scored, m, current) = Scores(d, Among(group, current))
    BY <1>1, <1>2 DEF Candidates, Scores, Among, Group
  <1>6. QED
    BY <1>3, <1>4, <1>5 DEF scored

MakesRow(d, handle, m, p) ==
    /\ Flexi!Primary(d, Group(d, handle, m)) = {p}
    /\ IsPrimary(d, Group(d, handle, m), p)
    /\ Flexi!PrimaryRow(Flexi!Scored(d, handle), m) = RowOf(d, p)

\* SQL makes the row of a member that the service would make.
LEMMA PrimaryRowIs ==
    ASSUME NEW d, IsDashboard(d), NEW handle, NEW m,
           Among(Group(d, handle, m), TRUE) \union Among(Group(d, handle, m), FALSE) # {}
    PROVE  \E p : MakesRow(d, handle, m, p)
  <1> DEFINE group == Group(d, handle, m)
             scored == Flexi!Scored(d, handle)
  <1>1. group \in SUBSET d.assignments /\ \A a \in group : a.member = m
    BY SearchedAre DEF Group
  <1>2. PICK p : /\ Flexi!Primary(d, group) = {p} /\ IsPrimary(d, group, p)
                 /\ p.assignment = FirstAmong(d, group, p.current)
    BY <1>1, PrimaryIs
  <1> DEFINE current == p.current
             C == Among(group, current)
             a == p.assignment
  <1>3. Flexi!HasCurrent(scored, m) <=> current
    BY <1>2, FlagsAre DEF IsPrimary
  <1>4. Candidates(scored, m, current) = Scores(d, C)
    <2>1. current \in BOOLEAN
      BY <1>2 DEF IsPrimary
    <2>2. \A flag \in BOOLEAN :
              Candidates(scored, m, flag) = Scores(d, Among(group, flag))
      BY FlagsAre
    <2> HIDE DEF scored, group, current
    <2>3. QED
      BY <2>1, <2>2
  <1>5. AreCandidates(d, C, current) /\ a \in C /\ current \in BOOLEAN
    BY <1>1, <1>2 DEF AreCandidates, Among, IsPrimary
  <1>6. Flexi!FirstOf(Scores(d, C), PrimaryOrder(Scores(d, C), current)) = Score(d, a)
    <2>1. a = Flexi!FirstOf(C, SoonerOrder(d, C, current))
      BY <1>2 DEF FirstAmong
    <2>2. QED
      BY <1>5, <2>1, PrimaryIsFirst
  <1> DEFINE first == Score(d, a)
  <1>7. Flexi!PrimaryRow(scored, m) =
            [member |-> m, assignment |-> first.id, handle |-> first.handle,
             title |-> first.title, current |-> current,
             days |-> IF current THEN first.daysRemaining ELSE None,
             completedAt |-> IF current THEN None ELSE first.latest]
    <2> DEFINE has == Flexi!HasCurrent(scored, m)
    <2>1. has = current
      BY <1>3, <1>5 DEF Flexi!HasCurrent
    <2>2. {s \in scored : s.member = m /\ IF has THEN s.isCurrent ELSE s.isCompletion}
              = Scores(d, C)
      BY <1>4, <2>1 DEF Candidates
    <2>3. Flexi!FirstOf(Scores(d, C),
              {r \in Scores(d, C) \X Scores(d, C) :
                  Flexi!SqlBefore(Flexi!PrimaryKeys(r[1], has),
                                  Flexi!PrimaryKeys(r[2], has))}) = first
      BY <1>6, <2>1 DEF PrimaryOrder
    <2> HIDE DEF C, current, first, scored
    <2>4. QED
      BY <2>1, <2>2, <2>3, Zenon DEF Flexi!PrimaryRow
  <1>8. /\ first.id = a.id /\ first.handle = a.handle
        /\ first.title = Flexi!EngagementOf(d, a).title
        /\ first.daysRemaining = Flexi!DaysLeft(Flexi!SqlEnd(a))
    BY DEF Score
  <1>9. /\ Flexi!SqlEnd(a) = Flexi!ResolvedEnd(a) /\ a.member = m
        /\ ~current => first.latest = Flexi!CompletionTime(a)
    <2>1. a \in d.assignments /\ a.member = m
          /\ (~current => a.status \in Flexi!Completed)
      BY <1>1, <1>5 DEF Among
    <2>2. QED
      BY <2>1, AssignmentIs
  <1>10. /\ p.days = IF current THEN Flexi!DaysLeft(Flexi!ResolvedEnd(a)) ELSE None
         /\ p.completedAt = IF current THEN None ELSE Flexi!CompletionTime(a)
    BY <1>2 DEF IsPrimary
  <1> HIDE DEF first, current, a
  <1>11. Flexi!PrimaryRow(scored, m) =
             [member |-> a.member, assignment |-> a.id, handle |-> a.handle,
              title |-> Flexi!EngagementOf(d, a).title, current |-> current,
              days |-> p.days, completedAt |-> p.completedAt]
    BY <1>5, <1>7, <1>8, <1>9, <1>10
  <1>12. Flexi!PrimaryRow(scored, m) = RowOf(d, p)
    BY <1>11 DEF RowOf, current, a
  <1>13. QED
    BY <1>2, <1>12 DEF MakesRow

-----------------------------------------------------------------------------
(* The dashboard: the member list *)

\* A request for a page of the member list.
IsListQuery(q) ==
    /\ q.bucket \in {"total", "assigned", "completed"}
    /\ q.sortOrder \in Directions
    /\ q.page \in Nat \ {0} /\ q.perPage \in Nat

\* A primary of some member.
IsListed(d, p) ==
    /\ p = [assignment |-> p.assignment, current |-> p.current, days |-> p.days,
            completedAt |-> p.completedAt]
    /\ p.assignment \in d.assignments
    /\ p.current \in BOOLEAN
    /\ p.days = IF p.current THEN Flexi!DaysLeft(Flexi!ResolvedEnd(p.assignment)) ELSE None
    /\ p.completedAt = IF p.current THEN None ELSE Flexi!CompletionTime(p.assignment)

\* The keys before the ties, in the member list.
ListHead(r, q) ==
    IF q.sortBy = "handle" THEN <<<<r.handle, q.sortOrder>>>>
    ELSE <<<<IF q.bucket = "total" /\ ~r.current THEN 1 ELSE 0, "asc">>,
           <<IF r.current /\ r.days = None THEN 1 ELSE 0, "asc">>,
           <<IF r.current THEN r.days ELSE None, q.sortOrder>>,
           <<IF ~r.current /\ r.completedAt = None THEN 1 ELSE 0, "asc">>,
           <<IF ~r.current THEN r.completedAt ELSE None, Flexi!Flip(q.sortOrder)>>>>

ListDirs(q) ==
    IF q.sortBy = "handle" THEN <<q.sortOrder>>
    ELSE <<"asc", "asc", q.sortOrder, "asc", Flexi!Flip(q.sortOrder)>>

\* The comparison before the ties.
ListComparison(x, y, q) ==
    LET handles == x.assignment.handle - y.assignment.handle IN
    IF q.sortBy = "handle" THEN IF q.sortOrder = "desc" THEN -handles ELSE handles
    ELSE Flexi!CompareByTime(x, y, q)

LEMMA ListedIs ==
    ASSUME NEW d, IsDashboard(d), NEW p, IsListed(d, p)
    PROVE  LET r == RowOf(d, p) IN
           /\ r.handle = p.assignment.handle /\ r.current = p.current
           /\ r.days = p.days /\ r.completedAt = p.completedAt
           /\ r.handle \in Int /\ r.current \in BOOLEAN
           /\ r.days \in Keyed /\ r.completedAt \in Keyed
           /\ r.current => r.completedAt = None
           /\ ~r.current => r.days = None /\ r.completedAt \in Int
           /\ Flexi!RowTies(r) = Flexi!Ties(Score(d, p.assignment))
  <1> DEFINE r == RowOf(d, p)
             a == p.assignment
  <1>1. a \in d.assignments /\ p.current \in BOOLEAN
    BY DEF IsListed
  <1>2. /\ a.handle \in Int /\ Flexi!CompletionTime(a) \in Int
        /\ Flexi!ResolvedEnd(a) \in Keyed
    BY <1>1, AssignmentIs
  <1>3. Flexi!DaysLeft(Flexi!ResolvedEnd(a)) \in Keyed
    BY <1>2, DaysLeftAre
  <1>4. /\ p.current => p.days \in Keyed /\ p.completedAt = None
        /\ ~p.current => p.days = None /\ p.completedAt \in Int
    BY <1>2, <1>3 DEF IsListed
  <1>5. None \in Keyed /\ \A n \in Int : n \in Keyed
    BY DEF Keyed
  <1>6. /\ r.handle = a.handle /\ r.current = p.current
        /\ r.days = p.days /\ r.completedAt = p.completedAt
    BY DEF RowOf
  <1>7. Flexi!RowTies(r) = Flexi!Ties(Score(d, a))
    BY DEF RowOf, Score, Flexi!RowTies, Flexi!Ties
  <1> HIDE DEF r, a
  <1>8. QED
    BY <1>1, <1>2, <1>4, <1>5, <1>6, <1>7 DEF r, a

LEMMA ListHeadIs ==
    ASSUME NEW d, IsDashboard(d), NEW q, IsListQuery(q), NEW p, IsListed(d, p)
    PROVE  /\ IsKeyed(ListHead(RowOf(d, p), q), ListDirs(q), Len(ListDirs(q)))
           /\ ListDirs(q) \in Seq(Directions)
           /\ Len(ListDirs(q)) = IF q.sortBy = "handle" THEN 1 ELSE 5
  <1> DEFINE r == RowOf(d, p)
             o == q.sortOrder
             f == Flexi!Flip(o)
             i0 == IF q.bucket = "total" /\ ~r.current THEN 1 ELSE 0
             i1 == IF r.current /\ r.days = None THEN 1 ELSE 0
             i2 == IF r.current THEN r.days ELSE None
             i3 == IF ~r.current /\ r.completedAt = None THEN 1 ELSE 0
             i4 == IF ~r.current THEN r.completedAt ELSE None
  <1>1. o \in Directions /\ f \in Directions /\ "asc" \in Directions
    BY DEF IsListQuery, Directions, Flexi!Flip
  <1>2. r.handle \in Int /\ r.days \in Keyed /\ r.completedAt \in Keyed
    BY ListedIs
  <1>3. /\ i0 \in Keyed /\ i1 \in Keyed /\ i2 \in Keyed /\ i3 \in Keyed /\ i4 \in Keyed
        /\ r.handle \in Keyed
    BY <1>2 DEF Keyed
  <1>4. CASE q.sortBy = "handle"
    <2>1. ListHead(r, q) = <<<<r.handle, o>>>> /\ ListDirs(q) = <<o>>
      BY <1>4 DEF ListHead, ListDirs
    <2> HIDE DEF o, r
    <2>2. IsKeyed(<<<<r.handle, o>>>>, <<o>>, 1) /\ <<o>> \in Seq(Directions) /\ Len(<<o>>) = 1
      BY <1>1, <1>3, OneIsKeyed
    <2>3. QED
      BY <1>4, <2>1, <2>2 DEF r
  <1>5. CASE q.sortBy # "handle"
    <2> DEFINE h == <<<<i0, "asc">>, <<i1, "asc">>, <<i2, o>>, <<i3, "asc">>, <<i4, f>>>>
               e == <<"asc", "asc", o, "asc", f>>
    <2>1. ListHead(r, q) = h /\ ListDirs(q) = e
      BY <1>5 DEF ListHead, ListDirs
    <2> HIDE DEF o, r, f, i0, i1, i2, i3, i4
    <2>2. IsKeyed(h, e, 5)
      BY <1>1, <1>3, FiveAreKeyed
    <2>3. e \in Seq(Directions) /\ Len(e) = 5
      BY <1>1
    <2> HIDE DEF h, e
    <2>4. QED
      BY <1>5, <2>1, <2>2, <2>3 DEF r
  <1>6. QED
    BY <1>4, <1>5

\* Listed by handle, or by time, rows are compared as their first keys are.
LEMMA ListHeadsAgree ==
    ASSUME NEW d, IsDashboard(d), NEW q, IsListQuery(q),
           NEW x, IsListed(d, x), NEW y, IsListed(d, y),
           q.bucket # "total" => x.current = y.current
    PROVE  LET c == ListComparison(x, y, q)
               k == ListHead(RowOf(d, x), q)
               l == ListHead(RowOf(d, y), q)
           IN  /\ c \in Int
               /\ c < 0 <=> Flexi!SqlBefore(k, l)
               /\ c = 0 <=> k = l
  <1> DEFINE r == RowOf(d, x)
             s == RowOf(d, y)
             o == q.sortOrder
             f == Flexi!Flip(o)
             c == ListComparison(x, y, q)
             k == ListHead(r, q)
             l == ListHead(s, q)
             t == Flexi!CompareByTime(x, y, q)
  <1>1. /\ r.handle = x.assignment.handle /\ r.current = x.current
        /\ r.days = x.days /\ r.completedAt = x.completedAt
        /\ r.handle \in Int /\ r.current \in BOOLEAN /\ r.days \in Keyed
        /\ r.completedAt \in Keyed /\ (r.current => r.completedAt = None)
        /\ (~r.current => r.days = None /\ r.completedAt \in Int)
    BY ListedIs
  <1>2. /\ s.handle = y.assignment.handle /\ s.current = y.current
        /\ s.days = y.days /\ s.completedAt = y.completedAt
        /\ s.handle \in Int /\ s.current \in BOOLEAN /\ s.days \in Keyed
        /\ s.completedAt \in Keyed /\ (s.current => s.completedAt = None)
        /\ (~s.current => s.days = None /\ s.completedAt \in Int)
    BY ListedIs
  <1>3. o \in {"asc", "desc"} /\ (o = "desc" => f = "asc") /\ (o # "desc" => f = "desc")
    BY DEF IsListQuery, Directions, Flexi!Flip
  <1>4. None \notin Int
    BY NoneIsNoAnswer
  <1>5. CASE q.sortBy = "handle"
    <2> DEFINE h == x.assignment.handle - y.assignment.handle
    <2>1. c = IF o = "desc" THEN -h ELSE h
      BY <1>5 DEF ListComparison
    <2>2. k = <<<<r.handle, o>>>> /\ l = <<<<s.handle, o>>>>
      BY <1>5 DEF ListHead
    <2> HIDE DEF c, k, l, r, s, o
    <2>3. h = r.handle - s.handle
      BY <1>1, <1>2
    <2>4. Flexi!SqlBefore(k, l) <=> Flexi!SqlLess(r.handle, s.handle, o)
      BY <2>2, OneKey
    <2>5. k = l <=> r.handle = s.handle
      BY <2>2
    <2> HIDE DEF h
    <2>6. c \in Int /\ (c < 0 <=> Flexi!SqlBefore(k, l)) /\ (c = 0 <=> k = l)
      BY <1>1, <1>2, <1>3, <1>4, <2>1, <2>3, <2>4, <2>5 DEF Flexi!SqlLess
    <2>7. QED
      BY <2>6 DEF c, k, l, r, s
  <1>6. CASE q.sortBy # "handle"
    <2> DEFINE i0 == IF q.bucket = "total" /\ ~r.current THEN 1 ELSE 0
               i1 == IF r.current /\ r.days = None THEN 1 ELSE 0
               i2 == IF r.current THEN r.days ELSE None
               i3 == IF ~r.current /\ r.completedAt = None THEN 1 ELSE 0
               i4 == IF ~r.current THEN r.completedAt ELSE None
               j0 == IF q.bucket = "total" /\ ~s.current THEN 1 ELSE 0
               j1 == IF s.current /\ s.days = None THEN 1 ELSE 0
               j2 == IF s.current THEN s.days ELSE None
               j3 == IF ~s.current /\ s.completedAt = None THEN 1 ELSE 0
               j4 == IF ~s.current THEN s.completedAt ELSE None
    <2>1. c = t
      BY <1>6 DEF ListComparison
    <2>2. /\ k = <<<<i0, "asc">>, <<i1, "asc">>, <<i2, o>>, <<i3, "asc">>, <<i4, f>>>>
          /\ l = <<<<j0, "asc">>, <<j1, "asc">>, <<j2, o>>, <<j3, "asc">>, <<j4, f>>>>
      BY <1>6 DEF ListHead
    <2> HIDE DEF c, k, l, o, f
    <2>3. Flexi!SqlBefore(k, l) <=>
              \/ Flexi!SqlLess(i0, j0, "asc")
              \/ i0 = j0 /\ Flexi!SqlLess(i1, j1, "asc")
              \/ i0 = j0 /\ i1 = j1 /\ Flexi!SqlLess(i2, j2, o)
              \/ i0 = j0 /\ i1 = j1 /\ i2 = j2 /\ Flexi!SqlLess(i3, j3, "asc")
              \/ i0 = j0 /\ i1 = j1 /\ i2 = j2 /\ i3 = j3 /\ Flexi!SqlLess(i4, j4, f)
      <3> HIDE DEF i0, i1, i2, i3, i4, j0, j1, j2, j3, j4
      <3>1. QED
        BY <2>2, FiveKeys
    <2>4. k = l <=> i0 = j0 /\ i1 = j1 /\ i2 = j2 /\ i3 = j3 /\ i4 = j4
      <3> HIDE DEF i0, i1, i2, i3, i4, j0, j1, j2, j3, j4
      <3>1. QED
        BY <2>2
    <2>5. CASE x.current # y.current
      <3>1. q.bucket = "total" /\ t = IF x.current THEN -1 ELSE 1
        BY <2>5 DEF Flexi!CompareByTime
      <3>2. i0 = (IF x.current THEN 0 ELSE 1) /\ j0 = (IF x.current THEN 1 ELSE 0)
        BY <1>1, <1>2, <2>5, <3>1
      <3> HIDE DEF i0, i1, i2, i3, i4, j0, j1, j2, j3, j4
      <3>3. ~Flexi!SqlLess(1, 0, "asc") /\ Flexi!SqlLess(0, 1, "asc")
        BY <1>4 DEF Flexi!SqlLess
      <3>4. c \in Int /\ (c < 0 <=> Flexi!SqlBefore(k, l)) /\ (c = 0 <=> k = l)
        BY <2>1, <2>3, <2>4, <3>1, <3>2, <3>3
      <3>5. QED
        BY <3>4 DEF c, k, l
    <2>6. CASE x.current /\ y.current
      <3>1. t = IF o = "desc" THEN Flexi!CompareDesc(x.days, y.days)
                ELSE Flexi!CompareAsc(x.days, y.days)
        BY <2>6 DEF Flexi!CompareByTime, o
      <3>2. /\ i0 = 0 /\ j0 = 0 /\ i3 = 0 /\ j3 = 0 /\ i4 = None /\ j4 = None
            /\ i1 = (IF x.days = None THEN 1 ELSE 0) /\ i2 = x.days
            /\ j1 = (IF y.days = None THEN 1 ELSE 0) /\ j2 = y.days
        BY <1>1, <1>2, <2>6
      <3>3. x.days \in Keyed /\ y.days \in Keyed
        BY <1>1, <1>2
      <3>4. /\ ~Flexi!SqlLess(0, 0, "asc") /\ ~Flexi!SqlLess(None, None, f)
            /\ ~Flexi!SqlLess(1, 1, "asc")
            /\ ~Flexi!SqlLess(1, 0, "asc") /\ Flexi!SqlLess(0, 1, "asc")
        BY <1>4 DEF Flexi!SqlLess
      <3> HIDE DEF i0, i1, i2, i3, i4, j0, j1, j2, j3, j4, t
      <3>5. Flexi!SqlBefore(k, l) <=> \/ Flexi!SqlLess(i1, j1, "asc")
                                      \/ i1 = j1 /\ Flexi!SqlLess(x.days, y.days, o)
        BY <2>3, <3>2, <3>4
      <3>6. Flexi!SqlBefore(k, l) <=>
                \/ x.days # None /\ y.days = None
                \/ x.days # None /\ y.days # None /\ Flexi!SqlLess(x.days, y.days, o)
        <4>1. CASE x.days # None /\ y.days # None
          BY <3>2, <3>4, <3>5, <4>1
        <4>2. CASE x.days # None /\ y.days = None
          BY <3>2, <3>4, <3>5, <4>2
        <4>3. CASE x.days = None /\ y.days # None
          BY <3>2, <3>4, <3>5, <4>3
        <4>4. CASE x.days = None /\ y.days = None
          <5>1. ~Flexi!SqlLess(None, None, o)
            BY DEF Flexi!SqlLess
          <5>2. QED
            BY <3>2, <3>4, <3>5, <4>4, <5>1
        <4>5. QED
          BY <4>1, <4>2, <4>3, <4>4
      <3>7. k = l <=> x.days = y.days
        BY <2>4, <3>2
      <3>8. t \in Int /\ (t = 0 <=> x.days = y.days)
            /\ (t < 0 <=> \/ x.days # None /\ y.days = None
                          \/ x.days # None /\ y.days # None
                             /\ Flexi!SqlLess(x.days, y.days, o))
        <4>1. CASE o = "desc"
          <5>1. t = Flexi!CompareDesc(x.days, y.days)
            BY <3>1, <4>1
          <5>2. t \in Int /\ (t = 0 <=> x.days = y.days)
                /\ (t < 0 <=> x.days # None /\ (y.days = None \/ y.days < x.days))
            BY <3>3, <5>1, ComparisonsAre
          <5>3. x.days # None /\ y.days # None =>
                    (Flexi!SqlLess(x.days, y.days, o) <=> y.days < x.days)
            BY <3>3, <4>1 DEF Flexi!SqlLess, Keyed
          <5>4. QED
            BY <5>2, <5>3
        <4>2. CASE o # "desc"
          <5>1. t = Flexi!CompareAsc(x.days, y.days)
            BY <3>1, <4>2
          <5>2. t \in Int /\ (t = 0 <=> x.days = y.days)
                /\ (t < 0 <=> x.days # None /\ (y.days = None \/ x.days < y.days))
            BY <3>3, <5>1, ComparisonsAre
          <5>3. x.days # None /\ y.days # None =>
                    (Flexi!SqlLess(x.days, y.days, o) <=> x.days < y.days)
            BY <1>3, <3>3, <4>2 DEF Flexi!SqlLess, Keyed
          <5>4. QED
            BY <5>2, <5>3
        <4>3. QED
          BY <4>1, <4>2
      <3>9. c \in Int /\ (c < 0 <=> Flexi!SqlBefore(k, l)) /\ (c = 0 <=> k = l)
        BY <2>1, <3>6, <3>7, <3>8
      <3>10. QED
        BY <3>9 DEF c, k, l
    <2>7. CASE ~x.current /\ ~y.current
      <3> DEFINE u == x.completedAt
                 v == y.completedAt
      <3>1. t = IF o = "desc" THEN Flexi!CompareAsc(u, v)
                ELSE Flexi!CompareDesc(u, v)
        BY <1>1, <1>2, <2>7 DEF Flexi!CompareByTime, o
      <3>2. /\ i0 = j0 /\ i0 \in {0, 1} /\ i1 = 0 /\ j1 = 0 /\ i2 = None /\ j2 = None
            /\ i3 = 0 /\ j3 = 0 /\ i4 = u /\ j4 = v /\ u \in Int /\ v \in Int
        BY <1>1, <1>2, <1>4, <2>7
      <3>3. /\ ~Flexi!SqlLess(0, 0, "asc") /\ ~Flexi!SqlLess(None, None, o)
            /\ ~Flexi!SqlLess(1, 1, "asc")
        BY <1>4 DEF Flexi!SqlLess
      <3> HIDE DEF i0, i1, i2, i3, i4, j0, j1, j2, j3, j4, t, u, v
      <3>4. Flexi!SqlBefore(k, l) <=> Flexi!SqlLess(u, v, f)
        BY <2>3, <3>2, <3>3
      <3>5. k = l <=> u = v
        BY <2>4, <3>2
      <3>6. u \in Keyed /\ v \in Keyed /\ u # None /\ v # None
        BY <1>4, <3>2 DEF Keyed
      <3>7. t \in Int /\ (t = 0 <=> u = v) /\ (t < 0 <=> Flexi!SqlLess(u, v, f))
        <4>1. CASE o = "desc"
          <5>1. t = Flexi!CompareAsc(u, v) /\ f = "asc"
            BY <1>3, <3>1, <4>1
          <5>2. t \in Int /\ (t = 0 <=> u = v) /\ (t < 0 <=> u < v)
            BY <3>6, <5>1, ComparisonsAre
          <5>3. QED
            BY <3>6, <5>1, <5>2 DEF Flexi!SqlLess
        <4>2. CASE o # "desc"
          <5>1. t = Flexi!CompareDesc(u, v) /\ f = "desc"
            BY <1>3, <3>1, <4>2
          <5>2. t \in Int /\ (t = 0 <=> u = v) /\ (t < 0 <=> v < u)
            BY <3>6, <5>1, ComparisonsAre
          <5>3. QED
            BY <3>2, <3>6, <5>1, <5>2 DEF Flexi!SqlLess
        <4>3. QED
          BY <4>1, <4>2
      <3>8. c \in Int /\ (c < 0 <=> Flexi!SqlBefore(k, l)) /\ (c = 0 <=> k = l)
        BY <2>1, <3>4, <3>5, <3>7
      <3>9. QED
        BY <3>8 DEF c, k, l
    <2>8. QED
      BY <1>1, <1>2, <2>5, <2>6, <2>7
  <1>7. QED
    BY <1>5, <1>6

\* SQL sorts the rows of the member list as the service would.
LEMMA ListKeysAgree ==
    ASSUME NEW d, IsDashboard(d), NEW q, IsListQuery(q),
           NEW x, IsListed(d, x), NEW y, IsListed(d, y),
           q.bucket # "total" => x.current = y.current
    PROVE  Flexi!ListedBefore(d, x, y, q)
               <=> Flexi!SqlBefore(Flexi!ListKeys(RowOf(d, x), q), Flexi!ListKeys(RowOf(d, y), q))
  <1> DEFINE c == ListComparison(x, y, q)
             t == Flexi!CompareTies(d, x.assignment, y.assignment)
             k == ListHead(RowOf(d, x), q)
             l == ListHead(RowOf(d, y), q)
             v == Flexi!Ties(Score(d, x.assignment))
             w == Flexi!Ties(Score(d, y.assignment))
  <1>1. Flexi!ListedBefore(d, x, y, q) <=> Flexi!FirstNonZero(<<c, t>>) < 0
    BY DEF Flexi!ListedBefore, ListComparison
  <1>2. c \in Int /\ (c < 0 <=> Flexi!SqlBefore(k, l)) /\ (c = 0 <=> k = l)
    BY ListHeadsAgree
  <1>3. x.assignment \in d.assignments /\ y.assignment \in d.assignments
    BY DEF IsListed
  <1>4. t \in Int /\ (t < 0 <=> Flexi!SqlBefore(v, w))
    BY <1>3, TiesAgree
  <1>5. /\ Flexi!ListKeys(RowOf(d, x), q) = k \o v
        /\ Flexi!ListKeys(RowOf(d, y), q) = l \o w
    <2>1. /\ Flexi!RowTies(RowOf(d, x)) = v /\ Flexi!RowTies(RowOf(d, y)) = w
      BY ListedIs
    <2> HIDE DEF v, w
    <2>2. QED
      BY <2>1, Zenon DEF Flexi!ListKeys, ListHead
  <1>6. k \in Seq(AKey) /\ l \in Seq(AKey) /\ Len(k) = Len(l)
    BY ListHeadIs DEF IsKeyed
  <1>7. v \in Seq(AKey) /\ w \in Seq(AKey) /\ Len(v) = Len(w)
    BY <1>3, TiesAre DEF IsKeyed
  <1> HIDE DEF c, t, k, l, v, w
  <1>8. Flexi!SqlBefore(k \o v, l \o w) <=> Flexi!SqlBefore(k, l) \/ (k = l /\ Flexi!SqlBefore(v, w))
    BY <1>6, <1>7, KeysAppended
  <1>9. Flexi!FirstNonZero(<<c, t>>) < 0 <=> c < 0 \/ (c = 0 /\ t < 0)
    BY <1>2, <1>4, FirstOfTwo
  <1>10. QED
    BY <1>1, <1>2, <1>4, <1>5, <1>8, <1>9

LEMMA ListKeysAre ==
    ASSUME NEW d, IsDashboard(d), NEW q, IsListQuery(q), NEW p, IsListed(d, p)
    PROVE  LET k == Flexi!ListKeys(RowOf(d, p), q)
               n == Len(ListDirs(q))
           IN  /\ n \in Nat
               /\ IsKeyed(k, ListDirs(q) \o TiesDirs, n + 4) /\ k[n + 4][1] = p.assignment.id
               /\ ListDirs(q) \o TiesDirs \in Seq(Directions)
               /\ Len(ListDirs(q) \o TiesDirs) = n + 4
  <1> DEFINE h == ListHead(RowOf(d, p), q)
             t == Flexi!Ties(Score(d, p.assignment))
             k == h \o t
             dirs == ListDirs(q)
             n == Len(dirs)
             m == 4
  <1>1. Flexi!ListKeys(RowOf(d, p), q) = k
    <2>1. Flexi!RowTies(RowOf(d, p)) = t
      BY ListedIs
    <2> HIDE DEF t
    <2>2. QED
      BY <2>1, Zenon DEF Flexi!ListKeys, ListHead
  <1>2. IsKeyed(h, dirs, n) /\ dirs \in Seq(Directions) /\ n \in Nat /\ Len(dirs) = n
    BY ListHeadIs
  <1>3. IsKeyed(t, TiesDirs, m) /\ t[m][1] = p.assignment.id
    BY TiesAre DEF IsListed
  <1>4. TiesDirs \in Seq(Directions) /\ Len(TiesDirs) = m
    BY DEF TiesDirs, Directions
  <1> HIDE DEF h, t, m, n, dirs
  <1>5. /\ IsKeyed(k, dirs \o TiesDirs, n + m) /\ EndsWith(k, t, n)
        /\ dirs \o TiesDirs \in Seq(Directions) /\ Len(dirs \o TiesDirs) = n + m
    BY <1>2, <1>3, <1>4, AppendedIsKeyed
  <1> HIDE DEF k
  <1>6. k[n + m] = t[m]
    <2>1. Len(t) = m /\ m \in 1..m
      BY <1>3 DEF IsKeyed, m
    <2>2. QED
      BY <1>5, <2>1 DEF EndsWith
  <1>7. m = 4
    BY DEF m
  <1>8. QED
    BY <1>1, <1>2, <1>3, <1>5, <1>6, <1>7 DEF dirs, n

RowsListed(d, L) == {RowOf(d, p) : p \in L}

ListOrder(d, L, q) == {r \in L \X L : Flexi!ListedBefore(d, r[1], r[2], q)}

SqlOrder(T, q) ==
    {r \in T \X T : Flexi!SqlBefore(Flexi!ListKeys(r[1], q), Flexi!ListKeys(r[2], q))}

\* The primaries a list is made of: of each member one, and in a bucket of the current or
\* of the others, all of them that.
AreListed(d, L, q) ==
    /\ \A p \in L : IsListed(d, p)
    /\ \A x, y \in L : x.assignment = y.assignment => x = y
    /\ q.bucket # "total" => \A x, y \in L : x.current = y.current

LEMMA ListedAreOrdered ==
    ASSUME NEW d, IsDashboard(d), NEW q, IsListQuery(q), NEW L, AreListed(d, L, q)
    PROVE  /\ Carries([p \in L |-> RowOf(d, p)], L, ListOrder(d, L, q),
                      RowsListed(d, L), SqlOrder(RowsListed(d, L), q))
           /\ Orders(SqlOrder(RowsListed(d, L), q), RowsListed(d, L))
  <1> DEFINE f == [p \in L |-> RowOf(d, p)]
             T == RowsListed(d, L)
             R == ListOrder(d, L, q)
             Q == SqlOrder(T, q)
             dirs == ListDirs(q) \o TiesDirs
             keys == [r \in T |-> Flexi!ListKeys(r, q)]
             n == Len(ListDirs(q))
  <1>1. \A p \in L : IsListed(d, p) /\ p.assignment \in d.assignments
    BY DEF AreListed, IsListed
  <1>2. \A p : RowOf(d, p).assignment = p.assignment.id
    BY DEF RowOf
  <1>3. \A x, y \in L : RowOf(d, x).assignment = RowOf(d, y).assignment => x = y
    BY <1>1, <1>2 DEF AreListed, IsDashboard
  <1>4. f \in Bijection(L, T)
    <2>1. f \in [L -> T] /\ \A t \in T : \E p \in L : f[p] = t
      BY DEF RowsListed
    <2>2. \A x, y \in L : f[x] = f[y] => x = y
      BY <1>3
    <2> HIDE DEF f, T
    <2>3. QED
      BY <2>1, <2>2, BijectionIs
  <1>5. ASSUME NEW r \in T
        PROVE  /\ HasKeys(keys[r], dirs) /\ keys[r][n + 4][1] = r.assignment
               /\ dirs \in Seq(Directions)
    <2>1. PICK p \in L : r = RowOf(d, p)
      BY DEF RowsListed
    <2>2. /\ IsKeyed(Flexi!ListKeys(r, q), dirs, n + 4)
          /\ Flexi!ListKeys(r, q)[n + 4][1] = p.assignment.id
          /\ dirs \in Seq(Directions)
      BY <1>1, <2>1, ListKeysAre
    <2>3. r.assignment = p.assignment.id
      BY <1>2, <2>1
    <2> HIDE DEF dirs, n
    <2>4. keys[r] = Flexi!ListKeys(r, q)
      OBVIOUS
    <2>5. QED
      BY <2>2, <2>3, <2>4 DEF IsKeyed
  <1>6. \A r, s \in T : keys[r] = keys[s] => r = s
    <2>1. \A r, s \in T : r.assignment = s.assignment => r = s
      BY <1>3 DEF RowsListed
    <2> HIDE DEF keys, T, n
    <2>2. QED
      BY <1>5, <2>1
  <1>7. \A r, s \in T : <<r, s>> \in Q <=> Flexi!SqlBefore(keys[r], keys[s])
    BY DEF SqlOrder
  <1>8. Orders(Q, T)
    <2>1. CASE T = {}
      BY <2>1 DEF Orders
    <2>2. CASE T # {}
      <3> HIDE DEF dirs, keys, T, Q, n
      <3>1. dirs \in Seq(Directions)
        BY <1>5, <2>2
      <3>2. \A r \in T : HasKeys(keys[r], dirs)
        BY <1>5
      <3>3. QED
        BY <1>6, <1>7, <3>1, <3>2, KeysOrder
    <2>3. QED
      BY <2>1, <2>2
  <1>9. ASSUME NEW x \in L, NEW y \in L
        PROVE  <<x, y>> \in R <=> <<f[x], f[y]>> \in Q
    <2>1. q.bucket # "total" => x.current = y.current
      BY DEF AreListed
    <2>2. Flexi!ListedBefore(d, x, y, q)
              <=> Flexi!SqlBefore(Flexi!ListKeys(RowOf(d, x), q),
                                  Flexi!ListKeys(RowOf(d, y), q))
      BY <1>1, <2>1, ListKeysAgree
    <2>3. <<x, y>> \in R <=> Flexi!ListedBefore(d, x, y, q)
      BY DEF ListOrder
    <2>4. RowOf(d, x) \in T /\ RowOf(d, y) \in T
      BY DEF RowsListed
    <2>5. <<RowOf(d, x), RowOf(d, y)>> \in Q
              <=> Flexi!SqlBefore(Flexi!ListKeys(RowOf(d, x), q),
                                  Flexi!ListKeys(RowOf(d, y), q))
      BY <2>4 DEF SqlOrder
    <2>6. QED
      BY <2>2, <2>3, <2>5
  <1>10. Carries(f, L, R, T, Q)
    <2> HIDE DEF f, R, T, Q
    <2>1. QED
      BY <1>4, <1>9 DEF Carries
  <1>11. QED
    BY <1>8, <1>10

LEMMA PieceIs ==
    ASSUME NEW S, NEW s \in Seq(S), NEW a \in Nat \ {0}, NEW b \in 0..Len(s)
    PROVE  /\ DOMAIN SubSeq(s, a, b) = 1..(b - a + 1)
           /\ \A i \in 1..(b - a + 1) : SubSeq(s, a, b)[i] = s[a + i - 1]
           /\ SubSeq(s, a, b) \in Seq(S)
           /\ SubSeq(s, a, b) = [i \in 1..(b - a + 1) |-> SubSeq(s, a, b)[i]]
  <1>1. DOMAIN SubSeq(s, a, b) = 1..(b - a + 1)
    OBVIOUS
  <1>2. \A i \in 1..(b - a + 1) : SubSeq(s, a, b)[i] = s[a + i - 1]
    OBVIOUS
  <1>3. SubSeq(s, a, b) \in Seq(S)
    OBVIOUS
  <1>4. SubSeq(s, a, b) = [i \in 1..(b - a + 1) |-> SubSeq(s, a, b)[i]]
    BY <1>1, <1>3
  <1>5. QED
    BY <1>1, <1>2, <1>3, <1>4

IsImage(v, u, f, L) ==
    /\ v = [i \in DOMAIN u |-> f[u[i]]]
    /\ \A i \in DOMAIN u : u[i] \in L

\* A page of the rows of a sorted list is the rows of its page.
LEMMA PagesAreCarried ==
    ASSUME NEW L, NEW s \in Seq(L), NEW T, NEW t \in Seq(T), Len(t) = Len(s),
           NEW f, \A i \in 1..Len(s) : t[i] = f[s[i]],
           NEW q, q.page \in Nat \ {0}, q.perPage \in Nat
    PROVE  IsImage(Flexi!Page(t, q), Flexi!Page(s, q), f, L)
  <1> DEFINE n == Len(s)
             skip == (q.page - 1) * q.perPage
             last == IF n < skip + q.perPage THEN n ELSE skip + q.perPage
             len == last - skip
  <1>1. n \in Nat /\ skip \in Nat
    <2>1. q.page - 1 \in Nat
      OBVIOUS
    <2> DEFINE k == q.page - 1
    <2>2. k \in Nat
      BY <2>1
    <2> HIDE DEF k
    <2>3. k * q.perPage \in Nat
      BY <2>2
    <2>4. QED
      BY <2>3 DEF k
  <1>2. /\ Flexi!Page(s, q) = SubSeq(s, skip + 1, last)
        /\ Flexi!Page(t, q) = SubSeq(t, skip + 1, last)
    BY DEF Flexi!Page
  <1> HIDE DEF skip
  <1>3. last \in Nat /\ last <= n
    BY <1>1
  <1> HIDE DEF last
  <1>4. \A i \in skip + 1..last : i \in 1..n /\ s[i] \in L /\ t[i] \in T
    BY <1>1, <1>3
  <1>5. /\ SubSeq(s, skip + 1, last) \in Seq(L) /\ SubSeq(t, skip + 1, last) \in Seq(T)
        /\ DOMAIN SubSeq(s, skip + 1, last) = 1..len
        /\ DOMAIN SubSeq(t, skip + 1, last) = 1..len
        /\ \A i \in 1..len : /\ SubSeq(s, skip + 1, last)[i] = s[skip + i]
                             /\ SubSeq(t, skip + 1, last)[i] = t[skip + i]
    <2> DEFINE b == skip + 1
    <2>1. b \in Int /\ last \in Int /\ last - b + 1 = len
      BY <1>1, <1>3
    <2>2. \A i \in 1..len : b + i - 1 = skip + i
      BY <1>1
    <2>3. b \in Nat \ {0} /\ last \in 0..Len(s) /\ last \in 0..Len(t)
      BY <1>1, <1>3
    <2> HIDE DEF b, len, n
    <2>4. SubSeq(s, b, last) \in Seq(L) /\ SubSeq(t, b, last) \in Seq(T)
      BY <2>3, PieceIs
    <2>5. /\ DOMAIN SubSeq(s, b, last) = 1..len /\ DOMAIN SubSeq(t, b, last) = 1..len
          /\ \A i \in 1..len : /\ SubSeq(s, b, last)[i] = s[skip + i]
                               /\ SubSeq(t, b, last)[i] = t[skip + i]
      BY <2>1, <2>2, <2>3, PieceIs
    <2>6. QED
      BY <2>4, <2>5 DEF b
  <1> DEFINE u == SubSeq(s, skip + 1, last)
             v == SubSeq(t, skip + 1, last)
  <1>6. /\ u \in Seq(L) /\ v \in Seq(T) /\ DOMAIN u = 1..len /\ DOMAIN v = 1..len
        /\ \A i \in 1..len : u[i] = s[skip + i] /\ v[i] = t[skip + i]
    BY <1>5
  <1>7. \A i \in 1..len : skip + i \in 1..n
    BY <1>1, <1>3
  <1> HIDE DEF u, v, len
  <1>8. v = [i \in 1..len |-> f[u[i]]]
    <2>1. \A i \in 1..len : v[i] = f[u[i]]
      BY <1>6, <1>7
    <2>2. v = [i \in 1..len |-> v[i]]
      BY <1>6
    <2>3. QED
      BY <2>1, <2>2
  <1>9. \A i \in 1..len : u[i] \in L
    BY <1>6, <1>7
  <1>10. Flexi!Page(s, q) = u /\ Flexi!Page(t, q) = v
    BY <1>2 DEF u, v
  <1>11. QED
    BY <1>6, <1>8, <1>9, <1>10 DEF IsImage

\* The members of a bucket, as the service groups them.
InList(d, q) ==
    {m \in {a.member : a \in Searched(d, q.handle)} :
        Flexi!InBucket(Group(d, q.handle, m), q.bucket)}

ListedIn(d, q) == UNION {Flexi!Primary(d, Group(d, q.handle, m)) : m \in InList(d, q)}

LEMMA BucketIs ==
    ASSUME NEW group, NEW bucket
    PROVE  /\ Flexi!InBucket(group, bucket) <=>
                  CASE bucket = "assigned"  -> Among(group, TRUE) # {}
                    [] bucket = "completed" -> Among(group, FALSE) # {} /\ Among(group, TRUE) = {}
                    [] OTHER -> Among(group, TRUE) # {} \/ Among(group, FALSE) # {}
           /\ Flexi!InBucket(group, bucket) =>
                  Among(group, TRUE) \union Among(group, FALSE) # {}
  <1> DEFINE c == \E a \in group : a.status \in Flexi!Assigned
             e == \E a \in group : a.status \in Flexi!Completed
  <1>1. (c <=> Among(group, TRUE) # {}) /\ (e <=> Among(group, FALSE) # {})
    BY DEF Among
  <1>2. Flexi!InBucket(group, bucket) = CASE bucket = "assigned"  -> c
                                          [] bucket = "completed" -> e /\ ~c
                                          [] OTHER -> c \/ e
    BY DEF Flexi!InBucket
  <1> HIDE DEF c, e
  <1>3. CASE bucket = "assigned"
    BY <1>1, <1>2, <1>3
  <1>4. CASE bucket = "completed"
    BY <1>1, <1>2, <1>4
  <1>5. CASE bucket # "assigned" /\ bucket # "completed"
    BY <1>1, <1>2, <1>5
  <1>6. QED
    BY <1>3, <1>4, <1>5

\* SQL puts the members in the buckets the service puts them in.
LEMMA BucketsAgree ==
    ASSUME NEW d, NEW q
    PROVE  Flexi!MembersIn(Flexi!Scored(d, q.handle), q.bucket) = InList(d, q)
  <1> DEFINE scored == Flexi!Scored(d, q.handle)
             group(m) == Group(d, q.handle, m)
             b == q.bucket
  <1>1. {s.member : s \in scored} = {a.member : a \in Searched(d, q.handle)}
    <2>1. scored = {Score(d, a) : a \in Searched(d, q.handle)}
      BY ScoredAre
    <2>2. \A a : Score(d, a).member = a.member
      BY DEF Score
    <2> HIDE DEF scored
    <2>3. QED
      BY <2>1, <2>2
  <1>2. \A m : /\ Flexi!HasCurrent(scored, m) <=> Among(group(m), TRUE) # {}
               /\ Flexi!HasCompletion(scored, m) <=> Among(group(m), FALSE) # {}
    BY FlagsAre
  <1> HIDE DEF scored
  <1>3. ASSUME NEW m
        PROVE  Flexi!InBucket(group(m), b) <=>
                  CASE b = "assigned"  -> Flexi!HasCurrent(scored, m)
                    [] b = "completed" -> /\ Flexi!HasCompletion(scored, m)
                                          /\ ~Flexi!HasCurrent(scored, m)
                    [] OTHER -> Flexi!HasCurrent(scored, m) \/ Flexi!HasCompletion(scored, m)
    <2> DEFINE g == group(m)
               c == Flexi!HasCurrent(scored, m)
               e == Flexi!HasCompletion(scored, m)
    <2>1. (c <=> Among(g, TRUE) # {}) /\ (e <=> Among(g, FALSE) # {})
      BY <1>2
    <2> HIDE DEF g, c, e, b
    <2>2. Flexi!InBucket(g, b) <=> CASE b = "assigned"  -> c
                                     [] b = "completed" -> e /\ ~c
                                     [] OTHER -> c \/ e
      <3>1. CASE b = "assigned"
        BY <2>1, <3>1, BucketIs
      <3>2. CASE b = "completed"
        BY <2>1, <3>2, BucketIs
      <3>3. CASE b # "assigned" /\ b # "completed"
        BY <2>1, <3>3, BucketIs
      <3>4. QED
        BY <3>1, <3>2, <3>3
    <2>3. QED
      BY <2>2 DEF g, c, e
  <1> DEFINE M == {s.member : s \in scored}
             in(m) == CASE b = "assigned"  -> Flexi!HasCurrent(scored, m)
                        [] b = "completed" -> /\ Flexi!HasCompletion(scored, m)
                                              /\ ~Flexi!HasCurrent(scored, m)
                        [] OTHER -> Flexi!HasCurrent(scored, m)
                                    \/ Flexi!HasCompletion(scored, m)
  <1>4. Flexi!MembersIn(scored, b) = {m \in M : in(m)}
    BY Zenon DEF Flexi!MembersIn
  <1>5. InList(d, q) = {m \in M : Flexi!InBucket(group(m), b)}
    BY <1>1, Zenon DEF InList
  <1>6. \A m : in(m) <=> Flexi!InBucket(group(m), b)
    BY <1>3
  <1> HIDE DEF M, in, b
  <1>7. Flexi!MembersIn(scored, b) = InList(d, q)
    BY <1>4, <1>5, <1>6
  <1>8. QED
    BY <1>7 DEF scored, b

\* Each member of a bucket has a primary, and the rows SQL makes are theirs.
LEMMA MembersArePrimaries ==
    ASSUME NEW d, IsDashboard(d), NEW q, NEW m \in InList(d, q)
    PROVE  \E p : /\ Flexi!Primary(d, Group(d, q.handle, m)) = {p}
                  /\ IsListed(d, p) /\ p.assignment.member = m
                  /\ q.bucket = "assigned" => p.current
                  /\ q.bucket = "completed" => ~p.current
                  /\ Flexi!PrimaryRow(Flexi!Scored(d, q.handle), m) = RowOf(d, p)
  <1> DEFINE group == Group(d, q.handle, m)
  <1>1. Flexi!InBucket(group, q.bucket)
    BY DEF InList
  <1>2. /\ Among(group, TRUE) \union Among(group, FALSE) # {}
        /\ q.bucket = "assigned" => Among(group, TRUE) # {}
        /\ q.bucket = "completed" => Among(group, TRUE) = {}
    <2> DEFINE b == q.bucket
    <2>1. Flexi!InBucket(group, b)
      BY <1>1
    <2> HIDE DEF group, b
    <2>2. Among(group, TRUE) \union Among(group, FALSE) # {}
      BY <2>1, BucketIs
    <2>3. b = "assigned" => Among(group, TRUE) # {}
      BY <2>1, BucketIs
    <2>4. b = "completed" => Among(group, TRUE) = {}
      BY <2>1, BucketIs
    <2>5. QED
      BY <2>2, <2>3, <2>4 DEF b
  <1>3. PICK p : /\ Flexi!Primary(d, group) = {p} /\ IsPrimary(d, group, p)
                 /\ Flexi!PrimaryRow(Flexi!Scored(d, q.handle), m) = RowOf(d, p)
    <2> DEFINE h == q.handle
    <2>1. Among(Group(d, h, m), TRUE) \union Among(Group(d, h, m), FALSE) # {}
      BY <1>2
    <2>2. \E p : MakesRow(d, h, m, p)
      <3> HIDE DEF h
      <3>1. QED
        BY <2>1, PrimaryRowIs
    <2>3. QED
      BY <2>2 DEF MakesRow
  <1>4. \A a \in group : a \in d.assignments /\ a.member = m
    BY SearchedAre DEF Group
  <1>5. p.assignment \in group
    BY <1>3 DEF IsPrimary, Among
  <1>6. IsListed(d, p)
    BY <1>3, <1>4, <1>5 DEF IsListed, IsPrimary
  <1>7. /\ q.bucket = "assigned" => p.current
        /\ q.bucket = "completed" => ~p.current
    BY <1>2, <1>3 DEF IsPrimary
  <1>8. QED
    BY <1>3, <1>4, <1>5, <1>6, <1>7

LEMMA ListedAre ==
    ASSUME NEW d, IsDashboard(d), NEW q, IsListQuery(q)
    PROVE  /\ AreListed(d, ListedIn(d, q), q)
           /\ {Flexi!PrimaryRow(Flexi!Scored(d, q.handle), m) : m \in InList(d, q)}
                  = RowsListed(d, ListedIn(d, q))
           /\ \A m \in InList(d, q) : \E p \in ListedIn(d, q) : p.assignment.member = m
           /\ IsFiniteSet(ListedIn(d, q))
           /\ Cardinality(ListedIn(d, q)) <= Cardinality(d.assignments)
  <1> DEFINE M == InList(d, q)
             L == ListedIn(d, q)
             primary(m) == Flexi!Primary(d, Group(d, q.handle, m))
             row(m) == Flexi!PrimaryRow(Flexi!Scored(d, q.handle), m)
             is(m, p) == /\ primary(m) = {p} /\ IsListed(d, p) /\ p.assignment.member = m
                         /\ q.bucket = "assigned" => p.current
                         /\ q.bucket = "completed" => ~p.current
                         /\ row(m) = RowOf(d, p)
  <1>1. \A m \in M : \E p : is(m, p)
    BY MembersArePrimaries
  <1>2. L = UNION {primary(m) : m \in M}
    BY DEF ListedIn
  <1> HIDE DEF M, L, primary, row
  <1>3. \A p \in L : \E m \in M : is(m, p)
    BY <1>1, <1>2
  <1>4. \A m \in M : \E p \in L : is(m, p)
    BY <1>1, <1>2
  <1>5. AreListed(d, L, q)
    <2>1. \A p \in L : IsListed(d, p)
      BY <1>3
    <2>2. \A x, y \in L : x.assignment = y.assignment => x = y
      BY <1>3
    <2>3. ASSUME q.bucket # "total"
          PROVE  \A x, y \in L : x.current = y.current
      <3>1. \A p \in L : p.current \in BOOLEAN
        BY <2>1 DEF IsListed
      <3>2. q.bucket \in {"assigned", "completed"}
        BY <2>3 DEF IsListQuery
      <3>3. QED
        BY <1>3, <3>1, <3>2
    <2>4. QED
      BY <2>1, <2>2, <2>3 DEF AreListed
  <1>6. {row(m) : m \in M} = RowsListed(d, L)
    BY <1>3, <1>4 DEF RowsListed
  <1>7. \A m \in M : \E p \in L : p.assignment.member = m
    BY <1>4
  <1>8. IsFiniteSet(L) /\ Cardinality(L) <= Cardinality(d.assignments)
    <2> DEFINE A == {p.assignment : p \in L}
               f == [p \in L |-> p.assignment]
    <2>1. A \subseteq d.assignments
      BY <1>3 DEF IsListed
    <2>2. IsFiniteSet(d.assignments)
      BY DEF IsDashboard
    <2>3. IsFiniteSet(A) /\ Cardinality(A) <= Cardinality(d.assignments)
      BY <2>1, <2>2, FS_Subset
    <2>4. f \in Bijection(L, A)
      <3>1. f \in [L -> A] /\ \A t \in A : \E p \in L : f[p] = t
        OBVIOUS
      <3>2. \A x, y \in L : f[x] = f[y] => x = y
        BY <1>5 DEF AreListed
      <3> HIDE DEF f, A
      <3>3. QED
        BY <3>1, <3>2, BijectionIs
    <2>5. IsFiniteSet(L) /\ Cardinality(L) = Cardinality(A)
      <3> HIDE DEF f, A
      <3>1. PICK g : g \in Bijection(A, L)
        BY <2>4, Fun_BijInverse
      <3>2. QED
        BY <2>3, <3>1, SameSize
    <2>6. QED
      BY <2>3, <2>5
  <1>9. QED
    BY <1>5, <1>6, <1>7, <1>8 DEF M, row, L

\* The member list in SQL and in TypeScript, by the rows it is cut from.
LEMMA MemberListIs ==
    ASSUME NEW d, NEW q
    PROVE  LET L == ListedIn(d, q)
               T == {Flexi!PrimaryRow(Flexi!Scored(d, q.handle), m) : m \in InList(d, q)}
               page == Flexi!Page(Flexi!InOrder(L, ListOrder(d, L, q)), q)
           IN  /\ Flexi!MemberList(d, q).rows
                      = Flexi!Page(Flexi!InOrder(T, SqlOrder(T, q)), q)
               /\ Flexi!ReferenceList(d, q) = [i \in DOMAIN page |-> RowOf(d, page[i])]
  <1> DEFINE L == ListedIn(d, q)
             scored == Flexi!Scored(d, q.handle)
             T == {Flexi!PrimaryRow(scored, m) : m \in InList(d, q)}
             page == Flexi!Page(Flexi!InOrder(L, ListOrder(d, L, q)), q)
  <1>1. Flexi!MemberList(d, q).rows = Flexi!Page(Flexi!InOrder(T, SqlOrder(T, q)), q)
    <2> DEFINE M == Flexi!MembersIn(scored, q.bucket)
               U == {Flexi!PrimaryRow(scored, m) : m \in M}
               page2 == Flexi!Page(Flexi!InOrder(U, SqlOrder(U, q)), q)
               total == Flexi!Cardinality(M)
    <2>1. Flexi!MemberList(d, q) = [total |-> total, rows |-> page2]
      BY Zenon DEF Flexi!MemberList, SqlOrder
    <2>2. M = InList(d, q)
      BY BucketsAgree
    <2>3. U = T
      <3> HIDE DEF M
      <3>1. QED
        BY <2>2
    <2>4. page2 = Flexi!Page(Flexi!InOrder(T, SqlOrder(T, q)), q)
      <3> HIDE DEF U, T
      <3>1. QED
        BY <2>3
    <2> HIDE DEF total, page2, T
    <2>5. Flexi!MemberList(d, q).rows = page2
      BY <2>1
    <2>6. QED
      BY <2>4, <2>5
  <1>2. Flexi!ReferenceList(d, q) = [i \in DOMAIN page |-> RowOf(d, page[i])]
    <2> DEFINE rows == {a \in Flexi!Qualifying(d) : q.handle \in {None, a.handle}}
               group(m) == {a \in rows : a.member = m}
               members == {m \in {a.member : a \in rows} : Flexi!InBucket(group(m), q.bucket)}
               listed == UNION {Flexi!Primary(d, group(m)) : m \in members}
               order == {p \in listed \X listed : Flexi!ListedBefore(d, p[1], p[2], q)}
               cut == Flexi!Page(Flexi!InOrder(listed, order), q)
    <2>1. rows = Searched(d, q.handle)
      BY DEF Searched
    <2>2. \A m : group(m) = Group(d, q.handle, m)
      BY <2>1 DEF Group
    <2>3. members = InList(d, q)
      BY <2>1, <2>2 DEF InList
    <2>4. listed = L
      <3> HIDE DEF members, group
      <3>1. listed = UNION {Flexi!Primary(d, Group(d, q.handle, m)) : m \in members}
        BY <2>2
      <3>2. QED
        BY <2>3, <3>1 DEF ListedIn
    <2>5. order = ListOrder(d, L, q)
      <3> HIDE DEF listed, L
      <3>1. QED
        BY <2>4 DEF ListOrder
    <2>6. cut = page
      <3> HIDE DEF listed, order, L
      <3>1. QED
        BY <2>4, <2>5
    <2>7. Flexi!ReferenceList(d, q) = [i \in DOMAIN cut |-> RowOf(d, cut[i])]
      BY Zenon DEF Flexi!ReferenceList, RowOf
    <2> HIDE DEF cut, page
    <2>8. QED
      BY <2>6, <2>7
  <1>3. QED
    BY <1>1, <1>2

\* For every dashboard and every request for a page: SQL returns the page of the primaries
\* the service would choose, sorted by its comparisons.
THEOREM EveryListIsReference ==
    ASSUME NEW d, IsDashboard(d), NEW q, IsListQuery(q)
    PROVE  Flexi!ListMatchesReference(d, q)
  <1> DEFINE L == ListedIn(d, q)
             T == {Flexi!PrimaryRow(Flexi!Scored(d, q.handle), m) : m \in InList(d, q)}
             R == ListOrder(d, L, q)
             Q == SqlOrder(T, q)
             f == [p \in L |-> RowOf(d, p)]
             s == Flexi!InOrder(L, R)
             t == Flexi!InOrder(T, Q)
             page == Flexi!Page(s, q)
  <1>1. AreListed(d, L, q) /\ T = RowsListed(d, L) /\ IsFiniteSet(L)
    BY ListedAre
  <1>2. Carries(f, L, R, T, Q) /\ Orders(Q, T)
    <2> DEFINE U == RowsListed(d, L)
    <2>1. Carries(f, L, R, U, SqlOrder(U, q)) /\ Orders(SqlOrder(U, q), U)
      <3> HIDE DEF L
      <3>1. QED
        BY <1>1, ListedAreOrdered
    <2>2. T = U
      BY <1>1
    <2> HIDE DEF T, U, f, R
    <2>3. QED
      BY <2>1, <2>2
  <1>3. /\ Flexi!MemberList(d, q).rows = Flexi!Page(t, q)
        /\ Flexi!ReferenceList(d, q) = [i \in DOMAIN page |-> RowOf(d, page[i])]
    BY MemberListIs
  <1>4. \A p \in L : f[p] = RowOf(d, p)
    OBVIOUS
  <1> HIDE DEF L, T, R, Q, f
  <1>5. Orders(R, L)
    BY <1>2, OrdersAreCarried
  <1>6. /\ IsFiniteSet(T) /\ Cardinality(T) = Cardinality(L)
        /\ \A n \in 1..Cardinality(L) : t[n] = f[s[n]]
    BY <1>1, <1>2, SortsAreCarried
  <1>7. /\ s \in Seq(L) /\ Len(s) = Cardinality(L)
        /\ t \in Seq(T) /\ Len(t) = Cardinality(T)
    BY <1>1, <1>2, <1>5, <1>6, SortedIs
  <1> HIDE DEF s, t
  <1>8. /\ Flexi!Page(t, q) = [i \in DOMAIN page |-> f[page[i]]]
        /\ \A i \in DOMAIN page : page[i] \in L
    <2>1. Len(t) = Len(s) /\ \A i \in 1..Len(s) : t[i] = f[s[i]]
      BY <1>6, <1>7
    <2>2. q.page \in Nat \ {0} /\ q.perPage \in Nat
      BY DEF IsListQuery
    <2>3. IsImage(Flexi!Page(t, q), Flexi!Page(s, q), f, L)
      BY <1>7, <2>1, <2>2, PagesAreCarried
    <2>4. QED
      BY <2>3 DEF IsImage
  <1> HIDE DEF page
  <1>9. [i \in DOMAIN page |-> f[page[i]]] = [i \in DOMAIN page |-> RowOf(d, page[i])]
    BY <1>4, <1>8
  <1>10. QED
    BY <1>3, <1>8, <1>9 DEF Flexi!ListMatchesReference

-----------------------------------------------------------------------------
(* The dashboard: one member, one story *)

\* The history of one member puts current assignments, and completed ones, in the order
\* their primary is chosen by.
LEMMA HistoryAgrees ==
    ASSUME NEW d, IsDashboard(d), NEW a \in d.assignments, NEW b \in d.assignments,
           a.member = b.member, NEW current \in BOOLEAN,
           {a.status, b.status} \subseteq IF current THEN Flexi!Assigned ELSE Flexi!Completed
    PROVE  Flexi!HistoryBefore(Flexi!HistoryItem(d, a), Flexi!HistoryItem(d, b))
               <=> Sooner(d, a, b, current)
  <1> DEFINE g == Flexi!HistoryItem(d, a)
             h == Flexi!HistoryItem(d, b)
             x == Flexi!ResolvedEnd(a)
             y == Flexi!ResolvedEnd(b)
             u == Flexi!CompletionTime(a)
             v == Flexi!CompletionTime(b)
             title(e) == Flexi!EngagementOf(d, e).title
             t == title(a) - title(b)
             n == a.handle - b.handle
             m == a.member - b.member
             i == a.id - b.id
             ties == Flexi!CompareTies(d, a, b)
             c == IF current THEN Flexi!CompareAsc(x, y) ELSE Flexi!CompareDesc(u, v)
  <1>1. /\ title(a) \in Int /\ a.handle \in Int /\ a.member \in Int /\ a.id \in Int
        /\ title(b) \in Int /\ b.handle \in Int /\ b.member \in Int /\ b.id \in Int
        /\ x \in Keyed /\ y \in Keyed /\ u \in Int /\ v \in Int
    BY AssignmentIs
  <1>2. /\ (a.status \in Flexi!Assigned) = current
        /\ (b.status \in Flexi!Assigned) = current
    BY DEF Flexi!Assigned, Flexi!Completed
  <1>3. /\ g = [assignment |-> a.id, handle |-> a.handle, title |-> title(a),
                current |-> current, end |-> x,
                completedAt |-> IF current THEN None ELSE u]
        /\ h = [assignment |-> b.id, handle |-> b.handle, title |-> title(b),
                current |-> current, end |-> y,
                completedAt |-> IF current THEN None ELSE v]
    BY <1>2 DEF Flexi!HistoryItem
  <1>4. Flexi!HistoryBefore(g, h) <=> Flexi!FirstNonZero(<<c, t, n, i>>) < 0
    <2> HIDE DEF g, h
    <2>1. /\ g.current = h.current /\ g.current = current
          /\ g.title - h.title = t /\ g.handle - h.handle = n
          /\ g.assignment - h.assignment = i /\ g.end = x /\ h.end = y
          /\ (~current => g.completedAt = u /\ h.completedAt = v)
      BY <1>3
    <2> DEFINE e == IF g.current THEN Flexi!CompareAsc(g.end, h.end)
                    ELSE Flexi!CompareDesc(g.completedAt, h.completedAt)
    <2>2. e = c
      BY <2>1
    <2>3. Flexi!HistoryBefore(g, h) <=>
              Flexi!FirstNonZero(<<e, g.title - h.title, g.handle - h.handle,
                                   g.assignment - h.assignment>>) < 0
      BY <2>1 DEF Flexi!HistoryBefore
    <2> HIDE DEF e, c, t, n, i
    <2>4. QED
      BY <2>1, <2>2, <2>3
  <1>5. ties = Flexi!FirstNonZero(<<t, n, m, i>>)
    BY DEF Flexi!CompareTies
  <1>6. /\ Flexi!EndsBefore(d, a, b)
               <=> (x # None /\ (y = None \/ x < y)) \/ (x = y /\ ties < 0)
        /\ Flexi!CompletedAfter(d, a, b) <=> v < u \/ (v = u /\ ties < 0)
    BY SoonerIs
  <1>7. t \in Int /\ n \in Int /\ m \in Int /\ i \in Int /\ m = 0
    BY <1>1
  <1>8. /\ c \in Int
        /\ current => /\ c < 0 <=> x # None /\ (y = None \/ x < y)
                      /\ c = 0 <=> x = y
        /\ ~current => (c < 0 <=> v < u) /\ (c = 0 <=> v = u)
    <2> HIDE DEF x, y, u, v
    <2>1. u \in Keyed /\ v \in Keyed /\ u # None /\ v # None
      BY <1>1, NoneIsNoAnswer DEF Keyed
    <2>2. CASE current
      BY <1>1, <2>2, ComparisonsAre
    <2>3. CASE ~current
      <3>1. c = Flexi!CompareDesc(u, v)
        BY <2>3
      <3>2. QED
        BY <2>1, <2>3, <3>1, ComparisonsAre
    <2>4. QED
      BY <2>2, <2>3
  <1> HIDE DEF t, n, m, i, c, ties, x, y, u, v, g, h
  <1>9. ties < 0 <=> t < 0 \/ (t = 0 /\ n < 0) \/ (t = 0 /\ n = 0 /\ i < 0)
    BY <1>5, <1>7, FirstOfFour
  <1>10. Flexi!HistoryBefore(g, h) <=> c < 0 \/ (c = 0 /\ ties < 0)
    BY <1>4, <1>7, <1>8, <1>9, FirstOfFour
  <1>11. CASE current
    BY <1>6, <1>8, <1>10, <1>11 DEF Sooner, g, h
  <1>12. CASE ~current
    BY <1>6, <1>8, <1>10, <1>12 DEF Sooner, g, h
  <1>13. QED
    BY <1>11, <1>12

\* The newest of a member's history is about the member's primary.
LEMMA HistoryHead ==
    ASSUME NEW d, IsDashboard(d), NEW m, NEW p, IsPrimary(d, Flexi!RowsOf(d, m), p)
    PROVE  Head(Flexi!MemberHistory(d, m)) = Flexi!HistoryItem(d, p.assignment)
  <1> DEFINE rows == Flexi!RowsOf(d, m)
             current == p.current
             C == Among(rows, current)
             a == p.assignment
             item(b) == Flexi!HistoryItem(d, b)
             items == {item(b) : b \in rows}
             R == {r \in items \X items : Flexi!HistoryBefore(r[1], r[2])}
             h == item(a)
  <1>1. \A b \in rows : /\ b \in d.assignments /\ b.member = m
                        /\ b.status \in Flexi!Assigned \/ b.status \in Flexi!Completed
    BY DEF Flexi!RowsOf, Flexi!Qualifying
  <1>2. /\ current \in BOOLEAN /\ (current <=> Among(rows, TRUE) # {}) /\ a \in C
        /\ \A b \in C \ {a} : Sooner(d, a, b, current)
    BY DEF IsPrimary
  <1>3. \A b \in C : /\ b \in rows
                     /\ b.status \in IF current THEN Flexi!Assigned ELSE Flexi!Completed
    BY DEF Among
  <1>4. AreCandidates(d, C, current)
    BY <1>1, <1>2, <1>3 DEF AreCandidates
  <1>5. Orders(SoonerOrder(d, C, current), C) /\ IsFiniteSet(rows)
    <2>1. Orders(SoonerOrder(d, C, current), C)
      <3> DEFINE f == [b \in C |-> Score(d, b)]
                 O == SoonerOrder(d, C, current)
                 T == Scores(d, C)
                 Q == PrimaryOrder(T, current)
      <3>1. Carries(f, C, O, T, Q) /\ Orders(Q, T)
        BY <1>4, CandidatesAreOrdered
      <3> HIDE DEF f, C, O, T, Q
      <3>2. Orders(O, C)
        BY <3>1, OrdersAreCarried
      <3>3. QED
        BY <3>2 DEF O
    <2>2. IsFiniteSet(rows)
      BY <1>1, FS_Subset DEF IsDashboard
    <2>3. QED
      BY <2>1, <2>2
  <1>6. /\ ~Sooner(d, a, a, current)
        /\ \A b \in C \ {a} : ~Sooner(d, b, a, current)
    BY <1>2, <1>5 DEF Orders, SoonerOrder
  <1>7. \A b \in C : /\ Flexi!HistoryBefore(h, item(b)) <=> Sooner(d, a, b, current)
                     /\ Flexi!HistoryBefore(item(b), h) <=> Sooner(d, b, a, current)
    BY <1>1, <1>2, <1>3, HistoryAgrees
  <1>8. ASSUME NEW b \in rows, b \notin C
        PROVE  Flexi!HistoryBefore(h, item(b)) /\ ~Flexi!HistoryBefore(item(b), h)
    <2>1. current /\ a.status \in Flexi!Assigned /\ b.status \notin Flexi!Assigned
      BY <1>1, <1>2, <1>8 DEF Among
    <2>2. /\ h.current = (a.status \in Flexi!Assigned)
          /\ item(b).current = (b.status \in Flexi!Assigned)
      BY DEF Flexi!HistoryItem
    <2> HIDE DEF h, item
    <2>3. QED
      BY <2>1, <2>2 DEF Flexi!HistoryBefore
  <1>9. h \in items /\ <<h, h>> \notin R
    BY <1>2, <1>3, <1>6, <1>7
  <1>10. \A y \in items \ {h} : <<h, y>> \in R /\ <<y, h>> \notin R
    <2>1. ASSUME NEW b \in rows, item(b) # h
          PROVE  Flexi!HistoryBefore(h, item(b)) /\ ~Flexi!HistoryBefore(item(b), h)
      <3>1. b # a
        BY <2>1
      <3>2. CASE b \in C
        BY <1>2, <1>6, <1>7, <3>1, <3>2
      <3>3. CASE b \notin C
        BY <1>8, <3>3
      <3>4. QED
        BY <3>2, <3>3
    <2> HIDE DEF h, item, rows
    <2>2. QED
      BY <1>9, <2>1
  <1>11. IsFiniteSet(items)
    <2> DEFINE f == [b \in rows |-> item(b)]
    <2>1. f \in Surjection(rows, items)
      <3> HIDE DEF rows, item
      <3>1. QED
        BY DEF Surjection
    <2> HIDE DEF f, items, rows
    <2>2. QED
      BY <1>5, <2>1, FS_Surjection
  <1>12. Flexi!MemberHistory(d, m) = Flexi!InOrder(items, R)
    BY Zenon DEF Flexi!MemberHistory
  <1> HIDE DEF items, R, h
  <1>13. Flexi!InOrder(items, R)[1] = h
    BY <1>9, <1>10, <1>11, HeadIs
  <1>14. Head(Flexi!InOrder(items, R)) = Flexi!InOrder(items, R)[1]
    BY DEF Flexi!InOrder
  <1>15. QED
    BY <1>12, <1>13, <1>14 DEF h

\* A first page as long as the list is the list.
LEMMA WholePage ==
    ASSUME NEW T, IsFiniteSet(T), NEW Q, Orders(Q, T),
           NEW q, q.page = 1, q.perPage \in Nat, Cardinality(T) <= q.perPage
    PROVE  LET page == Flexi!Page(Flexi!InOrder(T, Q), q) IN
           /\ Flexi!RowsIn(page) = T /\ DOMAIN page = 1..Cardinality(T)
           /\ page \in Seq(T) /\ Len(page) = Cardinality(T)
  <1> DEFINE t == Flexi!InOrder(T, Q)
             n == Cardinality(T)
             skip == (q.page - 1) * q.perPage
             last == IF Len(t) < skip + q.perPage THEN Len(t) ELSE skip + q.perPage
             page == Flexi!Page(t, q)
  <1>1. /\ n \in Nat /\ t \in Seq(T) /\ Len(t) = n
        /\ \A x \in T : \E i \in 1..n : t[i] = x
        /\ \A i \in 1..n : t[i] \in T
    BY SortedIs
  <1>2. page = SubSeq(t, skip + 1, last)
    BY DEF Flexi!Page
  <1>3. skip = 0
    OBVIOUS
  <1> HIDE DEF t, skip, n
  <1>4. last = n
    BY <1>1, <1>3 DEF n
  <1>5. page = SubSeq(t, 1, n)
    BY <1>2, <1>3, <1>4
  <1> HIDE DEF page, last
  <1>6. /\ DOMAIN page = 1..n /\ page \in Seq(T)
        /\ \A i \in 1..n : page[i] = t[i]
    <2>1. 1 \in Nat \ {0} /\ n \in 0..Len(t) /\ n - 1 + 1 = n
      BY <1>1
    <2>2. \A i \in 1..n : 1 + i - 1 = i
      BY <1>1
    <2> DEFINE b == 1
               u == SubSeq(t, b, n)
    <2>3. b \in Nat \ {0} /\ n - b + 1 = n /\ \A i \in 1..n : b + i - 1 = i
      BY <2>1, <2>2
    <2> HIDE DEF b
    <2>4. /\ DOMAIN u = 1..n /\ u \in Seq(T)
          /\ \A i \in 1..n : u[i] = t[i]
      BY <1>1, <2>1, <2>3, PieceIs
    <2>5. u = page
      BY <1>5 DEF b
    <2> HIDE DEF u
    <2>6. QED
      BY <2>4, <2>5
  <1>7. Len(page) = n
    BY <1>1, <1>6
  <1>8. Flexi!RowsIn(page) = T
    BY <1>1, <1>6 DEF Flexi!RowsIn
  <1>9. QED
    BY <1>6, <1>7, <1>8 DEF page, t, n

\* The rows of the whole list.
LEMMA WholeList ==
    ASSUME NEW d, IsDashboard(d), NEW q, IsListQuery(q),
           q.page = 1, q.perPage = Cardinality(d.assignments)
    PROVE  Flexi!RowsIn(Flexi!MemberList(d, q).rows) = RowsListed(d, ListedIn(d, q))
  <1> DEFINE L == ListedIn(d, q)
             T == {Flexi!PrimaryRow(Flexi!Scored(d, q.handle), m) : m \in InList(d, q)}
             R == ListOrder(d, L, q)
             Q == SqlOrder(T, q)
             f == [p \in L |-> RowOf(d, p)]
  <1>1. /\ AreListed(d, L, q) /\ T = RowsListed(d, L) /\ IsFiniteSet(L)
        /\ Cardinality(L) <= q.perPage
    BY ListedAre
  <1>2. Carries(f, L, R, T, Q) /\ Orders(Q, T)
    <2> DEFINE U == RowsListed(d, L)
    <2>1. Carries(f, L, R, U, SqlOrder(U, q)) /\ Orders(SqlOrder(U, q), U)
      <3> HIDE DEF L
      <3>1. QED
        BY <1>1, ListedAreOrdered
    <2>2. T = U
      BY <1>1
    <2> HIDE DEF T, U, f, R
    <2>3. QED
      BY <2>1, <2>2
  <1>3. Flexi!MemberList(d, q).rows = Flexi!Page(Flexi!InOrder(T, Q), q)
    BY MemberListIs
  <1>4. q.perPage \in Nat
    BY DEF IsListQuery
  <1> HIDE DEF L, T, R, Q, f
  <1>5. IsFiniteSet(T) /\ Cardinality(T) <= q.perPage
    BY <1>1, <1>2, SortsAreCarried
  <1>6. Flexi!RowsIn(Flexi!Page(Flexi!InOrder(T, Q), q)) = T
    BY <1>2, <1>4, <1>5, WholePage
  <1>7. QED
    BY <1>1, <1>3, <1>6 DEF L

\* For every dashboard: a member's row, detail and newest history item are about one
\* assignment.
THEOREM EveryMemberIsOne ==
    ASSUME NEW d, IsDashboard(d)
    PROVE  Flexi!MemberViewsAgree(d)
  <1> DEFINE all == [bucket |-> "total", handle |-> None, sortBy |-> "handle",
                     sortOrder |-> "asc", page |-> 1,
                     perPage |-> Flexi!Cardinality(d.assignments)]
             group(m) == Group(d, None, m)
             rows == Flexi!RowsIn(Flexi!MemberList(d, all).rows)
             L == ListedIn(d, all)
             M == InList(d, all)
  <1>1. /\ IsListQuery(all) /\ all.page = 1
        /\ all.perPage = Cardinality(d.assignments) /\ all.handle = None
        /\ all.bucket = "total"
    <2>1. Flexi!Cardinality(d.assignments) = Cardinality(d.assignments)
      BY FlexiSizesAre
    <2>2. Cardinality(d.assignments) \in Nat
      BY FS_CardinalityType DEF IsDashboard
    <2>3. QED
      BY <2>1, <2>2 DEF IsListQuery, Directions
  <1> HIDE DEF all
  <1>2. rows = RowsListed(d, L)
    BY <1>1, WholeList
  <1>3. \A m : Flexi!RowsOf(d, m) = group(m) /\ group(m) \in SUBSET d.assignments
    <2>1. Searched(d, None) = Flexi!Qualifying(d)
      BY DEF Searched
    <2>2. QED
      BY <2>1, SearchedAre DEF Flexi!RowsOf, Group
  <1>4. \A m : m \in M <=> Among(group(m), TRUE) \union Among(group(m), FALSE) # {}
    <2>1. \A m : Flexi!InBucket(group(m), "total") <=>
                     Among(group(m), TRUE) \union Among(group(m), FALSE) # {}
      <3>1. \A g : Flexi!InBucket(g, "total") <=> Among(g, TRUE) # {} \/ Among(g, FALSE) # {}
        <4> TAKE g
        <4> DEFINE b == "total"
        <4>1. b # "assigned" /\ b # "completed"
          OBVIOUS
        <4> HIDE DEF b
        <4>2. Flexi!InBucket(g, b) <=> Among(g, TRUE) # {} \/ Among(g, FALSE) # {}
          BY <4>1, BucketIs
        <4>3. QED
          BY <4>2 DEF b
      <3>2. QED
        BY <3>1
    <2>2. M = {m \in {a.member : a \in Searched(d, None)} : Flexi!InBucket(group(m), "total")}
      BY <1>1 DEF InList
    <2>3. \A m : \A a \in group(m) : a \in Searched(d, None) /\ a.member = m
      BY DEF Group
    <2>4. \A m : Among(group(m), TRUE) \union Among(group(m), FALSE) # {} =>
                     m \in {a.member : a \in Searched(d, None)}
      BY <2>3 DEF Among
    <2> HIDE DEF group, M
    <2>5. QED
      BY <2>1, <2>2, <2>4
  <1>5. /\ \A m \in M : \E p \in L : p.assignment.member = m
        /\ \A p \in L : \E m \in M : /\ Flexi!Primary(d, group(m)) = {p}
                                     /\ p.assignment.member = m
    <2>1. \A m \in M : \E p \in L : p.assignment.member = m
      BY <1>1, ListedAre
    <2>2. \A m \in M : \E p : /\ Flexi!Primary(d, group(m)) = {p}
                              /\ p.assignment.member = m
      BY <1>1, MembersArePrimaries
    <2>3. L = UNION {Flexi!Primary(d, group(m)) : m \in M}
      BY <1>1 DEF ListedIn
    <2> HIDE DEF group, M, L
    <2>4. QED
      BY <2>1, <2>2, <2>3
  <1>6. \A p \in L : RowOf(d, p).member = p.assignment.member
    BY DEF RowOf
  <1>7. \A m : m \in M <=> \E r \in rows : r.member = m
    <2> HIDE DEF rows, L, M, group
    <2>1. QED
      BY <1>2, <1>5, <1>6 DEF RowsListed
  <1>8. ASSUME NEW m
        PROVE  /\ m \notin M => Flexi!Primary(d, Flexi!RowsOf(d, m)) = {}
               /\ m \in M => \E p : /\ Flexi!Primary(d, Flexi!RowsOf(d, m)) = {p}
                                    /\ IsPrimary(d, Flexi!RowsOf(d, m), p)
    <2> DEFINE g == group(m)
    <2>1. g \in SUBSET d.assignments /\ Flexi!RowsOf(d, m) = g
      BY <1>3
    <2>2. m \in M <=> Among(g, TRUE) \union Among(g, FALSE) # {}
      BY <1>4
    <2> HIDE DEF g, M
    <2>3. QED
      BY <2>1, <2>2, PrimaryIs
  <1> DEFINE detail(p, m) ==
                 [member |-> m, assignment |-> p.assignment.id,
                  current |-> p.current, end |-> Flexi!ResolvedEnd(p.assignment),
                  days |-> Flexi!DaysLeft(Flexi!ResolvedEnd(p.assignment)),
                  duration |-> Flexi!DurationOf(p.assignment.months,
                                                Flexi!EngagementOf(d, p.assignment))]
  <1>9. \A m : Flexi!MemberDetail(d, m)
                   = {detail(p, m) : p \in Flexi!Primary(d, Flexi!RowsOf(d, m))}
    BY DEF Flexi!MemberDetail
  <1>10. ASSUME NEW m
         PROVE  Flexi!MemberDetail(d, m) = {} <=> ~\E r \in rows : r.member = m
    <2> HIDE DEF rows, M, detail
    <2>1. QED
      BY <1>7, <1>8, <1>9
  <1>11. ASSUME NEW r \in rows, NEW e \in Flexi!MemberDetail(d, r.member)
         PROVE  LET newest == Head(Flexi!MemberHistory(d, r.member)) IN
                /\ r.assignment = e.assignment
                /\ r.assignment = newest.assignment
                /\ r.current = e.current /\ r.current = newest.current
                /\ r.current => r.days = e.days
                /\ r.completedAt = newest.completedAt
    <2> DEFINE m == r.member
               own == Flexi!RowsOf(d, m)
    <2>1. PICK p \in L : r = RowOf(d, p)
      BY <1>2 DEF RowsListed
    <2>2. m = p.assignment.member
      BY <1>6, <2>1
    <2>3. m \in M /\ Flexi!Primary(d, own) = {p}
      <3> HIDE DEF group, M, L
      <3>1. QED
        BY <1>3, <1>5, <2>2
    <2>4. IsPrimary(d, own, p)
      <3> HIDE DEF M
      <3>1. PICK o : Flexi!Primary(d, own) = {o} /\ IsPrimary(d, own, o)
        BY <1>8, <2>3
      <3>2. o = p
        BY <2>3, <3>1
      <3>3. QED
        BY <3>1, <3>2
    <2>5. e = detail(p, m)
      <3> HIDE DEF detail, own
      <3>1. Flexi!MemberDetail(d, m) = {detail(p, m)}
        BY <1>9, <2>3 DEF own
      <3>2. QED
        BY <3>1
    <2> DEFINE a == p.assignment
               newest == Head(Flexi!MemberHistory(d, m))
    <2>6. newest = Flexi!HistoryItem(d, a)
      BY <2>4, HistoryHead
    <2>7. /\ p.current \in BOOLEAN
          /\ a.status \in IF p.current THEN Flexi!Assigned ELSE Flexi!Completed
          /\ p.days = IF p.current THEN Flexi!DaysLeft(Flexi!ResolvedEnd(a)) ELSE None
          /\ p.completedAt = IF p.current THEN None ELSE Flexi!CompletionTime(a)
      BY <2>4 DEF IsPrimary, Among
    <2>8. (a.status \in Flexi!Assigned) = p.current
      BY <2>7 DEF Flexi!Assigned, Flexi!Completed
    <2>9. /\ newest.assignment = a.id
          /\ newest.current = p.current
          /\ newest.completedAt = p.completedAt
      <3>1. /\ Flexi!HistoryItem(d, a).assignment = a.id
            /\ Flexi!HistoryItem(d, a).current = (a.status \in Flexi!Assigned)
            /\ Flexi!HistoryItem(d, a).completedAt =
                   IF a.status \in Flexi!Assigned THEN None ELSE Flexi!CompletionTime(a)
        BY DEF Flexi!HistoryItem
      <3> HIDE DEF newest, a
      <3>2. QED
        BY <2>6, <2>7, <2>8, <3>1
    <2>10. /\ e.assignment = a.id /\ e.current = p.current
           /\ e.days = Flexi!DaysLeft(Flexi!ResolvedEnd(a))
      BY <2>5
    <2>11. /\ r.assignment = a.id /\ r.current = p.current /\ r.days = p.days
           /\ r.completedAt = p.completedAt
      BY <2>1 DEF RowOf
    <2> HIDE DEF newest, a
    <2>12. QED
      BY <2>7, <2>9, <2>10, <2>11 DEF newest
  <1>12. QED
    <2> HIDE DEF rows
    <2>1. \A m \in {a.member : a \in d.assignments} :
              Flexi!MemberDetail(d, m) = {} <=> ~\E r \in rows : r.member = m
      BY <1>10
    <2>2. QED
      BY <1>11, <2>1 DEF Flexi!MemberViewsAgree, rows, all

-----------------------------------------------------------------------------
(* The dashboard: the summaries *)

\* What Prisma finds, SQL finds.
LEMMA FindsAgree ==
    ASSUME NEW d, NEW filters
    PROVE  Flexi!SqlEngagementsIn(d, filters) = Flexi!EngagementsIn(d, filters)
  <1> DEFINE named == {e \in d.engagements : e.title = filters.text}
             placed == {e \in d.engagements : e.project \in filters.projects}
             searched == IF filters.projects = {} THEN named ELSE named \union placed
             kept(e) == e.project \notin Ignored /\ e.status \in Flexi!StatusesOf(filters.bucket)
             S == IF filters.text = None THEN d.engagements ELSE searched
  <1>1. Flexi!SqlEngagementsIn(d, filters) = {e \in S : kept(e)}
    BY DEF Flexi!SqlEngagementsIn
  <1>2. searched = {e \in d.engagements : e.title = filters.text \/ e.project \in filters.projects}
    OBVIOUS
  <1> HIDE DEF searched
  <1>3. QED
    BY <1>1, <1>2 DEF Flexi!EngagementsIn, Flexi!Shown

\* A request for a page of the engagement list.
IsEngagementQuery(q) == q.sortOrder \in Directions

EngagementOrder(d, listed, q) ==
    {p \in listed \X listed :
        Flexi!SqlBefore(Flexi!EngagementKeys(d, p[1], q), Flexi!EngagementKeys(d, p[2], q))}

LEMMA EngagementsAreOrdered ==
    ASSUME NEW d, IsDashboard(d), NEW q, IsEngagementQuery(q), NEW T \in SUBSET d.engagements
    PROVE  Orders(EngagementOrder(d, T, q), T)
  <1> DEFINE n == IF q.sortBy = "memberCount" THEN 3 ELSE 2
             dirs == IF q.sortBy = "memberCount" THEN <<q.sortOrder, "asc", "asc">>
                     ELSE <<q.sortOrder, "asc">>
             keys == [e \in T |-> Flexi!EngagementKeys(d, e, q)]
             Q == EngagementOrder(d, T, q)
             count(e) == Flexi!CurrentCount(d, e)
  <1>1. \A e \in T : count(e) \in Keyed /\ e.title \in Keyed /\ e.id \in Keyed
    <2>1. ASSUME NEW e \in T
          PROVE  count(e) \in Nat
      <3> DEFINE A == {a \in d.assignments : a.engagement = e.id /\ a.status \in Flexi!Active}
      <3>1. IsFiniteSet(A)
        BY FS_Subset DEF IsDashboard
      <3>2. count(e) = Flexi!Cardinality(A)
        BY DEF Flexi!CurrentCount
      <3> HIDE DEF A
      <3>3. Flexi!Cardinality(A) = Cardinality(A) /\ Cardinality(A) \in Nat
        BY <3>1, FlexiSizesAre, FS_CardinalityType
      <3>4. QED
        BY <3>2, <3>3
    <2>2. \A e \in T : e.title \in Int /\ e.id \in Int
      BY DEF IsDashboard
    <2> HIDE DEF count
    <2>3. QED
      BY <2>1, <2>2 DEF Keyed
  <1>2. q.sortOrder \in Directions /\ "asc" \in Directions
    BY DEF IsEngagementQuery, Directions
  <1>3. ASSUME NEW e \in T
        PROVE  /\ IsKeyed(Flexi!EngagementKeys(d, e, q), dirs, n)
               /\ Flexi!EngagementKeys(d, e, q)[n][1] = e.id
    <2> DEFINE o == q.sortOrder
               c == count(e)
    <2>1. CASE q.sortBy = "memberCount"
      <3> DEFINE k == <<<<c, o>>, <<e.title, "asc">>, <<e.id, "asc">>>>
      <3>1. Flexi!EngagementKeys(d, e, q) = k /\ n = 3 /\ dirs = <<o, "asc", "asc">>
        BY <2>1 DEF Flexi!EngagementKeys
      <3> HIDE DEF c, o, n, dirs
      <3>2. IsKeyed(k, <<o, "asc", "asc">>, 3)
        BY <1>1, <1>2, ThreeAreKeyed DEF c, o
      <3>3. k[3][1] = e.id
        OBVIOUS
      <3> HIDE DEF k
      <3>4. QED
        BY <3>1, <3>2, <3>3
    <2>2. CASE q.sortBy # "memberCount"
      <3> DEFINE k == <<<<e.title, o>>, <<e.id, "asc">>>>
      <3>1. Flexi!EngagementKeys(d, e, q) = k /\ n = 2 /\ dirs = <<o, "asc">>
        BY <2>2 DEF Flexi!EngagementKeys
      <3> HIDE DEF o, n, dirs
      <3>2. IsKeyed(k, <<o, "asc">>, 2)
        BY <1>1, <1>2, TwoAreKeyed DEF o
      <3>3. k[2][1] = e.id
        OBVIOUS
      <3> HIDE DEF k
      <3>4. QED
        BY <3>1, <3>2, <3>3
    <2>3. QED
      BY <2>1, <2>2
  <1>4. dirs \in Seq(Directions) /\ Len(dirs) = n
    BY <1>2
  <1>5. \A e \in T : HasKeys(keys[e], dirs)
    <2> HIDE DEF dirs, n
    <2>1. QED
      BY <1>3 DEF IsKeyed
  <1>6. \A e, f \in T : keys[e] = keys[f] => e = f
    <2>1. \A e \in T : keys[e][n][1] = e.id
      BY <1>3
    <2>2. \A e, f \in T : e.id = f.id => e = f
      BY DEF IsDashboard
    <2> HIDE DEF keys, n
    <2>3. QED
      BY <2>1, <2>2
  <1>7. \A e, f \in T : <<e, f>> \in Q <=> Flexi!SqlBefore(keys[e], keys[f])
    BY DEF EngagementOrder
  <1> HIDE DEF keys, dirs, n, Q
  <1>8. Orders(Q, T)
    BY <1>4, <1>5, <1>6, <1>7, KeysOrder
  <1>9. QED
    BY <1>8 DEF Q

\* The whole engagement list, whichever way it is sorted.
LEMMA WholeEngagementList ==
    ASSUME NEW d, IsDashboard(d), NEW q, IsEngagementQuery(q),
           q.page = 1, q.perPage = Cardinality(d.engagements)
    PROVE  LET T == Flexi!EngagementsIn(d, Flexi!Filters(q.bucket, q.search))
               list == Flexi!EngagementList(d, q)
           IN  /\ IsFiniteSet(T) /\ T \subseteq d.engagements
               /\ list.total = Cardinality(T) /\ Len(list.rows) = Cardinality(T)
               /\ Flexi!RowsIn(list.rows) = {Flexi!EngagementRow(d, e) : e \in T}
  <1> DEFINE filters == Flexi!Filters(q.bucket, q.search)
             T == Flexi!EngagementsIn(d, filters)
             listed == IF q.sortBy = "memberCount" THEN Flexi!SqlEngagementsIn(d, filters) ELSE T
             order == EngagementOrder(d, listed, q)
             page == Flexi!Page(Flexi!InOrder(listed, order), q)
             rows == [i \in DOMAIN page |-> Flexi!EngagementRow(d, page[i])]
             total == Flexi!Cardinality(T)
             Q == EngagementOrder(d, T, q)
             cut == Flexi!Page(Flexi!InOrder(T, Q), q)
  <1>1. Flexi!EngagementList(d, q) = [total |-> total, rows |-> rows]
    BY Zenon DEF Flexi!EngagementList, EngagementOrder
  <1>2. listed = T
    BY FindsAgree
  <1>3. page = cut
    <2> HIDE DEF listed, T
    <2>1. QED
      BY <1>2
  <1>4. T \subseteq d.engagements
    BY DEF Flexi!EngagementsIn
  <1> HIDE DEF T, page
  <1>5. IsFiniteSet(T) /\ Cardinality(T) <= q.perPage /\ q.perPage \in Nat
    BY <1>4, FS_Subset, FS_CardinalityType DEF IsDashboard
  <1>6. Orders(Q, T)
    BY <1>4, EngagementsAreOrdered
  <1> HIDE DEF Q
  <1>7. /\ Flexi!RowsIn(cut) = T /\ DOMAIN cut = 1..Cardinality(T)
        /\ cut \in Seq(T) /\ Len(cut) = Cardinality(T)
    BY <1>5, <1>6, WholePage
  <1> HIDE DEF cut
  <1>8. rows = [i \in 1..Cardinality(T) |-> Flexi!EngagementRow(d, cut[i])]
    BY <1>3, <1>7
  <1>9. Cardinality(T) \in Nat
    BY <1>5, FS_CardinalityType
  <1>10. Len(rows) = Cardinality(T)
    BY <1>8, <1>9
  <1>11. Flexi!RowsIn(rows) = {Flexi!EngagementRow(d, e) : e \in T}
    <2>1. Flexi!RowsIn(rows) = {Flexi!EngagementRow(d, cut[i]) : i \in 1..Cardinality(T)}
      BY <1>8 DEF Flexi!RowsIn
    <2>2. T = {cut[i] : i \in 1..Cardinality(T)}
      BY <1>7 DEF Flexi!RowsIn
    <2> HIDE DEF rows
    <2>3. QED
      BY <2>1, <2>2
  <1>12. total = Cardinality(T)
    BY FlexiSizesAre
  <1> HIDE DEF rows, total
  <1>13. /\ Flexi!EngagementList(d, q).total = total
         /\ Flexi!EngagementList(d, q).rows = rows
    BY <1>1
  <1>14. QED
    BY <1>4, <1>5, <1>10, <1>11, <1>12, <1>13 DEF T

LEMMA MembersAddUp ==
    ASSUME NEW d, IsDashboard(d)
    PROVE  LET members == [b \in {"total", "assigned", "completed"} |->
                   Flexi!Cardinality(Flexi!MembersIn(Flexi!Scored(d, None), b))]
           IN  /\ Flexi!MemberSummary(d) = members
               /\ members["total"] = members["assigned"] + members["completed"]
  <1> DEFINE scored == Flexi!Scored(d, None)
             in(b) == Flexi!MembersIn(scored, b)
             members == [b \in {"total", "assigned", "completed"} |-> Flexi!Cardinality(in(b))]
             rows == Flexi!Qualifying(d)
             M == {a.member : a \in rows}
             C == {m \in M : \E a \in rows : a.member = m /\ a.status \in Flexi!Assigned}
             D == {m \in M : \E a \in rows : a.member = m /\ a.status \in Flexi!Completed}
             current(m) == Flexi!HasCurrent(scored, m)
             done(m) == Flexi!HasCompletion(scored, m)
  <1>1. rows = Searched(d, None) /\ rows \subseteq d.assignments
        /\ \A a \in rows : a.status \in Flexi!Assigned \/ a.status \in Flexi!Completed
    BY SearchedAre DEF Searched
  <1>2. M = {s.member : s \in scored}
    <2>1. scored = {Score(d, a) : a \in rows}
      BY <1>1, ScoredAre
    <2>2. \A a : Score(d, a).member = a.member
      BY DEF Score
    <2> HIDE DEF scored, rows
    <2>3. QED
      BY <2>1, <2>2
  <1>3. \A m : /\ current(m) <=> \E a \in rows : a.member = m /\ a.status \in Flexi!Assigned
               /\ done(m) <=> \E a \in rows : a.member = m /\ a.status \in Flexi!Completed
    <2>1. scored = {Score(d, a) : a \in rows}
      BY <1>1, ScoredAre
    <2>2. \A a : /\ Score(d, a).member = a.member
                 /\ Score(d, a).isCurrent <=> a.status \in Flexi!Assigned
                 /\ Score(d, a).isCompletion <=> a.status \in Flexi!Completed
      BY DEF Score
    <2> HIDE DEF scored, rows
    <2>3. QED
      BY <2>1, <2>2 DEF Flexi!HasCurrent, Flexi!HasCompletion
  <1>4. /\ in("assigned") = {m \in {s.member : s \in scored} : current(m)}
        /\ in("completed") = {m \in {s.member : s \in scored} : done(m) /\ ~current(m)}
        /\ in("total") = {m \in {s.member : s \in scored} : current(m) \/ done(m)}
    <2> HIDE DEF scored
    <2>1. QED
      BY DEF Flexi!MembersIn
  <1>5. in("assigned") = C /\ in("completed") = D \ C /\ in("total") = M
    <2>1. M = C \union D
      BY <1>1
    <2>2. C = {m \in M : current(m)} /\ D = {m \in M : done(m)}
      BY <1>3
    <2> HIDE DEF M, C, D, in, scored, rows, current, done
    <2>3. QED
      BY <1>2, <1>4, <2>1, <2>2
  <1>6. IsFiniteSet(M) /\ M = C \union (D \ C) /\ C \intersect (D \ C) = {}
    <2>1. IsFiniteSet(rows)
      BY <1>1, FS_Subset DEF IsDashboard
    <2> DEFINE f == [a \in rows |-> a.member]
    <2>2. f \in Surjection(rows, M)
      <3> HIDE DEF rows
      <3>1. QED
        BY DEF Surjection
    <2>3. IsFiniteSet(M)
      <3> HIDE DEF f, rows, M
      <3>1. QED
        BY <2>1, <2>2, FS_Surjection
    <2>4. M = C \union D
      BY <1>1
    <2> HIDE DEF M, C, D
    <2>5. QED
      BY <2>3, <2>4
  <1> HIDE DEF C, D, M, in
  <1>7. Cardinality(M) = Cardinality(C) + Cardinality(D \ C)
    <2> DEFINE E == D \ C
    <2>1. IsFiniteSet(C) /\ IsFiniteSet(E)
      BY <1>6, FS_Subset
    <2>2. M = C \union E /\ C \intersect E = {}
      BY <1>6
    <2> HIDE DEF E
    <2>3. Cardinality(C \union E) = Cardinality(C) + Cardinality(E) - Cardinality(C \intersect E)
      BY <2>1, FS_Union
    <2>4. Cardinality(C \intersect E) = 0
      BY <2>2, FS_EmptySet
    <2>5. Cardinality(C) \in Nat /\ Cardinality(E) \in Nat
      BY <2>1, FS_CardinalityType
    <2>6. Cardinality(M) = Cardinality(C) + Cardinality(E)
      BY <2>2, <2>3, <2>4, <2>5
    <2>7. QED
      BY <2>6 DEF E
  <1>8. Flexi!Cardinality(M) = Flexi!Cardinality(C) + Flexi!Cardinality(D \ C)
    BY <1>7, FlexiSizesAre
  <1>9. /\ members["total"] = Flexi!Cardinality(M)
        /\ members["assigned"] = Flexi!Cardinality(C)
        /\ members["completed"] = Flexi!Cardinality(D \ C)
    BY <1>5
  <1>10. Flexi!MemberSummary(d) =
             [total |-> Flexi!Cardinality(M), assigned |-> Flexi!Cardinality(C),
              completed |-> Flexi!Cardinality(D \ C)]
    BY DEF Flexi!MemberSummary, M, C, D
  <1>11. Flexi!MemberSummary(d) = members
    <2> DEFINE x == Flexi!Cardinality(M)
               y == Flexi!Cardinality(C)
               z == Flexi!Cardinality(D \ C)
               r == [total |-> x, assigned |-> y, completed |-> z]
    <2>1. \A b \in {"total", "assigned", "completed"} : r[b] = members[b]
      <3> HIDE DEF x, y, z, members
      <3>1. r["total"] = x /\ r["assigned"] = y /\ r["completed"] = z
        OBVIOUS
      <3>2. members["total"] = x /\ members["assigned"] = y /\ members["completed"] = z
        BY <1>9 DEF x, y, z
      <3> HIDE DEF r
      <3>3. QED
        BY <3>1, <3>2
    <2>2. r = [b \in {"total", "assigned", "completed"} |-> r[b]]
      <3> HIDE DEF x, y, z
      <3>1. QED
        OBVIOUS
    <2> HIDE DEF r
    <2>3. QED
      BY <1>10, <2>1, <2>2 DEF r
  <1>12. QED
    BY <1>8, <1>9, <1>11 DEF members, in

\* The whole list a summary is compared with.
Whole(d, bucket, search, by) ==
    [bucket |-> bucket, search |-> search, sortBy |-> by,
     sortOrder |-> "desc", page |-> 1, perPage |-> Flexi!Cardinality(d.engagements)]

LEMMA WholeIs ==
    ASSUME NEW d, IsDashboard(d), NEW bucket, NEW search, NEW by
    PROVE  LET T == Flexi!EngagementsIn(d, Flexi!Filters(bucket, search))
               list == Flexi!EngagementList(d, Whole(d, bucket, search, by))
           IN  /\ T \subseteq d.engagements /\ IsFiniteSet(T)
               /\ list.total = Cardinality(T) /\ Len(list.rows) = Cardinality(T)
               /\ Flexi!RowsIn(list.rows) = {Flexi!EngagementRow(d, e) : e \in T}
  <1> DEFINE q == Whole(d, bucket, search, by)
  <1>1. /\ IsEngagementQuery(q) /\ q.page = 1 /\ q.bucket = bucket /\ q.search = search
        /\ q.perPage = Flexi!Cardinality(d.engagements)
    BY DEF Whole, IsEngagementQuery, Directions
  <1>2. q.perPage = Cardinality(d.engagements)
    BY <1>1, FlexiSizesAre
  <1> HIDE DEF q
  <1>3. /\ Flexi!EngagementsIn(d, Flexi!Filters(q.bucket, q.search)) \subseteq d.engagements
        /\ IsFiniteSet(Flexi!EngagementsIn(d, Flexi!Filters(q.bucket, q.search)))
        /\ Flexi!EngagementList(d, q).total
               = Cardinality(Flexi!EngagementsIn(d, Flexi!Filters(q.bucket, q.search)))
        /\ Len(Flexi!EngagementList(d, q).rows)
               = Cardinality(Flexi!EngagementsIn(d, Flexi!Filters(q.bucket, q.search)))
        /\ Flexi!RowsIn(Flexi!EngagementList(d, q).rows)
               = {Flexi!EngagementRow(d, e) :
                      e \in Flexi!EngagementsIn(d, Flexi!Filters(q.bucket, q.search))}
    BY <1>1, <1>2, WholeEngagementList
  <1>4. QED
    BY <1>1, <1>3 DEF q

LEMMA EngagementsAddUp ==
    ASSUME NEW d, IsDashboard(d)
    PROVE  /\ \A bucket \in {"total", "active", "closed"} :
                  Flexi!EngagementSummary(d)[bucket]
                      = Cardinality(Flexi!EngagementsIn(d, Flexi!Filters(bucket, Flexi!NoSearch)))
           /\ Flexi!EngagementSummary(d)["total"] =
                  Flexi!EngagementSummary(d)["active"] + Flexi!EngagementSummary(d)["closed"]
  <1> DEFINE in(b) == Flexi!EngagementsIn(d, Flexi!Filters(b, Flexi!NoSearch))
             A == in("active")
             C == in("closed")
             T == in("total")
  <1>1. \A bucket \in {"total", "active", "closed"} :
            Flexi!EngagementSummary(d)[bucket] = Cardinality(in(bucket))
    <2>1. \A bucket \in {"total", "active", "closed"} :
              Flexi!EngagementSummary(d)[bucket] = Flexi!Cardinality(in(bucket))
      BY DEF Flexi!EngagementSummary
    <2> HIDE DEF in
    <2>2. QED
      BY <2>1, FlexiSizesAre
  <1>2. \A b : in(b) = {e \in d.engagements : e.project \notin Ignored
                                              /\ e.status \in Flexi!StatusesOf(b)}
    BY DEF Flexi!EngagementsIn, Flexi!Filters, Flexi!NoSearch, Flexi!Shown
  <1>3. /\ Flexi!StatusesOf("active") = {"ACTIVE"} /\ Flexi!StatusesOf("closed") = {"CLOSED"}
        /\ Flexi!StatusesOf("total") = {"ACTIVE", "CLOSED"}
    BY DEF Flexi!StatusesOf
  <1>4. T = A \union C /\ A \intersect C = {} /\ T \subseteq d.engagements
    <2> HIDE DEF in
    <2>1. QED
      BY <1>2, <1>3
  <1> HIDE DEF A, C, T
  <1>5. Cardinality(T) = Cardinality(A) + Cardinality(C)
    <2>1. IsFiniteSet(T)
      BY <1>4, FS_Subset DEF IsDashboard
    <2>2. IsFiniteSet(A) /\ IsFiniteSet(C)
      BY <1>4, <2>1, FS_Subset
    <2>3. Cardinality(A \union C) = Cardinality(A) + Cardinality(C) - Cardinality(A \intersect C)
      BY <2>2, FS_Union
    <2>4. Cardinality(A \intersect C) = 0
      BY <1>4, FS_EmptySet
    <2>5. Cardinality(A) \in Nat /\ Cardinality(C) \in Nat
      BY <2>2, FS_CardinalityType
    <2>6. QED
      BY <1>4, <2>3, <2>4, <2>5
  <1>6. QED
    BY <1>1, <1>5 DEF A, C, T

\* What a list says of the number of an engagement's assignments, its detail says.
LEMMA DetailsCount ==
    ASSUME NEW d, NEW filters, NEW e \in Flexi!EngagementsIn(d, filters)
    PROVE  \E detail \in Flexi!EngagementDetail(d, Flexi!EngagementRow(d, e).id) :
               detail.count = Flexi!EngagementRow(d, e).count
  <1> DEFINE row == Flexi!EngagementRow(d, e)
  <1>1. row.id = e.id /\ row.count = Flexi!CurrentCount(d, e)
    BY DEF Flexi!EngagementRow
  <1>2. e \in d.engagements /\ Flexi!Shown(e, "total")
    <2>1. e \in d.engagements /\ Flexi!Shown(e, filters.bucket)
      BY DEF Flexi!EngagementsIn
    <2>2. Flexi!StatusesOf(filters.bucket) \subseteq Flexi!StatusesOf("total")
      BY DEF Flexi!StatusesOf
    <2>3. QED
      BY <2>1, <2>2 DEF Flexi!Shown
  <1> DEFINE detail == [id |-> e.id, count |-> Flexi!CurrentCount(d, e), required |-> e.required,
                        duration |-> Flexi!DurationOf(None, e),
                        rows |-> {Flexi!AssignmentRow(a, e) :
                                      a \in {b \in d.assignments : b.engagement = e.id}}]
  <1>3. detail \in Flexi!EngagementDetail(d, e.id)
    BY <1>2 DEF Flexi!EngagementDetail
  <1>4. detail.count = Flexi!CurrentCount(d, e)
    OBVIOUS
  <1> HIDE DEF row, detail
  <1>5. QED
    BY <1>1, <1>3, <1>4 DEF row

\* For every dashboard: the buckets partition the members and the engagements, and the
\* summaries count what the lists show.
THEOREM EveryBucketAddsUp ==
    ASSUME NEW d, IsDashboard(d)
    PROVE  Flexi!BucketsAddUp(d)
  <1> DEFINE members == [b \in {"total", "assigned", "completed"} |->
                             Flexi!Cardinality(Flexi!MembersIn(Flexi!Scored(d, None), b))]
             list(bucket, search, by) == Flexi!EngagementList(d, Whole(d, bucket, search, by))
             summary == Flexi!EngagementSummary(d)
  <1>1. /\ Flexi!MemberSummary(d) = members
        /\ members["total"] = members["assigned"] + members["completed"]
    BY MembersAddUp
  <1>2. summary["total"] = summary["active"] + summary["closed"]
    BY EngagementsAddUp
  <1>3. ASSUME NEW bucket \in {"total", "active", "closed"}
        PROVE  list(bucket, Flexi!NoSearch, "name").total = summary[bucket]
    <2> DEFINE search == Flexi!NoSearch
               by == "name"
    <2>1. summary[bucket]
              = Cardinality(Flexi!EngagementsIn(d, Flexi!Filters(bucket, search)))
      BY EngagementsAddUp
    <2>2. list(bucket, search, by).total
              = Cardinality(Flexi!EngagementsIn(d, Flexi!Filters(bucket, search)))
      <3> HIDE DEF search, by
      <3>1. QED
        BY WholeIs
    <2>3. QED
      BY <2>1, <2>2
  <1>4. ASSUME NEW bucket, NEW search
        PROVE  /\ list(bucket, search, "memberCount").total
                      = Len(list(bucket, search, "memberCount").rows)
               /\ Flexi!RowsIn(list(bucket, search, "memberCount").rows)
                      = Flexi!RowsIn(list(bucket, search, "name").rows)
               /\ \A row \in Flexi!RowsIn(list(bucket, search, "name").rows) :
                      \E detail \in Flexi!EngagementDetail(d, row.id) :
                          detail.count = row.count
    <2> DEFINE filters == Flexi!Filters(bucket, search)
               T == Flexi!EngagementsIn(d, filters)
    <2>1. \A by : /\ list(bucket, search, by).total = Cardinality(T)
                  /\ Len(list(bucket, search, by).rows) = Cardinality(T)
                  /\ Flexi!RowsIn(list(bucket, search, by).rows)
                         = {Flexi!EngagementRow(d, e) : e \in T}
      BY WholeIs
    <2>2. \A e \in T : \E detail \in Flexi!EngagementDetail(d, Flexi!EngagementRow(d, e).id) :
                           detail.count = Flexi!EngagementRow(d, e).count
      BY DetailsCount
    <2> HIDE DEF T, list
    <2>3. QED
      BY <2>1, <2>2
  <1> HIDE DEF members, summary
  <1>5. QED
    BY <1>1, <1>2, <1>3, <1>4 DEF Flexi!BucketsAddUp, Whole, members, summary

-----------------------------------------------------------------------------
(* The states of MCAnswers *)

BoardQueries == [q : Queries, caller : Readers,
                 how : {"same", "removed", "published", "unassigned"}]

\* A request is one of its topic's, and so is the database it is about; nothing is asked
\* before a topic is chosen.
Posed ==
    /\ topic = None => query = None
    /\ topic = "dashboard" => db \in Dashboards
    /\ Asked("dashboard") => query \in MemberQueries
    /\ Asked("access") => query \in Callers
    /\ topic = "offer" => db \in Rows
    /\ Asked("offer") => query \in Payloads
    /\ topic = "board" => db \in Boards
    /\ Asked("board") => query \in BoardQueries
    /\ topic = "members" => db \in Assigned
    /\ Asked("members") => query \in [members : UpTo(3, Members), required : {None, 1, 2}]
    /\ topic = "directory" => db = Directory
    /\ Asked("directory") => query \in [details : NamedRows, required : {None, 1}]
    /\ topic = "hours" => db \in Timecards
    /\ Asked("hours") => query \in HourQueries

\* Every request the model makes is posed to a database of its topic: the invariant
\* that carries what is said of all callers and requests to the states of the model.
THEOREM PosedHolds == Spec => []Posed
  <1>1. Init => Posed
    BY NoneIsNoAnswer DEF Init, Posed, Asked
  <1>2. Posed /\ [Next]_vars => Posed'
    <2> SUFFICES ASSUME Posed, [Next]_vars
                 PROVE  Posed'
      OBVIOUS
    <2> DEFINE Kind(t) == t \in {"dashboard", "board", "access", "offer", "members",
                                 "directory", "hours"}
    <2>1. ASSUME NEW t, Kind(t), NEW contents, Fill(t, contents),
                 t = "dashboard" => contents = Dashboards,
                 t = "offer" => contents = Rows, t = "board" => contents = Boards,
                 t = "members" => contents = Assigned,
                 t = "directory" => contents = {Directory},
                 t = "hours" => contents = Timecards
          PROVE  Posed'
      <3>1. topic' = t /\ db' \in contents /\ query' = None
        BY <2>1 DEF Fill, Posed
      <3>2. QED
        BY <2>1, <3>1 DEF Posed, Asked
    <2>2. ASSUME NEW t, Kind(t), NEW requests, Ask(t, requests),
                 t = "dashboard" => requests = MemberQueries,
                 t = "access" => requests = Callers, t = "offer" => requests = Payloads,
                 t = "board" => requests = BoardQueries,
                 t = "members" => requests = [members : UpTo(3, Members),
                                              required : {None, 1, 2}],
                 t = "directory" => requests = [details : NamedRows, required : {None, 1}],
                 t = "hours" => requests = HourQueries
          PROVE  Posed'
      <3>1. topic' = t /\ topic = t /\ t # None /\ db' = db /\ query' \in requests
        BY <2>2, NoneIsNoAnswer DEF Ask
      <3>2. QED
        BY <2>2, <3>1 DEF Posed, Asked
    <2>3. CASE FillDashboard
      BY <2>1, <2>3 DEF FillDashboard
    <2>4. CASE FillBoard
      BY <2>1, <2>4 DEF FillBoard
    <2>5. CASE FillAccess
      BY <2>1, <2>5 DEF FillAccess
    <2>6. CASE FillOffer
      BY <2>1, <2>6 DEF FillOffer
    <2>7. CASE FillMembers
      BY <2>1, <2>7 DEF FillMembers
    <2>8. CASE FillDirectory
      BY <2>1, <2>8 DEF FillDirectory
    <2>9. CASE FillHours
      BY <2>1, <2>9 DEF FillHours
    <2>10. CASE AskDashboard
      BY <2>2, <2>10 DEF AskDashboard
    <2>11. CASE AskBoard
      BY <2>2, <2>11 DEF AskBoard, BoardQueries
    <2>12. CASE AskAccess
      BY <2>2, <2>12 DEF AskAccess
    <2>13. CASE AskOffer
      BY <2>2, <2>13 DEF AskOffer
    <2>14. CASE AskMembers
      BY <2>2, <2>14 DEF AskMembers
    <2>15. CASE AskDirectory
      BY <2>2, <2>15 DEF AskDirectory
    <2>16. CASE AskHours
      BY <2>2, <2>16 DEF AskHours
    <2>17. CASE UNCHANGED vars
      BY <2>17 DEF vars, Posed, Asked
    <2>18. QED
      BY <2>3, <2>4, <2>5, <2>6, <2>7, <2>8, <2>9, <2>10, <2>11, <2>12, <2>13, <2>14,
         <2>15, <2>16, <2>17 DEF Next
  <1>3. QED
    BY <1>1, <1>2, PTL DEF Spec

\* The callers of the model are callers: a machine has neither roles nor a user.
LEMMA CallersAre ==
    Callers \subseteq CallerOf(Rules!PrivilegedUserRoles, Rules!Scopes, {None, "m1", "m2"})
  <1>1. \A s \in ScopeSets : s \in SUBSET Rules!Scopes
    BY DEF ScopeSets
  <1>2. QED
    BY <1>1 DEF Callers, CallerOf

\* Nobody approves, reopens or pays their own hours.
THEOREM DutiesAreKept == Spec => []DutiesAreSeparate
  <1>1. Posed => DutiesAreSeparate
    BY EveryCallersDuties, CallersAre DEF Posed, DutiesAreSeparate
  <1>2. QED
    BY <1>1, PosedHolds, PTL

\* A person without a role is served what is public or their own.
THEOREM SelfServiceIsKept == Spec => []SelfServiceStaysOwn
  <1>1. Posed => SelfServiceStaysOwn
    BY EveryPersonsOwn DEF SelfServiceStaysOwn
  <1>2. QED
    BY <1>1, PosedHolds, PTL

LEMMA OfferValuesAre ==
    /\ Values(OfferValues)
    /\ Rows \subseteq TermsOf(OfferValues)
    /\ Payloads \subseteq TermsOf(OfferValues)
  <1>1. Values(OfferValues)
    BY RefusalIsNoOffer DEF Values, OfferValues, Offers!DefaultPaymentCycle
  <1>2. ASSUME NEW rates, rates \subseteq Int \union {None},
               NEW hours, hours \subseteq Int \union {None, Null},
               NEW cycles, cycles \subseteq {None, Null, "WEEKLY", "MONTHLY"},
               NEW rest, rest \subseteq {None, Null, "t"},
               NEW p \in Terms(rates, hours, cycles, rest)
        PROVE  p \in TermsOf(OfferValues)
    <2>1. PICK r \in rates, h \in hours, a \in rates, c \in cycles, t \in rest :
              p = [f \in Offers!Fields |->
                      CASE f = "ratePerHour" -> r [] f = "standardHoursPerDay" -> h
                        [] f = "agreementRate" -> a [] f = "paymentCycle" -> c
                        [] f \in {"durationMonths", "totalHours", "source"} -> t
                        [] OTHER -> IF t = Null THEN None ELSE t]
      BY <1>2 DEF Terms
    <2>2. /\ {None, r, h, a, c, t} \subseteq OfferValues
          /\ {r, a} \subseteq Int \union {None} /\ h \in Int \union {None, Null}
      BY <1>2 DEF OfferValues
    <2>3. p \in [Offers!Fields -> OfferValues]
      BY <2>1, <2>2
    <2>4. /\ p["ratePerHour"] = r /\ p["standardHoursPerDay"] = h
          /\ p["agreementRate"] = a
      BY <2>1 DEF Offers!Fields, Offers!MemberFacing
    <2>5. QED
      BY <2>2, <2>3, <2>4 DEF TermsOf
  <1>3. QED
    BY <1>1, <1>2 DEF Rows, Payloads

\* Both paths make the same offer, and a change is mailed once.
THEOREM OffersAreKept == Spec => []OffersAgree
  <1>1. Posed => OffersAgree
    BY EveryOfferAgrees, EveryChangeIsMailed, OfferValuesAre DEF Posed, OffersAgree, Asked
  <1>2. QED
    BY <1>1, PosedHolds, PTL

FacetValues ==
    {None, "ON_HOLD", {"c"}, {"d"}, {"z"}, {"s"}, {"S"}, {"p"}, "S", "r", "test"}

LEMMA BoardsAre ==
    /\ Queries \subseteq QueryOf(FacetValues)
    /\ \A c \in Readers : c.kind \in Kinds
    /\ \A b \in Boards : KeysAreUnique(b)
  <1>1. Unfiltered \in QueryOf(FacetValues)
    BY DEF Unfiltered, QueryOf, FacetValues
  <1>2. Facets \subseteq QueryOf(FacetValues)
    <2> DEFINE Q == QueryOf(FacetValues)
    <2> SUFFICES ASSUME NEW f \in Facets PROVE f \in Q
      OBVIOUS
    <2>1. CASE f = Unfiltered
      BY <1>1, <2>1
    <2>2. CASE f = [Unfiltered EXCEPT !.countries = {"d"}, !.timeZones = {"z"}]
      BY <1>1, <2>2 DEF QueryOf, FacetValues
    <2>3. CASE f = [Unfiltered EXCEPT !.countries = {"c"}, !.skills = {"s"},
                                      !.excludeTestProjects = TRUE]
      BY <1>1, <2>3 DEF QueryOf, FacetValues
    <2>4. CASE f = [Unfiltered EXCEPT !.search = "S", !.role = "r",
                                      !.projectIds = {"p"}, !.projectId = "test"]
      BY <1>1, <2>4 DEF QueryOf, FacetValues
    <2>5. CASE f = [Unfiltered EXCEPT !.skills = {"S"}]
      BY <1>1, <2>5 DEF QueryOf, FacetValues
    <2>6. QED
      BY <2>1, <2>2, <2>3, <2>4, <2>5 DEF Facets
  <1>3. Queries \subseteq QueryOf(FacetValues)
    <2>1. ASSUME NEW f \in QueryOf(FacetValues), NEW s \in {None, "ON_HOLD"},
                 NEW i \in BOOLEAN, NEW a \in BOOLEAN
          PROVE  With(f, s, i, a) \in QueryOf(FacetValues)
      <3>1. s \in FacetValues
        BY DEF FacetValues
      <3>2. QED
        BY <3>1 DEF With, QueryOf
    <2>2. ASSUME NEW q \in Queries
          PROVE  q \in QueryOf(FacetValues)
      <3>1. PICK f \in Facets, s \in {None, "ON_HOLD"}, i \in BOOLEAN, a \in BOOLEAN :
                q = With(f, s, i, a)
        BY <2>2 DEF Queries
      <3>2. f \in QueryOf(FacetValues)
        BY <1>2
      <3>3. QED
        BY <2>1, <3>1, <3>2
    <2>3. QED
      BY <2>2
  <1>4. \A c \in Readers : c.kind \in Kinds
    BY DEF Readers, Person, Kinds
  <1>5. \A b \in Boards : KeysAreUnique(b)
    <2> SUFFICES ASSUME NEW b \in Boards PROVE KeysAreUnique(b)
      OBVIOUS
    <2>1. PICK e \in Engagements : b.engagements = {e, PrivateEngagement}
      BY DEF Boards
    <2>2. e.id = 1 /\ PrivateEngagement.id = 2
      BY DEF Engagements, PrivateEngagement
    <2>3. QED
      BY <2>1, <2>2 DEF KeysAreUnique
  <1>6. QED
    BY <1>3, <1>4, <1>5

\* Nothing of a private engagement or of other members reaches a caller without a
\* privilege, whatever changes between two readings.
THEOREM NothingIsLeaked == Spec => []NothingLeaks
  <1>1. Posed => NothingLeaks
    <2> SUFFICES ASSUME Posed, Asked("board")
                 PROVE  Reads!NothingLeaks(db, Later(query.how), query.caller, query.q)
      BY DEF NothingLeaks
    <2>1. db \in Boards /\ query.q \in Queries /\ query.caller \in Readers
      BY DEF Posed, Asked, BoardQueries
    <2>2. /\ KeysAreUnique(db) /\ query.caller.kind \in Kinds
          /\ query.q \in QueryOf(FacetValues)
      BY <2>1, BoardsAre
    <2>3. query.q.appliedByMe \in BOOLEAN /\ query.q.includePrivate \in BOOLEAN
      BY <2>2 DEF QueryOf
    <2>4. QED
      BY <2>2, <2>3, EveryAnswerIsTight
  <1>2. QED
    BY <1>1, PosedHolds, PTL

\* The lists of engagements tell one story.
THEOREM ListsAreOne == Spec => []ListsAgree
  <1>1. Posed => ListsAgree
    <2> SUFFICES ASSUME Posed, Asked("board")
                 PROVE  Reads!ListsAgree(db, query.caller, query.q)
      BY DEF ListsAgree
    <2>1. query.q \in QueryOf(FacetValues)
      BY BoardsAre DEF Posed, BoardQueries
    <2>2. QED
      BY <2>1, EveryListAgrees
  <1>2. QED
    BY <1>1, PosedHolds, PTL

\* What the model edits are tables of assignments, and its payloads name members in order.
LEMMA EditsAre ==
    /\ Assigned \subseteq Tables(Members, {"SELECTED", "ASSIGNED", "COMPLETED"})
    /\ UpTo(3, Members) \subseteq Seq(Members)
    /\ NamedRows \subseteq Seq([memberId : {None, "m1", "m2", "m3"},
                                memberHandle : {None, "h1", "h2", "h3"}])
    /\ IsDirectory(Directory)
  <1>1. ASSUME NEW S, NEW n \in Nat
        PROVE  UpTo(n, S) \subseteq Seq(S)
    BY DEF UpTo
  <1>2. ASSUME NEW e \in Assigned
        PROVE  e \in Tables(Members, {"SELECTED", "ASSIGNED", "COMPLETED"})
    <2> DEFINE R == [id : Nat, memberId : Members, status : {"SELECTED", "ASSIGNED", "COMPLETED"}]
    <2> DEFINE Status == {"SELECTED", "ASSIGNED", "COMPLETED"}
               table(k, who, what) ==
                   [i \in 1..k |-> [id |-> i, memberId |-> who[i], status |-> what[i]]]
    <2>1. PICK k \in 0..3 : \E who \in [1..k -> Members], what \in [1..k -> Status] :
              e = table(k, who, what)
      BY <1>2 DEF Assigned
    <2>2. PICK who \in [1..k -> Members], what \in [1..k -> Status] : e = table(k, who, what)
      BY <2>1
    <2>3. e \in [1..k -> R] /\ \A i \in DOMAIN e : e[i].id = i
      BY <2>2
    <2>4. k \in Nat
      OBVIOUS
    <2> HIDE DEF R
    <2>5. e \in Seq(R)
      BY <2>3, <2>4
    <2>6. QED
      BY <2>3, <2>5 DEF Tables, R
  <1>3. IsDirectory(Directory)
    BY NoneIsNoAnswer DEF IsDirectory, Directory, Members
  <1>4. QED
    BY <1>1, <1>2, <1>3 DEF NamedRows

\* Whoever an edit or a new engagement names has one assignment that is active, and the
\* engagement has no other.
THEOREM MembersStayKept == Spec => []MembersAreKept
  <1>1. Posed => MembersAreKept
    <2> SUFFICES ASSUME Posed
                 PROVE  MembersAreKept
      OBVIOUS
    <2>1. ASSUME Asked("members")
          PROVE  Plans!PlanIsKept(db, query.members, query.required)
      <3>1. /\ db \in Tables(Members, {"SELECTED", "ASSIGNED", "COMPLETED"})
            /\ query.members \in Seq(Members) /\ query.required \in Nat \union {None}
        BY <2>1, EditsAre DEF Posed, Asked
      <3>2. QED
        BY <3>1, EveryPlanIsKept
    <2>2. ASSUME Asked("directory")
          PROVE  Plans!CreationIsKept(db, query.details, query.required)
      <3>1. db = Directory /\ query.details \in NamedRows /\ query.required \in {None, 1}
        BY <2>2 DEF Posed, Asked
      <3>2. IsDirectory(db) /\ query.required \in Nat \union {None}
        BY <3>1, EditsAre
      <3>3. query.details \in Seq([memberId : {None, "m1", "m2", "m3"},
                                   memberHandle : {None, "h1", "h2", "h3"}])
        BY <3>1, EditsAre
      <3>4. QED
        BY <3>2, <3>3, EveryCreationIsKept
    <2>3. QED
      BY <2>1, <2>2 DEF MembersAreKept
  <1>2. QED
    BY <1>1, PosedHolds, PTL

\* The timecards of the model are timecards, and its queries name every field.
LEMMA TimecardsAre ==
    ASSUME NEW d \in Timecards
    PROVE  IsTimecards(d) /\ \A e \in d.entries : e.id \in 1..4
  <1> DEFINE S == {s \in [1..4 -> EntryStates] : s[4] \in {None, <<"APPROVED", 1, 1, None>>}}
             T == {<<"ASSIGNED", {}>>, <<"COMPLETED", {"list"}>>}
             D == {<<None, None>>, <<2, 3>>}
             O == {<<1, "ignored">>, <<2, "test">>}
             card(s, t, dates, other) ==
                 [entries |-> Logged(1, 1, 1, 1, s[1]) \union Logged(2, 1, 2, 2, s[2])
                              \union Logged(3, 1, 4, 4, s[3]) \union Logged(4, 2, 1, 8, s[4]),
                  assignments |-> {Holder(1, 1, "p", t[1], dates, 8, None),
                                   Holder(2, other[1], other[2], "ASSIGNED", <<None, None>>,
                                          None, 42)},
                  payments |-> Payments, unread |-> t[2]]
  <1>1. PICK s \in S, t \in T, dates \in D, other \in O : d = card(s, t, dates, other)
    <2>1. Timecards = {card(s, t, dates, other) : s \in S, t \in T, dates \in D, other \in O}
      BY DEF Timecards
    <2> HIDE DEF card, S, T, D, O
    <2>2. QED
      BY <2>1
  <1> DEFINE A == Logged(1, 1, 1, 1, s[1])
             B == Logged(2, 1, 2, 2, s[2])
             C == Logged(3, 1, 4, 4, s[3])
             E == Logged(4, 2, 1, 8, s[4])
             one == Holder(1, 1, "p", t[1], dates, 8, None)
             two == Holder(2, other[1], other[2], "ASSIGNED", <<None, None>>, None, 42)
  <1>2. /\ d.entries = A \union B \union C \union E
        /\ d.assignments = {one, two}
    BY <1>1
  <1>3. ASSUME NEW k, NEW a, NEW day, NEW hours, NEW state
        PROVE  /\ IsFiniteSet(Logged(k, a, day, hours, state))
               /\ \A e \in Logged(k, a, day, hours, state) :
                      e.id = k /\ e.assignment = a /\ e.workDate = day /\ e.hours = hours
               /\ \A e, g \in Logged(k, a, day, hours, state) : e = g
    <2>1. CASE state = None
      BY <2>1, FS_EmptySet DEF Logged
    <2>2. CASE state # None
      <3> DEFINE e == Entry(k, a, day, hours, state)
      <3>1. Logged(k, a, day, hours, state) = {e}
        BY <2>2 DEF Logged
      <3>2. e.id = k /\ e.assignment = a /\ e.workDate = day /\ e.hours = hours
        BY DEF Entry
      <3> HIDE DEF e
      <3>3. QED
        BY <3>1, <3>2, FS_Singleton
    <2>3. QED
      BY <2>1, <2>2
  <1>4. /\ IsFiniteSet(A) /\ \A e \in A : e.id = 1 /\ e.assignment = 1 /\ e.workDate = 1 /\ e.hours = 1
        /\ \A e, g \in A : e = g
    BY <1>3
  <1>5. /\ IsFiniteSet(B) /\ \A e \in B : e.id = 2 /\ e.assignment = 1 /\ e.workDate = 2 /\ e.hours = 2
        /\ \A e, g \in B : e = g
    BY <1>3
  <1>6. /\ IsFiniteSet(C) /\ \A e \in C : e.id = 3 /\ e.assignment = 1 /\ e.workDate = 4 /\ e.hours = 4
        /\ \A e, g \in C : e = g
    BY <1>3
  <1>7. /\ IsFiniteSet(E) /\ \A e \in E : e.id = 4 /\ e.assignment = 2 /\ e.workDate = 1 /\ e.hours = 8
        /\ \A e, g \in E : e = g
    BY <1>3
  <1>8. /\ one.id = 1 /\ one.title = 1 /\ one.handle = 1
        /\ two.id = 2 /\ two.title = 1 /\ two.handle \in {1, 2}
        /\ {one.startDate, one.endDate, two.startDate, two.endDate} \subseteq Int \union {None}
        /\ {one.perDay, one.perWeek, two.perDay, two.perWeek} \subseteq Nat \union {None}
    BY DEF Holder
  <1> HIDE DEF A, B, C, E, one, two
  <1>10. IsFiniteSet(A \union B \union C \union E)
    <2>1. IsFiniteSet(A \union B)
      BY <1>4, <1>5, FS_Union
    <2>2. IsFiniteSet(A \union B \union C)
      BY <1>6, <2>1, FS_Union
    <2>3. QED
      BY <1>7, <2>2, FS_Union
  <1>11. /\ \A e \in d.entries : e.hours \in Nat /\ e.workDate \in Int
         /\ \A e \in d.entries : \E a \in d.assignments : a.id = e.assignment
    BY <1>2, <1>4, <1>5, <1>6, <1>7, <1>8
  <1>12. \A e, g \in d.entries :
             /\ e.assignment = g.assignment /\ e.workDate = g.workDate => e = g
             /\ e.id = g.id => e = g
    BY <1>2, <1>4, <1>5, <1>6, <1>7
  <1>13. /\ \A a \in d.assignments : IsHolder(a)
         /\ \A a, b \in d.assignments : a.id = b.id => a = b
    BY <1>2, <1>8 DEF IsHolder
  <1>14. \A e \in d.entries : e.id \in 1..4
    BY <1>2, <1>4, <1>5, <1>6, <1>7
  <1>15. QED
    BY <1>2, <1>10, <1>11, <1>12, <1>13, <1>14 DEF IsTimecards

LEMMA HourQueriesAre ==
    Asked("hours") /\ query \in HourQueries =>
        /\ IsHourQuery(HourQuery) /\ (Reviewer.admin \/ Reviewer.tm)
        /\ {query.from, query.to} = {1, 4} => query.cut \in 1..3
  <1> SUFFICES ASSUME query \in HourQueries
               PROVE  /\ IsHourQuery(HourQuery) /\ (Reviewer.admin \/ Reviewer.tm)
                      /\ {query.from, query.to} = {1, 4} => query.cut \in 1..3
    OBVIOUS
  <1>1. query.perPage = 1 /\ query.cut \in {1, 3} /\ query.admin \in BOOLEAN
    BY DEF HourQueries
  <1>2. IsHourQuery(HourQuery)
    BY <1>1 DEF IsHourQuery, HourQuery
  <1>3. Reviewer.admin \/ Reviewer.tm
    BY <1>1 DEF Reviewer
  <1>4. QED
    BY <1>1, <1>2, <1>3

LEMMA OrdersAre ==
    ASSUME db \in Timecards, NEW p \in Nat \ {0}
    PROVE  IsOrder(TieOrders[p], db)
  <1> DEFINE turned == query.turned /\ p > 1
  <1>1. TieOrders[p] = [i \in 1..4 |-> IF turned THEN -i ELSE i]
    BY DEF TieOrders
  <1>2. \A e \in db.entries : e.id \in 1..4
    BY TimecardsAre
  <1> HIDE DEF turned
  <1>3. QED
    BY <1>1, <1>2 DEF IsOrder

LEMMA HoursAgree ==
    ASSUME db \in Timecards, query \in HourQueries, Asked("hours")
    PROVE  HoursAddUp
  <1>1. IsTimecards(db)
    BY TimecardsAre
  <1>2. /\ IsHourQuery(HourQuery) /\ (Reviewer.admin \/ Reviewer.tm)
        /\ {query.from, query.to} = {1, 4} => query.cut \in 1..3
    BY HourQueriesAre
  <1>3. Hours!BacklogAddsUp(db, Reviewer, HourQuery, TieOrders)
    BY <1>1, <1>2, OrdersAre, EveryBacklogAddsUp
  <1>4. {query.from, query.to} = {1, 4} => Hours!PeriodsAddUp(db, 1, 4, query.cut)
    <2> SUFFICES ASSUME {query.from, query.to} = {1, 4}
                 PROVE  Hours!PeriodsAddUp(db, 1, 4, query.cut)
      OBVIOUS
    <2>1. query.cut \in 1..4 - 1
      BY <1>2
    <2>2. QED
      BY <1>1, <2>1, EveryPeriodAddsUp
  <1>5. Hours!StatusesAgree(db, Reviewer, HourQuery)
    BY <1>1, <1>2, EveryStatusAgrees
  <1>6. QED
    BY <1>3, <1>4, <1>5 DEF HoursAddUp

\* The rows of the approved list share out what the summaries call payable, periods add up
\* and lists narrowed to a status agree.
THEOREM HoursStayTrue == Spec => []HoursAddUp
  <1>1. Posed => HoursAddUp
    BY HoursAgree DEF Posed, HoursAddUp, Asked
  <1>2. QED
    BY <1>1, PosedHolds, PTL

LEMMA TimingsAre ==
    ASSUME NEW id \in Int, NEW member \in Int, NEW handle \in Int, NEW e, NEW status,
           NEW timing \in Timings, NEW updatedAt \in Int
    PROVE  LET a == Assignment(id, member, handle, e, status, timing, updatedAt) IN
           IsAssignment(a) /\ a.id = id /\ a.engagement = e
  <1> DEFINE a == Assignment(id, member, handle, e, status, timing, updatedAt)
             one == Date(0, 31, 1)
             two == Date(1, 10, 0)
             three == Date(2, 20, 0)
  <1>1. /\ a.id = id /\ a.member = member /\ a.handle = handle /\ a.engagement = e
        /\ a.updatedAt = updatedAt /\ a.startDate = timing[1] /\ a.months = timing[2]
        /\ a.endDate = timing[3]
    BY DEF Assignment
  <1>2. one \in Dates /\ two \in Dates /\ three \in Dates /\ one.m = 0 /\ two.m = 1
    BY DEF Date, Dates
  <1>3. None \notin Int /\ None \in Keyed /\ 1 \in Keyed /\ 2 \in Keyed
    BY NoneIsNoAnswer DEF Keyed
  <1> HIDE DEF a, one, two, three
  <1>4. timing \in {<<None, None, None>>, <<one, 1, None>>, <<one, None, None>>,
                    <<two, 2, three>>}
    BY DEF Timings, one, two, three
  <1>5. /\ {timing[1], timing[3]} \subseteq Dates \union {None} /\ timing[2] \in Keyed
        /\ timing[1] # None /\ timing[2] # None => timing[1].m + timing[2] \in 0..35
    <2>1. CASE timing = <<None, None, None>>
      BY <1>3, <2>1
    <2>2. CASE timing = <<one, 1, None>>
      BY <1>2, <1>3, <2>2
    <2>3. CASE timing = <<one, None, None>>
      BY <1>2, <1>3, <2>3
    <2>4. CASE timing = <<two, 2, three>>
      BY <1>2, <1>3, <2>4
    <2>5. QED
      BY <1>4, <2>1, <2>2, <2>3, <2>4
  <1>6. IsAssignment(a)
    BY <1>1, <1>5 DEF IsAssignment
  <1>7. QED
    BY <1>1, <1>6 DEF a

LEMMA DashboardEngagementsAre ==
    /\ IsFiniteSet(DashboardEngagements)
    /\ \A e \in DashboardEngagements : e.id \in Int /\ e.title \in Int
    /\ \A e, f \in DashboardEngagements : e.id = f.id => e = f
    /\ \A i \in 1..4 : \E e \in DashboardEngagements : e.id = i
  <1> DEFINE x == Dashboard(1, 1, "ACTIVE", "p", 1, 3, None)
             y == Dashboard(2, 1, "CLOSED", "q", 2, None, 4)
             z == Dashboard(3, 2, "OPEN", "p", None, None, None)
             w == Dashboard(4, 3, "ACTIVE", "hidden", None, None, None)
  <1>1. DashboardEngagements = {x} \union {y} \union {z} \union {w}
    BY DEF DashboardEngagements
  <1>2. /\ x.id = 1 /\ y.id = 2 /\ z.id = 3 /\ w.id = 4
        /\ {x.title, y.title, z.title, w.title} \subseteq Int
    BY DEF Dashboard
  <1> HIDE DEF x, y, z, w
  <1>3. IsFiniteSet({x} \union {y} \union {z} \union {w})
    <2>1. IsFiniteSet({x}) /\ IsFiniteSet({y}) /\ IsFiniteSet({z}) /\ IsFiniteSet({w})
      BY FS_Singleton
    <2>2. IsFiniteSet({x} \union {y})
      BY <2>1, FS_Union
    <2>3. IsFiniteSet({x} \union {y} \union {z})
      BY <2>1, <2>2, FS_Union
    <2>4. QED
      BY <2>1, <2>3, FS_Union
  <1>4. QED
    BY <1>1, <1>2, <1>3

\* The dashboards of the model are dashboards, and its requests are requests.
LEMMA DashboardsAre ==
    /\ \A d \in Dashboards : IsDashboard(d)
    /\ \A q \in MemberQueries : IsListQuery(q)
  <1>1. ASSUME NEW A, IsFiniteSet(A), \A a \in A : IsAssignment(a) /\ a.engagement \in 1..4,
               \A a, b \in A : a.id = b.id => a = b
        PROVE  IsDashboard([engagements |-> DashboardEngagements, assignments |-> A])
    BY <1>1, DashboardEngagementsAre DEF IsDashboard
  <1>2. ASSUME NEW e1 \in {1, 2}, NEW e2 \in {2, 4}, NEW s1, NEW s2, NEW s3,
               NEW t1 \in Timings, NEW t2 \in Timings, NEW t3 \in Timings
        PROVE  IsDashboard([engagements |-> DashboardEngagements,
                            assignments |-> {Assignment(1, 1, 2, e1, s1, t1, 120),
                                             Assignment(2, 1, 1, e2, s2, t2, 131),
                                             Assignment(3, 2, 2, 1, s3, t3, 131)}])
    <2> DEFINE x == Assignment(1, 1, 2, e1, s1, t1, 120)
               y == Assignment(2, 1, 1, e2, s2, t2, 131)
               z == Assignment(3, 2, 2, 1, s3, t3, 131)
    <2>1. /\ IsAssignment(x) /\ x.id = 1 /\ x.engagement \in 1..4
          /\ IsAssignment(y) /\ y.id = 2 /\ y.engagement \in 1..4
          /\ IsAssignment(z) /\ z.id = 3 /\ z.engagement \in 1..4
      BY TimingsAre
    <2> HIDE DEF x, y, z
    <2>2. IsFiniteSet({x, y, z})
      <3>1. IsFiniteSet({x}) /\ IsFiniteSet({y}) /\ IsFiniteSet({z})
        BY FS_Singleton
      <3>2. IsFiniteSet({x} \union {y})
        BY <3>1, FS_Union
      <3>3. IsFiniteSet({x} \union {y} \union {z})
        BY <3>1, <3>2, FS_Union
      <3>4. {x, y, z} = {x} \union {y} \union {z}
        OBVIOUS
      <3>5. QED
        BY <3>3, <3>4
    <2>3. IsDashboard([engagements |-> DashboardEngagements, assignments |-> {x, y, z}])
      <3> DEFINE A == {x, y, z}
      <3>1. /\ \A a \in A : IsAssignment(a) /\ a.engagement \in 1..4
            /\ \A a, b \in A : a.id = b.id => a = b
        BY <2>1
      <3> HIDE DEF A
      <3>2. IsFiniteSet(A) => IsDashboard([engagements |-> DashboardEngagements,
                                           assignments |-> A])
        BY <1>1, <3>1
      <3>3. QED
        BY <2>2, <3>2 DEF A
    <2>4. QED
      BY <2>3 DEF x, y, z
  <1>3. ASSUME NEW s, NEW t \in Timings
        PROVE  IsDashboard([engagements |-> DashboardEngagements,
                            assignments |-> {Assignment(1, 1, 1, 3, "ASSIGNED", t, 120),
                                             Assignment(2, 2, 1, 2, s, t, 120)}])
    <2> DEFINE x == Assignment(1, 1, 1, 3, "ASSIGNED", t, 120)
               y == Assignment(2, 2, 1, 2, s, t, 120)
    <2>1. /\ IsAssignment(x) /\ x.id = 1 /\ x.engagement \in 1..4
          /\ IsAssignment(y) /\ y.id = 2 /\ y.engagement \in 1..4
      BY TimingsAre
    <2> HIDE DEF x, y
    <2>2. IsFiniteSet({x, y})
      <3>1. IsFiniteSet({x}) /\ IsFiniteSet({y})
        BY FS_Singleton
      <3>2. IsFiniteSet({x} \union {y})
        BY <3>1, FS_Union
      <3>3. {x, y} = {x} \union {y}
        OBVIOUS
      <3>4. QED
        BY <3>2, <3>3
    <2>3. IsDashboard([engagements |-> DashboardEngagements, assignments |-> {x, y}])
      <3> DEFINE A == {x, y}
      <3>1. /\ \A a \in A : IsAssignment(a) /\ a.engagement \in 1..4
            /\ \A a, b \in A : a.id = b.id => a = b
        BY <2>1
      <3> HIDE DEF A
      <3>2. IsFiniteSet(A) => IsDashboard([engagements |-> DashboardEngagements,
                                           assignments |-> A])
        BY <1>1, <3>1
      <3>3. QED
        BY <2>2, <3>2 DEF A
    <2>4. QED
      BY <2>3 DEF x, y
  <1>4. \A d \in Dashboards : IsDashboard(d)
    BY <1>2, <1>3 DEF Dashboards
  <1>5. \A q \in MemberQueries : IsListQuery(q)
    BY DEF MemberQueries, IsListQuery, Directions
  <1>6. QED
    BY <1>4, <1>5

\* SQL answers every request for the member list as the service's comparisons would.
THEOREM ListsStayReference == Spec => []FlexiListIsReference
  <1>1. Posed => FlexiListIsReference
    <2> SUFFICES ASSUME Posed, Asked("dashboard")
                 PROVE  Flexi!ListMatchesReference(db, query)
      BY DEF FlexiListIsReference
    <2>1. db \in Dashboards /\ query \in MemberQueries
      BY DEF Posed, Asked
    <2>2. QED
      BY <2>1, DashboardsAre, EveryListIsReference
  <1>2. QED
    BY <1>1, PosedHolds, PTL

\* The views of every dashboard tell one story.
THEOREM ViewsStayOne == Spec => []FlexiViewsAgree
  <1>1. Posed => FlexiViewsAgree
    <2> SUFFICES ASSUME Posed, topic = "dashboard"
                 PROVE  Flexi!MemberViewsAgree(db) /\ Flexi!BucketsAddUp(db)
      BY DEF FlexiViewsAgree
    <2>1. IsDashboard(db)
      BY DashboardsAre DEF Posed
    <2>2. QED
      BY <2>1, EveryMemberIsOne, EveryBucketAddsUp
  <1>2. QED
    BY <1>1, PosedHolds, PTL
=============================================================================
