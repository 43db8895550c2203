----------------------------- MODULE OfferTerms -----------------------------
(***************************************************************************)
(* The terms of an assignment offer.  They are set on two paths, each with *)
(* its own code: the engagement forms (engagements.service.ts create and   *)
(* update) and the approval of an application (applications.service.ts).   *)
(* Both normalize a payload, compute a weekly rate, write the row and      *)
(* decide whether the member is mailed.                                    *)
(*                                                                         *)
(* Terms and payloads are functions on Fields, None where a column is null *)
(* or a field is absent.  The DTOs trim, drop blank text and hold hours to *)
(* two decimals; they and the parsing of dates turn a null text or date    *)
(* into an absent one, and @IsOptional lets every other null pass: Null.   *)
(* The rounding of a rate to cents is the same expression on both paths    *)
(* and is left out.                                                        *)
(***************************************************************************)
EXTENDS Integers

CONSTANTS
    None,    \* no value: SQL NULL, or a field that is not sent
    Null,    \* an explicit null of a payload
    Refused  \* an exception in place of an offer

DefaultPaymentCycle == "WEEKLY"

MemberFacing == {"startDate", "durationMonths", "paymentCycle", "ratePerHour",
                 "standardHoursPerDay", "agreementRate", "otherRemarks"}
\* account stands for wiproIdEndDate and candidateWiproId.
Fields == MemberFacing \union {"totalHours", "account", "source"}

(***************************************************************************)
(* The weekly rate.                                                        *)
(***************************************************************************)
DaysPerWeek == 5

\* Null is present, and is 0 in a product.
AsNumber(v) == IF v = Null THEN 0 ELSE v

\* calculateAssignmentAgreementRate.
AssignmentRate(p) ==
    LET rate == p["ratePerHour"]
        week == IF p["standardHoursPerDay"] = None THEN None
                ELSE AsNumber(p["standardHoursPerDay"]) * DaysPerWeek
        legacy == p["agreementRate"]
    IN  CASE (rate = None) # (week = None) -> Refused
          [] rate # None /\ week # None ->
                IF rate <= 0 \/ week <= 0 THEN Refused ELSE rate * week
          [] rate = None /\ week = None /\ legacy # None ->
                IF legacy <= 0 THEN Refused ELSE legacy
          [] OTHER -> None

\* A mutant of ApplicationRate: the rate of a day.
ApplicationRateOfDay(p) ==
    LET rate == p["ratePerHour"]
        day == IF p["standardHoursPerDay"] = None THEN None
               ELSE AsNumber(p["standardHoursPerDay"])
        legacy == p["agreementRate"]
    IN  CASE (rate = None) # (day = None) -> Refused
          [] rate # None /\ day # None ->
                IF rate <= 0 \/ day <= 0 THEN Refused ELSE rate * day
          [] rate = None /\ day = None /\ legacy # None ->
                IF legacy <= 0 THEN Refused ELSE legacy
          [] OTHER -> None

\* calculateAgreementRate.
ApplicationRate(p) ==
    LET rate == p["ratePerHour"]
        day == IF p["standardHoursPerDay"] = None THEN None
               ELSE AsNumber(p["standardHoursPerDay"])
        legacy == p["agreementRate"]
    IN  CASE (rate = None) # (day = None) -> Refused
          [] rate # None /\ day # None ->
                IF rate <= 0 \/ day <= 0 THEN Refused ELSE rate * (day * DaysPerWeek)
          [] rate = None /\ day = None /\ legacy # None ->
                IF legacy <= 0 THEN Refused ELSE legacy
          [] OTHER -> None

(***************************************************************************)
(* Normalized payloads.                                                    *)
(***************************************************************************)
\* normalizeAssignmentOfferDetails: the payment cycle is always set.
EngagementTerms(p) ==
    IF AssignmentRate(p) = Refused THEN Refused
    ELSE [p EXCEPT !["agreementRate"] = AssignmentRate(p),
                   !["paymentCycle"] =
                        IF @ \in {None, Null} THEN DefaultPaymentCycle ELSE @]

\* normalizeAssignmentDetails: the payment cycle stays as it was sent.
ApplicationTerms(p) ==
    IF ApplicationRate(p) = Refused THEN Refused
    ELSE [p EXCEPT !["agreementRate"] = ApplicationRate(p)]

(***************************************************************************)
(* Rows.                                                                   *)
(***************************************************************************)
Stored(v) == IF v = Null THEN None ELSE v

\* What is given replaces what was there; a null clears it.
Given(terms, n) == [f \in Fields |-> IF n[f] # None THEN Stored(n[f]) ELSE terms[f]]

\* The columns' defaults.
Blank == [f \in Fields |-> IF f = "paymentCycle" THEN DefaultPaymentCycle ELSE None]

\* The row a payload creates, and whether the member is mailed an offer: always.
Offered(n) == [terms |-> Given(Blank, n), mail |-> TRUE]

CreatedByEngagement(p) ==
    IF EngagementTerms(p) = Refused THEN Refused ELSE Offered(EngagementTerms(p))

\* The column is not nullable: the statement fails, and with it the approval.
CannotBeStored(n) == n["paymentCycle"] = Null

CreatedByApplication(p) ==
    LET n == ApplicationTerms(p) IN
    IF n = Refused \/ CannotBeStored(n) THEN Refused ELSE Offered(n)

\* didAssignmentOfferDetailsChange of the engagements, between two rows.
OfferDetailsChanged(before, after) == \E f \in MemberFacing : before[f] # after[f]

\* didAssignmentOfferDetailsChange of the applications, between a row and a payload.
TermsDiffer(existing, n) ==
    \E f \in Fields \ {"totalHours"} : n[f] # None /\ Stored(n[f]) # existing[f]

\* update: the row as it is now gets the payload, and the comparison that decides
\* the mail is with the row as it was read before the transaction.
EditedByEngagement(read, current, p) ==
    LET n == EngagementTerms(p) IN
    IF n = Refused THEN Refused
    ELSE [terms |-> Given(current, n), mail |-> OfferDetailsChanged(read, Given(current, n))]

\* handleMemberAssignment of a member who has an active assignment: row and
\* comparison are one transaction's.
EditedByApplication(existing, p) ==
    LET n == ApplicationTerms(p) IN
    IF n = Refused \/ CannotBeStored(n) THEN Refused
    ELSE [terms |-> Given(existing, n), mail |-> TermsDiffer(existing, n)]

(***************************************************************************)
(* What the two paths owe the member.                                      *)
(***************************************************************************)
\* A payload refused on one path is refused on the other, and one accepted makes the
\* same offer on both; on an existing row they differ only in the payment cycle, which
\* the engagement form sets even if the payload does not.  A payment cycle that is null
\* is the exception: the form takes it for one that is absent, the approval fails.
OfferPathsAgree(existing, p) ==
    LET one == EditedByEngagement(existing, existing, p)
        other == EditedByApplication(existing, p)
        without == [p EXCEPT !["paymentCycle"] = None]
    IN  IF p["paymentCycle"] = Null
        THEN /\ CreatedByApplication(p) = Refused /\ other = Refused
             /\ CreatedByEngagement(p) = CreatedByEngagement(without)
             /\ one = EditedByEngagement(existing, existing, without)
        ELSE /\ CreatedByEngagement(p) = CreatedByApplication(p)
             /\ (one = Refused) <=> (other = Refused)
             /\ one # Refused => \A f \in Fields : one.terms[f] # other.terms[f] =>
                   f = "paymentCycle" /\ p[f] = None

\* The member's view follows the row: a change of what a member is shown is mailed,
\* the engagement form mails nothing else, and a request sent again changes nothing
\* and is not mailed again.
ChangesAreMailedOnce(existing, p) ==
    LET one == EditedByEngagement(existing, existing, p)
        other == EditedByApplication(existing, p)
        told(before, edit) == \E f \in MemberFacing : before[f] # edit.terms[f]
    IN  /\ one # Refused =>
              /\ one.mail <=> told(existing, one)
              /\ EditedByEngagement(one.terms, one.terms, p) = [one EXCEPT !.mail = FALSE]
        /\ other # Refused =>
              /\ told(existing, other) => other.mail
              /\ EditedByApplication(other.terms, p) = [other EXCEPT !.mail = FALSE]
=============================================================================
