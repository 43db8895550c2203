----------------------------- MODULE MCFeedback -----------------------------
(***************************************************************************)
(* A workload of Feedback for the model checker.                           *)
(***************************************************************************)
EXTENDS Feedback, TLC

CONSTANTS r1, r2, r3, r4, r5, a1, a2, m1, m2

\* Two managers ask for links, and one secret is the only draw; two customers
\* answer, one manager writes directly; two members write experiences.
FeedbackRequests == {r1, r2, r3, r4, r5}
FeedbackCalls == [r \in FeedbackRequests |->
    CASE r = r1 -> {"link"}
      [] r = r2 -> {"link", "create", "describe"}
      [] r = r3 -> {"submit"}
      [] r = r4 -> {"submit", "describe"}
      [] r = r5 -> {"revise"}]
FeedbackCaller == [r \in FeedbackRequests |-> IF r = r2 THEN m1 ELSE m2]
FeedbackMember == (a1 :> m1) @@ (a2 :> m2)
=============================================================================
