--------------------------- MODULE MCAssignments ---------------------------
(***************************************************************************)
(* Workloads of Assignments for the model checker.                         *)
(***************************************************************************)
EXTENDS Assignments, TLC

CONSTANTS r1, r2, r3, r4

\* User ids are only compared for equality.
Symmetry == Permutations(Members)

\* Applications are made, decided twice and meet every other operation.
OfferRequests == {r1, r2, r3, r4}
OfferCalls == [r \in OfferRequests |->
    CASE r = r1 -> {"apply", "answer"}
      [] r = r2 -> {"decide"}
      [] r = r3 -> {"decide", "assignMembers", "assignMember"}
      [] r = r4 -> {"answer", "setStatus", "remove", "resize", "delete"}]

\* A member answers an offer that is being removed.
AnswerRequests == {r1, r2}
RemovalCalls == [r \in AnswerRequests |->
    IF r = r1 THEN {"answer"} ELSE {"remove"}]
=============================================================================
