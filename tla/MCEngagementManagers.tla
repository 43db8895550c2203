------------------------ MODULE MCEngagementManagers ------------------------
(***************************************************************************)
(* Workloads of EngagementManagers for the model checker.                  *)
(***************************************************************************)
EXTENDS EngagementManagers, TLC

CONSTANTS r1, r2, r3, r4, r5, r6

\* User ids are only compared for equality.
Symmetry == Permutations(Members)

\* Grants, removals and approvals of two members, each racing its like.
RegisterRequests == {r1, r2, r3, r4, r5, r6}
RegisterCalls == [r \in RegisterRequests |->
    CASE r \in {r1, r2} -> {"assign"}
      [] r = r3 -> {"remove"}
      [] r = r4 -> {"remove", "assign"}
      [] r \in {r5, r6} -> {"approve", "remove"}]
=============================================================================
