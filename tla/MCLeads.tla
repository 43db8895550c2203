------------------------------- MODULE MCLeads -------------------------------
(***************************************************************************)
(* Workloads of Leads for the model checker.                               *)
(***************************************************************************)
EXTENDS Leads, TLC

CONSTANTS r1, r2, r3, r4, r5, r6

\* Ids are only compared for equality.
Symmetry == Permutations(Engagements) \union Permutations(Leads)

\* Two leads are handed in; four requests work on either.
ReviewRequests == {r1, r2, r3, r4, r5, r6}
ReviewCalls == [r \in ReviewRequests |->
    CASE r \in {r1, r2} -> {"intake", "note"}
      [] r \in {r3, r4} -> {"convert"}
      [] r \in {r5, r6} -> {"status", "note"}]
=============================================================================
