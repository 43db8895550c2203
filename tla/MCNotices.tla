----------------------------- MODULE MCNotices ------------------------------
(***************************************************************************)
(* A workload of Notices for the model checker.                            *)
(***************************************************************************)
EXTENDS Notices, TLC

CONSTANTS r1, p1, p2, p3

\* Calls share nothing but the register of managers, which changes by itself: one
\* call of any kind is enough.  Two templates are missing.
NoticeOps == r1 :> Operation
NoticeAbout == r1 :> {p1, p2}
NoticeTemplates == Kind \ {"reopened", "updated"}
=============================================================================
