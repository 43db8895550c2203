-------------------------- MODULE MCTimesheetLocks --------------------------
(***************************************************************************)
(* A workload of TimesheetLocks for the model checker.                     *)
(***************************************************************************)
EXTENDS TimesheetLocks, TLC

CONSTANTS t1, t2, t3

\* Loops by work date meet each other, and kinds that take rows in another order,
\* on two rows.
LockKinds == (t1 :> {"submit", "delete"}) @@ (t2 :> {"reopen"})
             @@ (t3 :> {"approve", "pay", "upsert"})
=============================================================================
