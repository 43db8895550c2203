--------------------------- MODULE TimesheetLedger ---------------------------
(***************************************************************************)
(* Timesheets keeps the promises of PaymentLedger: every handler, however  *)
(* stale the rows it read, takes a step of the ledger or none.             *)
(***************************************************************************)
EXTENDS Timesheets

Retired == {id \in EntryIds : Issued(id)} \ live

\* Approved at least once: the trail says so, and goes with the entry.
Endorsed == {id \in live : Records(id, {"APPROVED"}) # {}}

Ledger == INSTANCE PaymentLedger WITH
              Entries <- EntryIds,
              present <- live,
              retired <- Retired,
              endorsed <- Endorsed,
              paidBy <- [id \in EntryIds |-> rows[id].paid]

\* Payments consume approved entries, once and for good, in whole batches, and
\* a paid entry is never deleted, whatever the requests interleave
\* (linkPayment's guard on the reference, deleteEntries' guard on the row).
PaymentsAreSafe == Ledger!Spec
=============================================================================
