-------------------------- MODULE TimesheetCommits --------------------------
(***************************************************************************)
(* What a batch of timesheet entries written in one transaction looks like *)
(* to everybody else: all of it happens in one step, or nothing does       *)
(* (timesheets.service.ts).  The commit actions of Timesheets are such     *)
(* steps; TimesheetLocks shows that the statements inside the transactions *)
(* add up to them.                                                         *)
(***************************************************************************)

CONSTANTS
    Txs,     \* transactions
    Kinds,   \* Kinds[t]: what t may do
    Entries, \* entries
    None     \* no row

Status == {"DRAFT", "SUBMITTED", "APPROVED"}

\* An entry has a status, and may be paid.
Row == [status: Status, paid: BOOLEAN]

\* What a transaction does to the entries it selects: an edit resets them, a
\* submission and a reopening write them by id; an approval, a deletion and a
\* payment write those that are what they want.
Kind == {"upsert", "submit", "reopen", "approve", "delete", "pay"}

Target(kind, row) ==
    CASE kind \in {"upsert", "reopen"} -> [row EXCEPT !.status = "DRAFT"]
      [] kind = "submit" -> [row EXCEPT !.status = "SUBMITTED"]
      [] kind = "approve" -> [row EXCEPT !.status = "APPROVED"]
      [] kind = "pay" -> [row EXCEPT !.paid = TRUE]
      [] kind = "delete" -> None

\* The rows a transaction of a kind may change, among those selected.
Fits(kind, row) ==
    /\ row # None
    /\ kind = "approve" => row.status = "SUBMITTED"
    /\ kind = "delete" => row.status = "DRAFT" /\ ~row.paid
    /\ kind = "pay" => ~row.paid

VARIABLES
    table, \* the entries as committed
    batch  \* what each transaction was asked for, and how far it is

Idle == [phase |-> "new", kind |-> None, selected |-> {}]

Begin(t) ==
    \E kind \in Kinds[t], selected \in SUBSET Entries :
        /\ batch[t].phase = "new"
        /\ batch' = [batch EXCEPT ![t] =
               [phase |-> "run", kind |-> kind, selected |-> selected]]
        /\ UNCHANGED table

\* Every selected row is changed, or the approvable ones by an approval.
Commit(t) ==
    \E changed \in SUBSET batch[t].selected :
        /\ batch[t].phase = "run"
        /\ batch[t].kind # "approve" => changed = batch[t].selected
        /\ \A e \in changed : Fits(batch[t].kind, table[e])
        /\ table' = [e \in Entries |-> IF e \in changed
                                       THEN Target(batch[t].kind, table[e])
                                       ELSE table[e]]
        /\ batch' = [batch EXCEPT ![t].phase = "committed"]

Abort(t) == /\ batch[t].phase = "run"
            /\ batch' = [batch EXCEPT ![t].phase = "aborted"]
            /\ UNCHANGED table

Init == /\ table \in [Entries -> {row \in Row : row.paid => row.status = "APPROVED"}]
        /\ batch = [t \in Txs |-> Idle]

Next == \E t \in Txs : Begin(t) \/ Commit(t) \/ Abort(t)

Spec == Init /\ [][Next]_<<table, batch>>
=============================================================================
