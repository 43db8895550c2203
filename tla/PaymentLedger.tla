---------------------------- MODULE PaymentLedger ----------------------------
(***************************************************************************)
(* What a timesheet promises to whoever pays it, with no requests, roles   *)
(* or statuses in it: hours are logged, someone approves them, a payment   *)
(* consumes them.  A payment takes a whole batch or nothing of it, takes   *)
(* only entries that have been approved at some time, takes none twice,    *)
(* and what it took stays for good; what is discarded was never paid and   *)
(* never comes back.                                                       *)
(***************************************************************************)
CONSTANTS
    Entries,
    Payments,
    None      \* not a payment

VARIABLES
    present,  \* entries the ledger holds
    retired,  \* entries that were discarded
    endorsed, \* entries present that have been approved at least once
    paidBy    \* the payment that consumed each entry

ledger == <<present, retired, endorsed, paidBy>>

Unpaid(S) == \A e \in S : paidBy[e] = None

Init ==
    /\ present = {}
    /\ retired = {}
    /\ endorsed = {}
    /\ paidBy = [e \in Entries |-> None]

Log(S) ==
    /\ S \intersect (present \union retired) = {}
    /\ present' = present \union S
    /\ UNCHANGED <<retired, endorsed, paidBy>>

Endorse(S) ==
    /\ S \subseteq present
    /\ endorsed' = endorsed \union S
    /\ UNCHANGED <<present, retired, paidBy>>

Consume(S, payment) ==
    /\ S \subseteq endorsed
    /\ Unpaid(S)
    /\ paidBy' = [e \in Entries |-> IF e \in S THEN payment ELSE paidBy[e]]
    /\ UNCHANGED <<present, retired, endorsed>>

Pay(S) == \E payment \in Payments : Consume(S, payment)

Discard(S) ==
    /\ S \subseteq present
    /\ Unpaid(S)
    /\ present' = present \ S
    /\ endorsed' = endorsed \ S
    /\ retired' = retired \union S
    /\ UNCHANGED paidBy

Next ==
    \E S \in SUBSET Entries :
        Log(S) \/ Endorse(S) \/ Pay(S) \/ Discard(S)

Spec == Init /\ [][Next]_ledger
=============================================================================
