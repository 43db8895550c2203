--------------------------- MODULE TimesheetLocks ---------------------------
(***************************************************************************)
(* The transactions of timesheets.service.ts statement by statement: each  *)
(* entry's row is locked by the first transaction that writes it, until    *)
(* that one ends.  Submissions, reopenings and payments take rows one by   *)
(* one in the order of their work dates (loadEntriesForAction), upserts in *)
(* the order of the payload, and approvals and deletions, one statement    *)
(* each, as the database scans them; so two calls may wait for each other. *)
(***************************************************************************)
EXTENDS Naturals, Sequences, FiniteSets

CONSTANTS
    Txs,     \* transactions
    Kinds,   \* Kinds[t]: what t may do
    Entries, \* 1 .. n, in the order of their work dates
    None     \* no row, no holder

VARIABLES
    table,  \* the entries as committed
    batch,  \* what each transaction was asked for, and how far it is
    rest,   \* the rows each transaction has not come to yet, in its order
    holder  \* who holds the lock of each row

vars == <<table, batch, rest, holder>>

Abstract == INSTANCE TimesheetCommits

ASSUME EntriesAssumption == Entries \subseteq Nat /\ IsFiniteSet(Entries)
ASSUME KindsAssumption == Kinds \in [Txs -> SUBSET Abstract!Kind]
ASSUME NoneAssumption == None \notin Txs \union Abstract!Row \union Abstract!Kind

Batch == [phase: {"new", "run", "committed", "aborted"},
          kind: Abstract!Kind \union {None},
          selected: SUBSET Entries]

TypeOK ==
    /\ table \in [Entries -> Abstract!Row \union {None}]
    /\ batch \in [Txs -> Batch]
    /\ rest \in [Txs -> Seq(Entries)]
    /\ holder \in [Entries -> Txs \union {None}]

Kind(t) == batch[t].kind

Held(t) == {e \in Entries : holder[e] = t}

Ascending(s) == \A i, j \in DOMAIN s : i < j => s[i] < s[j]

AnyOrder(selected) == {s \in [1 .. Cardinality(selected) -> selected] :
                           \A i, j \in DOMAIN s : s[i] = s[j] => i = j}

\* The kinds that write the rows loadEntriesForAction read, in a loop.
DateOrdered == {"submit", "reopen", "pay"}

\* The kinds of which one statement names every row and passes over those that
\* do not match.
Scanning == {"approve", "delete"}

\* Mutant: entries are loaded in any order.
OrdersUnsorted(kind, selected) == AnyOrder(selected)

\* The orders in which a transaction comes to the rows of a selection.
Orders(kind, selected) ==
    {s \in AnyOrder(selected) : kind \in DateOrdered => Ascending(s)}

-----------------------------------------------------------------------------
Begin(t) ==
    \E kind \in Kinds[t], selected \in SUBSET Entries \ {{}} :
    \E order \in Orders(kind, selected) :
        /\ batch[t].phase = "new"
        /\ \A e \in selected : table[e] # None
        /\ batch' = [batch EXCEPT ![t] =
               [phase |-> "run", kind |-> kind, selected |-> selected]]
        /\ rest' = [rest EXCEPT ![t] = order]
        /\ UNCHANGED <<table, holder>>

\* The row the transaction waits for or writes next.
Wanted(t) == Head(rest[t])

Running(t) == batch[t].phase = "run" /\ rest[t] # <<>>

Matches(t, e) == Abstract!Fits(Kind(t), table[e])

\* A free row that the statement matches is written and locked.
Write(t) ==
    /\ Running(t)
    /\ holder[Wanted(t)] = None
    /\ Matches(t, Wanted(t))
    /\ holder' = [holder EXCEPT ![Wanted(t)] = t]
    /\ rest' = [rest EXCEPT ![t] = Tail(@)]
    /\ UNCHANGED <<table, batch>>

Release(t) == holder' = [e \in Entries |-> IF holder[e] = t THEN None ELSE holder[e]]

\* A row that does not match as committed is not waited for: a scanning statement
\* passes over it; an update by id fails, and a payment throws that the entry is
\* paid.
PassOver(t) ==
    /\ Running(t)
    /\ ~Matches(t, Wanted(t))
    /\ Kind(t) \in Scanning
    /\ rest' = [rest EXCEPT ![t] = Tail(@)]
    /\ UNCHANGED <<table, batch, holder>>

Abandon(t) == /\ batch' = [batch EXCEPT ![t].phase = "aborted"]
              /\ rest' = [rest EXCEPT ![t] = <<>>]
              /\ Release(t)
              /\ UNCHANGED table

FailUpdate(t) ==
    /\ Running(t)
    /\ ~Matches(t, Wanted(t))
    /\ Kind(t) \notin Scanning
    /\ Abandon(t)

\* Mutant: a deletion that missed a row commits all the same.
CompleteAnyway(t) == TRUE

\* A deletion counts the rows it deleted.
Complete(t) == Kind(t) = "delete" => Cardinality(Held(t)) = Cardinality(batch[t].selected)

Ready(t) == batch[t].phase = "run" /\ rest[t] = <<>>

Commit(t) ==
    /\ Ready(t)
    /\ Complete(t)
    /\ table' = [e \in Entries |-> IF holder[e] = t
                                   THEN Abstract!Target(Kind(t), table[e])
                                   ELSE table[e]]
    /\ batch' = [batch EXCEPT ![t].phase = "committed"]
    /\ Release(t)
    /\ UNCHANGED rest

Conflict(t) == Ready(t) /\ ~Complete(t) /\ Abandon(t)

\* The process or the connection is lost, or the transaction takes too long.
Abort(t) == batch[t].phase = "run" /\ Abandon(t)

-----------------------------------------------------------------------------
(* The database *)

WaitsFor(t, u) == /\ Running(t) /\ Matches(t, Wanted(t))
                  /\ t # u /\ holder[Wanted(t)] = u

\* t is in a circle of transactions each of which waits for the next.
Stuck(t) ==
    \E circle \in SUBSET Txs :
        /\ t \in circle
        /\ \A u \in circle : /\ \E v \in circle : WaitsFor(u, v)
                             /\ \E v \in circle : WaitsFor(v, u)

\* The database ends a deadlock by failing one of the transactions in it.
BreakDeadlock(t) == Stuck(t) /\ Abandon(t)

Init == /\ Abstract!Init
        /\ rest = [t \in Txs |-> <<>>]
        /\ holder = [e \in Entries |-> None]

Continue(t) == Write(t) \/ PassOver(t) \/ FailUpdate(t) \/ Commit(t) \/ Conflict(t)

Next == \E t \in Txs : Begin(t) \/ Continue(t) \/ Abort(t) \/ BreakDeadlock(t)

\* A statement that can run runs.  Neither that the database breaks a deadlock
\* nor that anything is aborted otherwise is promised.
Fairness == \A t \in Txs : WF_vars(Continue(t))

Spec == Init /\ [][Next]_vars /\ Fairness

-----------------------------------------------------------------------------
(* What the transactions promise *)

\* Row by row or not, deadlocked or not, every transaction takes effect in one
\* step on rows that are then what it requires, or not at all.
CommitsAreAtomic == Abstract!Spec

\* Some deadlock has a transaction in it that writes in another order than the
\* work dates'.
CircleOutOfOrder == \E t \in Txs : Stuck(t) /\ Kind(t) \notin DateOrdered

\* Even if the database never broke a deadlock, every transaction would end,
\* unless an upsert, an approval or a deletion is in a circle: the loops over the
\* rows of loadEntriesForAction keep nobody waiting for ever (its orderBy).
OrderedEnd == \A t \in Txs :
    batch[t].phase = "run" ~> batch[t].phase # "run" \/ CircleOutOfOrder

\* Submissions, reopenings and payments, which all follow the work dates, never
\* wait for each other in a circle: a deadlock has someone in it who writes in
\* another order (loadEntriesForAction's orderBy).
SortedNeverDeadlock == (\E t \in Txs : Stuck(t)) => CircleOutOfOrder
=============================================================================
