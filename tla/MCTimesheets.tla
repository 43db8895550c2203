---------------------------- MODULE MCTimesheets ----------------------------
(***************************************************************************)
(* Workloads of Timesheets for the model checker.  A workload says which   *)
(* endpoint each request may call and in which role; payloads, selections, *)
(* payment references and clock readings are left to the model, and the    *)
(* requests may run in any order and overlap in any way.                   *)
(***************************************************************************)
EXTENDS TimesheetLedger, TLC

CONSTANTS r1, r2, r3, r4, r5, r6

\* Payment references and clock readings are only compared for equality.
Symmetry == Permutations(Payments) \union Permutations(Instants)

\* One entry's life with a race at every stage: the member saves twice, submits
\* or deletes, managers approve, an administrator reopens, finance pays.
LifeRequests == {r1, r2, r3, r4, r5, r6}
LifeCalls == [r \in LifeRequests |->
    CASE r = r1 -> {<<"upsert", "MEMBER">>}
      [] r = r2 -> {<<"upsert", "MEMBER">>, <<"upsert", "ADMINISTRATOR">>,
                    <<"delete", "MEMBER">>}
      [] r = r3 -> {<<"submit", "MEMBER">>}
      [] r = r4 -> {<<"approve", "MANAGER">>}
      [] r = r5 -> {<<"linkPayment", "TM">>, <<"submit", "ADMINISTRATOR">>,
                    <<"approve", "MANAGER">>}
      [] r = r6 -> {<<"reopen", "ADMINISTRATOR">>, <<"linkPayment", "MANAGER">>,
                    <<"delete", "ADMINISTRATOR">>}]

\* Batches over two days: saves that create the same days, and deletes and
\* submissions of overlapping selections.
BatchRequests == {r1, r2, r3, r4}
BatchCalls == [r \in BatchRequests |->
    CASE r = r1 -> {<<"upsert", "MEMBER">>}
      [] r = r2 -> {<<"upsert", "MEMBER">>}
      [] r = r3 -> {<<"delete", "MEMBER">>}
      [] r = r4 -> {<<"delete", "ADMINISTRATOR">>, <<"submit", "MEMBER">>}]

\* Two days through to payment, with two payments over overlapping selections
\* and a reopening and a deletion against them.
PayRequests == {r1, r2, r3, r4, r5, r6}
PayCalls == [r \in PayRequests |->
    CASE r = r1 -> {<<"upsert", "MEMBER">>}
      [] r = r2 -> {<<"submit", "MEMBER">>}
      [] r = r3 -> {<<"approve", "MANAGER">>}
      [] r = r4 -> {<<"linkPayment", "MANAGER">>}
      [] r = r5 -> {<<"linkPayment", "TM">>, <<"reopen", "ADMINISTRATOR">>}
      [] r = r6 -> {<<"linkPayment", "ADMINISTRATOR">>,
                    <<"delete", "MEMBER">>}]
=============================================================================
