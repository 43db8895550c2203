------------------------- MODULE TimesheetLocksProofs -------------------------
(***************************************************************************)
(* The transactions of TimesheetLocks take effect in one step, and those   *)
(* that follow the work dates never wait for each other in a circle, for   *)
(* any number of transactions and entries.                                 *)
(***************************************************************************)
EXTENDS TimesheetLocks, TLAPS, SequenceTheorems, FiniteSetTheorems

\* The rows a transaction has not come to yet.
Ahead(t) == {rest[t][i] : i \in DOMAIN rest[t]}

\* A transaction holds rows it may change, and what it holds and what it has
\* before it is what it was asked for, but for rows it passed over.
Busy(t) ==
    batch[t].phase = "run" =>
        /\ Kind(t) \in Abstract!Kind
        /\ Held(t) \union Ahead(t) \subseteq batch[t].selected
        /\ Kind(t) \notin Scanning => Held(t) \union Ahead(t) = batch[t].selected
        /\ \A e \in Held(t) : Abstract!Fits(Kind(t), table[e])

\* Before it begins and after it ends it holds nothing.
Free(t) == batch[t].phase # "run" => Held(t) = {} /\ rest[t] = <<>>

\* One that follows the work dates holds rows before all those it waits for.
InTurn(t) ==
    Kind(t) \in DateOrdered =>
        /\ Ascending(rest[t])
        /\ \A e \in Held(t), f \in Ahead(t) : e < f

Inductive == TypeOK /\ \A t \in Txs : Busy(t) /\ Free(t) /\ InTurn(t)

-----------------------------------------------------------------------------
(* Sequences and sets *)

LEMMA SomeLeast ==
    ASSUME NEW S \in SUBSET Nat, S # {} PROVE \E n \in S : \A m \in S : n <= m
  <1>1. PICK n \in S : \A m \in S : ~(<<m, n>> \in OpToRel(<, Nat))
    BY NatLessThanWellFounded, WFMin
  <1>2. \A m \in S : ~(m < n)
    BY <1>1 DEF OpToRel
  <1>3. QED
    BY <1>2

\* The orders of a selection are its entries, each once.
LEMMA OrderFacts ==
    ASSUME NEW kind \in Abstract!Kind, NEW selected \in SUBSET Entries,
           NEW s \in Orders(kind, selected)
    PROVE  /\ s \in Seq(Entries)
           /\ {s[i] : i \in DOMAIN s} = selected
           /\ kind \in DateOrdered => Ascending(s)
  <1> DEFINE n == Cardinality(selected)
  <1>1. IsFiniteSet(selected) /\ n \in Nat
    BY EntriesAssumption, FS_Subset, FS_CardinalityType
  <1>2. s \in Injection(1 .. n, selected)
    BY DEF Orders, AnyOrder, Injection, IsInjective
  <1>3. Cardinality(1 .. n) = n
    BY <1>1, FS_Interval
  <1>4. s \in Surjection(1 .. n, selected)
    BY <1>1, <1>2, <1>3, FS_Injection
  <1>5. s \in [1 .. n -> selected] /\ \A e \in selected : \E i \in 1 .. n : s[i] = e
    BY <1>4 DEF Surjection
  <1>6. s \in Seq(Entries)
    BY <1>1, <1>5, SeqDef
  <1>7. QED
    BY <1>5, <1>6 DEF Orders

\* What a transaction has before it, once it has come past the first row.
LEMMA TailFacts ==
    ASSUME NEW s \in Seq(Entries), s # <<>>
    PROVE  /\ Head(s) \in Entries /\ Tail(s) \in Seq(Entries)
           /\ {s[i] : i \in DOMAIN s} =
                  {Head(s)} \union {Tail(s)[i] : i \in DOMAIN Tail(s)}
           /\ Ascending(s) =>
                  /\ Ascending(Tail(s))
                  /\ \A i \in DOMAIN Tail(s) : Head(s) < Tail(s)[i]
  <1>1. /\ Head(s) \in Entries /\ Tail(s) \in Seq(Entries)
        /\ Len(Tail(s)) = Len(s) - 1
        /\ \A i \in 1 .. Len(Tail(s)) : Tail(s)[i] = s[i + 1]
        /\ Len(s) \in Nat /\ Len(s) > 0 /\ DOMAIN s = 1 .. Len(s)
        /\ DOMAIN Tail(s) = 1 .. Len(s) - 1 /\ Head(s) = s[1]
    BY HeadTailProperties, EmptySeq, LenProperties
  <1>2. {s[i] : i \in DOMAIN s} = {Head(s)} \union {Tail(s)[i] : i \in DOMAIN Tail(s)}
    <2>1. ASSUME NEW i \in DOMAIN s
          PROVE  s[i] = Head(s) \/ \E j \in DOMAIN Tail(s) : s[i] = Tail(s)[j]
      <3>1. CASE i = 1
        BY <1>1, <3>1
      <3>2. CASE i # 1
        <4>1. i - 1 \in DOMAIN Tail(s) /\ Tail(s)[i - 1] = s[(i - 1) + 1]
          BY <1>1, <3>2
        <4>2. (i - 1) + 1 = i
          BY <1>1
        <4>3. QED
          BY <4>1, <4>2
      <3>3. QED
        BY <3>1, <3>2
    <2>2. ASSUME NEW j \in DOMAIN Tail(s) PROVE \E i \in DOMAIN s : s[i] = Tail(s)[j]
      BY <1>1
    <2>3. 1 \in DOMAIN s
      BY <1>1
    <2>4. QED
      BY <1>1, <2>1, <2>2, <2>3
  <1>3. ASSUME Ascending(s)
        PROVE  /\ Ascending(Tail(s))
               /\ \A i \in DOMAIN Tail(s) : Head(s) < Tail(s)[i]
    <2>1. ASSUME NEW i \in DOMAIN Tail(s), NEW j \in DOMAIN Tail(s), i < j
          PROVE  Tail(s)[i] < Tail(s)[j]
      BY <1>1, <1>3, <2>1 DEF Ascending
    <2>2. ASSUME NEW i \in DOMAIN Tail(s) PROVE Head(s) < Tail(s)[i]
      BY <1>1, <1>3 DEF Ascending
    <2>3. QED
      BY <2>1, <2>2 DEF Ascending
  <1>4. QED
    BY <1>1, <1>2, <1>3

-----------------------------------------------------------------------------
(* The steps *)

Safe(t) == Busy(t) /\ Free(t) /\ InTurn(t)

\* A transaction that a step leaves alone.
LEMMA LeftAlone ==
    ASSUME NEW t \in Txs, Safe(t), batch'[t] = batch[t], rest'[t] = rest[t],
           Held(t)' = Held(t), \A e \in Held(t) : table'[e] = table[e]
    PROVE  Safe(t)'
  <1>1. Kind(t)' = Kind(t) /\ Ahead(t)' = Ahead(t)
    BY DEF Kind, Ahead
  <1>2. Busy(t)'
    BY <1>1 DEF Safe, Busy
  <1>3. Free(t)'
    BY DEF Safe, Free
  <1>4. InTurn(t)'
    BY <1>1 DEF Safe, InTurn
  <1>5. QED
    BY <1>2, <1>3, <1>4 DEF Safe

\* The row a running transaction has come to.
LEMMA WantedFacts ==
    ASSUME TypeOK, NEW t \in Txs, Running(t)
    PROVE  /\ Wanted(t) \in Entries /\ batch[t].phase = "run"
           /\ Tail(rest[t]) \in Seq(Entries)
           /\ Ahead(t) = {Wanted(t)} \union {Tail(rest[t])[i] : i \in DOMAIN Tail(rest[t])}
           /\ Ascending(rest[t]) =>
                  /\ Ascending(Tail(rest[t]))
                  /\ \A i \in DOMAIN Tail(rest[t]) : Wanted(t) < Tail(rest[t])[i]
  <1>1. rest[t] \in Seq(Entries) /\ rest[t] # <<>>
    BY DEF TypeOK, Running
  <1>2. QED
    BY <1>1, TailFacts DEF Wanted, Ahead, Running

LEMMA BeginStep ==
    ASSUME Inductive, NEW t \in Txs, Begin(t) PROVE Inductive'
  <1>1. PICK kind \in Kinds[t], selected \in SUBSET Entries \ {{}} :
        \E order \in Orders(kind, selected) :
            /\ batch[t].phase = "new"
            /\ batch' = [batch EXCEPT ![t] =
                   [phase |-> "run", kind |-> kind, selected |-> selected]]
            /\ rest' = [rest EXCEPT ![t] = order]
            /\ UNCHANGED <<table, holder>>
    BY DEF Begin
  <1>2. PICK order \in Orders(kind, selected) :
            /\ batch[t].phase = "new"
            /\ batch' = [batch EXCEPT ![t] =
                   [phase |-> "run", kind |-> kind, selected |-> selected]]
            /\ rest' = [rest EXCEPT ![t] = order]
            /\ UNCHANGED <<table, holder>>
    BY <1>1
  <1>3. kind \in Abstract!Kind /\ selected \in SUBSET Entries
    BY KindsAssumption
  <1>4. /\ order \in Seq(Entries) /\ {order[i] : i \in DOMAIN order} = selected
        /\ kind \in DateOrdered => Ascending(order)
    BY <1>3, OrderFacts
  <1>5. TypeOK'
    BY <1>2, <1>3, <1>4 DEF Inductive, TypeOK, Batch
  <1>6. \A q \in Txs : Held(q)' = Held(q)
    BY <1>2 DEF Held
  <1>7. Safe(t)'
    <2>1. /\ Held(t)' = {} /\ Kind(t)' = kind /\ Ahead(t)' = selected
          /\ batch'[t].selected = selected /\ batch'[t].phase = "run"
          /\ rest'[t] = order
      <3>1. /\ batch'[t] = [phase |-> "run", kind |-> kind, selected |-> selected]
            /\ rest'[t] = order
        BY <1>2 DEF Inductive, TypeOK
      <3>2. Held(t)' = {}
        BY <1>2, <1>6 DEF Inductive, Safe, Free
      <3>3. QED
        BY <1>4, <3>1, <3>2 DEF Kind, Ahead
    <2>2. QED
      BY <1>3, <1>4, <2>1 DEF Safe, Busy, Free, InTurn
  <1>8. ASSUME NEW q \in Txs, q # t PROVE Safe(q)'
    BY <1>2, <1>6, <1>8, LeftAlone DEF Inductive, TypeOK, Safe
  <1>9. QED
    BY <1>5, <1>7, <1>8 DEF Inductive, Safe

LEMMA WriteStep ==
    ASSUME Inductive, NEW t \in Txs, Write(t) PROVE Inductive'
  <1> USE NoneAssumption
  <1>1. /\ Running(t) /\ holder[Wanted(t)] = None /\ Matches(t, Wanted(t))
        /\ holder' = [holder EXCEPT ![Wanted(t)] = t]
        /\ rest' = [rest EXCEPT ![t] = Tail(@)]
        /\ UNCHANGED <<table, batch>>
    BY DEF Write
  <1>2. /\ Wanted(t) \in Entries /\ batch[t].phase = "run"
        /\ Tail(rest[t]) \in Seq(Entries)
        /\ Ahead(t) = {Wanted(t)} \union {Tail(rest[t])[i] : i \in DOMAIN Tail(rest[t])}
        /\ Ascending(rest[t]) =>
               /\ Ascending(Tail(rest[t]))
               /\ \A i \in DOMAIN Tail(rest[t]) : Wanted(t) < Tail(rest[t])[i]
    BY <1>1, WantedFacts DEF Inductive
  <1>3. TypeOK'
    BY <1>1, <1>2 DEF Inductive, TypeOK
  <1>4. /\ Held(t)' = Held(t) \union {Wanted(t)}
        /\ \A q \in Txs : q # t => Held(q)' = Held(q)
    BY <1>1, <1>2 DEF Inductive, TypeOK, Held
  <1>5. rest'[t] = Tail(rest[t]) /\ Kind(t)' = Kind(t)
        /\ Ahead(t)' = {Tail(rest[t])[i] : i \in DOMAIN Tail(rest[t])}
    BY <1>1 DEF Inductive, TypeOK, Ahead, Kind
  <1>6. Busy(t)'
    <2>1. Held(t)' \union Ahead(t)' = Held(t) \union Ahead(t)
      BY <1>2, <1>4, <1>5
    <2>2. \A e \in Held(t)' : Abstract!Fits(Kind(t), table[e])
      BY <1>1, <1>2, <1>4 DEF Inductive, Busy, Matches
    <2>3. QED
      BY <1>1, <1>2, <1>5, <2>1, <2>2 DEF Inductive, Busy
  <1>7. Free(t)'
    BY <1>1, <1>2 DEF Free
  <1>8. InTurn(t)'
    <2> SUFFICES ASSUME Kind(t) \in DateOrdered
                 PROVE  /\ Ascending(rest'[t])
                        /\ \A e \in Held(t)', f \in Ahead(t)' : e < f
      BY <1>5 DEF InTurn
    <2>1. Ascending(rest[t]) /\ \A e \in Held(t), f \in Ahead(t) : e < f
      BY DEF Inductive, InTurn
    <2>2. \A e \in Held(t)', f \in Ahead(t)' : e < f
      BY <1>2, <1>4, <1>5, <2>1
    <2>3. QED
      BY <1>2, <1>5, <2>1, <2>2
  <1>9. ASSUME NEW q \in Txs, q # t PROVE Safe(q)'
    BY <1>1, <1>4, <1>9, LeftAlone DEF Inductive, TypeOK, Safe
  <1>10. QED
    BY <1>3, <1>6, <1>7, <1>8, <1>9 DEF Inductive, Safe

LEMMA PassOverStep ==
    ASSUME Inductive, NEW t \in Txs, PassOver(t) PROVE Inductive'
  <1>1. /\ Running(t) /\ Kind(t) \in Scanning
        /\ rest' = [rest EXCEPT ![t] = Tail(@)]
        /\ UNCHANGED <<table, batch, holder>>
    BY DEF PassOver
  <1>2. /\ batch[t].phase = "run" /\ Tail(rest[t]) \in Seq(Entries)
        /\ Ahead(t) = {Wanted(t)} \union {Tail(rest[t])[i] : i \in DOMAIN Tail(rest[t])}
    BY <1>1, WantedFacts DEF Inductive
  <1>3. TypeOK'
    BY <1>1, <1>2 DEF Inductive, TypeOK
  <1>4. \A q \in Txs : Held(q)' = Held(q)
    BY <1>1 DEF Held
  <1>5. rest'[t] = Tail(rest[t]) /\ Kind(t)' = Kind(t)
        /\ Ahead(t)' = {Tail(rest[t])[i] : i \in DOMAIN Tail(rest[t])}
    BY <1>1 DEF Inductive, TypeOK, Ahead, Kind
  <1>6. Safe(t)'
    BY <1>1, <1>2, <1>4, <1>5 DEF Inductive, Safe, Busy, Free, InTurn,
                                         Scanning, DateOrdered
  <1>7. ASSUME NEW q \in Txs, q # t PROVE Safe(q)'
    BY <1>1, <1>4, <1>7, LeftAlone DEF Inductive, TypeOK, Safe
  <1>8. QED
    BY <1>3, <1>6, <1>7 DEF Inductive, Safe

\* Ending a transaction, either way, frees its rows.
LEMMA EndStep ==
    ASSUME Inductive, NEW t \in Txs, NEW phase \in {"committed", "aborted"},
           batch' = [batch EXCEPT ![t].phase = phase],
           rest'[t] = <<>>, rest' = [rest EXCEPT ![t] = <<>>], Release(t),
           \A e \in Entries : table'[e] = table[e] \/ e \in Held(t)
    PROVE  /\ batch' \in [Txs -> Batch] /\ rest' \in [Txs -> Seq(Entries)]
           /\ holder' \in [Entries -> Txs \union {None}]
           /\ \A q \in Txs : Safe(q)'
  <1> USE NoneAssumption
  <1>1. batch' \in [Txs -> Batch]
    BY DEF Inductive, TypeOK, Batch
  <1>2. rest' \in [Txs -> Seq(Entries)]
    BY EmptySeq DEF Inductive, TypeOK
  <1>3. holder' \in [Entries -> Txs \union {None}]
    BY DEF Inductive, TypeOK, Release
  <1>4. Held(t)' = {} /\ \A q \in Txs : q # t => Held(q)' = Held(q)
    BY DEF Inductive, TypeOK, Release, Held
  <1>5. batch'[t].phase = phase /\ Kind(t)' = Kind(t)
    BY DEF Inductive, TypeOK, Batch, Kind
  <1>6. Safe(t)'
    <2>1. Busy(t)' /\ Free(t)'
      BY <1>4, <1>5 DEF Busy, Free
    <2>2. Ascending(rest'[t])
      BY EmptySeq DEF Ascending
    <2>3. InTurn(t)'
      BY <1>4, <2>2 DEF InTurn
    <2>4. QED
      BY <2>1, <2>3 DEF Safe
  <1>7. ASSUME NEW q \in Txs, q # t PROVE Safe(q)'
    <2>1. \A e \in Held(q) : e \in Entries /\ e \notin Held(t)
      BY <1>7 DEF Held
    <2>2. batch'[q] = batch[q] /\ rest'[q] = rest[q]
      BY <1>7 DEF Inductive, TypeOK
    <2>3. QED
      BY <1>4, <1>7, <2>1, <2>2, LeftAlone DEF Inductive, Safe
  <1>8. QED
    BY <1>1, <1>2, <1>3, <1>6, <1>7

LEMMA AbandonStep ==
    ASSUME Inductive, NEW t \in Txs, batch[t].phase = "run", Abandon(t)
    PROVE  Inductive'
  <1>1. rest'[t] = <<>> /\ rest' = [rest EXCEPT ![t] = <<>>]
    BY DEF Inductive, TypeOK, Abandon
  <1>2. QED
    BY <1>1, EndStep DEF Inductive, TypeOK, Abandon, Safe

\* The rows a committing transaction holds.
LEMMA CommitFacts ==
    ASSUME Inductive, NEW t \in Txs, Commit(t)
    PROVE  /\ batch[t].phase = "run" /\ rest[t] = <<>>
           /\ Kind(t) \in Abstract!Kind
           /\ Held(t) \subseteq batch[t].selected
           /\ Kind(t) # "approve" => Held(t) = batch[t].selected
           /\ \A e \in Held(t) : Abstract!Fits(Kind(t), table[e])
           /\ \A e \in Held(t) :
                  Abstract!Target(Kind(t), table[e]) \in Abstract!Row \union {None}
           /\ table' = [e \in Entries |-> IF e \in Held(t)
                                          THEN Abstract!Target(Kind(t), table[e])
                                          ELSE table[e]]
  <1>1. batch[t].phase = "run" /\ rest[t] = <<>> /\ Complete(t)
    BY DEF Commit, Ready
  <1>2. Ahead(t) = {}
    BY <1>1, EmptySeq DEF Ahead
  <1>3. /\ Kind(t) \in Abstract!Kind /\ Held(t) \subseteq batch[t].selected
        /\ Kind(t) \notin Scanning => Held(t) = batch[t].selected
        /\ \A e \in Held(t) : Abstract!Fits(Kind(t), table[e])
    BY <1>1, <1>2 DEF Inductive, Busy
  \* A deletion has counted its rows.
  <1>4. CASE Kind(t) = "delete"
    <2>1. batch[t].selected \in SUBSET Entries
      BY DEF Inductive, TypeOK, Batch
    <2>2. IsFiniteSet(batch[t].selected)
      BY <2>1, EntriesAssumption, FS_Subset
    <2>3. Cardinality(batch[t].selected) = Cardinality(Held(t))
      BY <1>1, <1>4 DEF Complete
    <2>4. Held(t) = batch[t].selected
      BY <1>3, <2>2, <2>3, FS_Subset
    <2>5. \A e \in Held(t) : Abstract!Target(Kind(t), table[e]) = None
      BY <1>4 DEF Abstract!Target
    <2>6. QED
      BY <1>1, <1>3, <2>4, <2>5 DEF Commit, Held
  <1>5. CASE Kind(t) # "delete"
    <2>1. ASSUME NEW e \in Held(t)
          PROVE  Abstract!Target(Kind(t), table[e]) \in Abstract!Row
      <3>1. table[e] \in Abstract!Row
        BY <1>3 DEF Inductive, TypeOK, Held, Abstract!Fits
      <3>2. QED
        BY <1>3, <1>5, <3>1
           DEF Abstract!Target, Abstract!Status, Abstract!Row, Abstract!Kind
    <2>2. QED
      BY <1>1, <1>3, <1>5, <2>1 DEF Commit, Held, Scanning
  <1>6. QED
    BY <1>4, <1>5

LEMMA CommitStep ==
    ASSUME Inductive, NEW t \in Txs, Commit(t) PROVE Inductive'
  <1>1. /\ rest' = [rest EXCEPT ![t] = <<>>] /\ rest'[t] = <<>>
        /\ batch' = [batch EXCEPT ![t].phase = "committed"] /\ Release(t)
    BY CommitFacts DEF Commit, Inductive, TypeOK
  <1>2. table' \in [Entries -> Abstract!Row \union {None}]
    BY CommitFacts DEF Inductive, TypeOK
  <1>3. \A e \in Entries : table'[e] = table[e] \/ e \in Held(t)
    BY CommitFacts
  <1>4. QED
    BY <1>1, <1>2, <1>3, EndStep DEF Inductive, TypeOK, Safe

\* What a step of the transactions is.
LEMMA StepCases ==
    ASSUME [Next]_vars
    PROVE  \/ UNCHANGED vars
           \/ \E t \in Txs : Begin(t) \/ Write(t) \/ PassOver(t) \/ Commit(t)
           \/ \E t \in Txs : /\ batch[t].phase = "run" \/ Stuck(t)
                             /\ Abandon(t)
  BY DEF Next, Continue, FailUpdate, Conflict, Abort, BreakDeadlock, Running, Ready

LEMMA StuckRuns == ASSUME NEW t \in Txs, Stuck(t) PROVE batch[t].phase = "run"
  BY DEF Stuck, WaitsFor, Running

LEMMA InductiveStep == Inductive /\ [Next]_vars => Inductive'
  <1> SUFFICES ASSUME Inductive, [Next]_vars PROVE Inductive'
    OBVIOUS
  <1>1. CASE UNCHANGED vars
    <2>1. \A t \in Txs : Held(t)' = Held(t)
      BY <1>1 DEF vars, Held
    <2>2. \A t \in Txs : Safe(t)'
      BY <1>1, <2>1, LeftAlone DEF vars, Inductive, Safe
    <2>3. QED
      BY <1>1, <2>2 DEF vars, Inductive, TypeOK, Safe
  <1>2. QED
    BY <1>1, StepCases, StuckRuns, BeginStep, WriteStep, PassOverStep, CommitStep,
       AbandonStep

LEMMA InductiveInit == Init => Inductive
  <1> SUFFICES ASSUME Init PROVE Inductive
    OBVIOUS
  <1> USE NoneAssumption
  <1>1. TypeOK
    BY EmptySeq DEF Init, TypeOK, Batch, Abstract!Init, Abstract!Idle
  <1>2. ASSUME NEW t \in Txs
        PROVE  /\ batch[t].phase = "new" /\ Kind(t) = None /\ Held(t) = {} /\ rest[t] = <<>>
    BY DEF Init, Abstract!Init, Abstract!Idle, Kind, Held
  <1>3. ASSUME NEW t \in Txs PROVE Busy(t) /\ Free(t) /\ InTurn(t)
    <2>1. Busy(t) /\ Free(t)
      BY <1>2 DEF Busy, Free
    <2>2. InTurn(t)
      BY <1>2, EmptySeq DEF InTurn, Ascending
    <2>3. QED
      BY <2>1, <2>2
  <1>4. QED
    BY <1>1, <1>3 DEF Inductive

THEOREM InductiveHolds == Spec => []Inductive
  BY InductiveInit, InductiveStep, PTL DEF Spec

-----------------------------------------------------------------------------
(* What follows *)

\* The tables and transactions keep their types.
THEOREM LocksTyped == Spec => []TypeOK
  <1>1. Inductive => TypeOK
    BY DEF Inductive
  <1>2. QED
    BY <1>1, InductiveHolds, PTL

\* Statement by statement, under locks that are taken one at a time, a batch is
\* written in one step or not at all.
THEOREM BatchesAreAtomic == Spec => CommitsAreAtomic
  <1>1. Init => Abstract!Init
    BY DEF Init, Abstract!Init
  <1>2. Inductive /\ [Next]_vars => [Abstract!Next]_<<table, batch>>
    <2> SUFFICES ASSUME Inductive, [Next]_vars
                 PROVE  [Abstract!Next]_<<table, batch>>
      OBVIOUS
    <2>1. CASE UNCHANGED vars
      BY <2>1 DEF vars
    <2>2. ASSUME NEW t \in Txs, Begin(t) PROVE Abstract!Next
      BY <2>2 DEF Begin, Abstract!Begin, Abstract!Next
    <2>3. ASSUME NEW t \in Txs, Write(t) \/ PassOver(t)
          PROVE  UNCHANGED <<table, batch>>
      BY <2>3 DEF Write, PassOver
    <2>4. ASSUME NEW t \in Txs, Commit(t) PROVE Abstract!Next
      <3>1. Abstract!Commit(t)
        BY <2>4, CommitFacts DEF Abstract!Commit, Commit, Kind
      <3>2. QED
        BY <3>1 DEF Abstract!Next
    <2>5. ASSUME NEW t \in Txs, batch[t].phase = "run", Abandon(t) PROVE Abstract!Next
      BY <2>5 DEF Abandon, Abstract!Abort, Abstract!Next
    <2>6. QED
      BY <2>1, <2>2, <2>3, <2>4, <2>5, StepCases, StuckRuns
  <1>3. QED
    BY <1>1, <1>2, InductiveHolds, PTL DEF Spec, CommitsAreAtomic, Abstract!Spec

\* In a circle of transactions that follow the work dates, the one that waits for
\* the earliest date holds a row before it, for which another one waits.
THEOREM SortedIsFree == Spec => []SortedNeverDeadlock
  <1>1. Inductive => SortedNeverDeadlock
    <2> SUFFICES ASSUME Inductive, NEW t \in Txs, Stuck(t),
                        \A u \in Txs : Stuck(u) => Kind(u) \in DateOrdered
                 PROVE  FALSE
      BY DEF SortedNeverDeadlock, CircleOutOfOrder
    <2>1. PICK circle \in SUBSET Txs :
              /\ t \in circle
              /\ \A u \in circle : /\ \E v \in circle : WaitsFor(u, v)
                                   /\ \E v \in circle : WaitsFor(v, u)
      BY DEF Stuck
    <2>2. \A u \in circle : Stuck(u) /\ Running(u)
      BY <2>1 DEF Stuck, WaitsFor
    <2>3. \A u \in circle : u \in Txs /\ Wanted(u) \in Nat
      BY <2>2, WantedFacts, EntriesAssumption DEF Inductive
    <2> DEFINE S == {Wanted(u) : u \in circle}
    <2>4. PICK n \in S : \A m \in S : n <= m
      <3>1. S \in SUBSET Nat /\ S # {}
        BY <2>1, <2>3
      <3>2. QED
        BY <3>1, SomeLeast
    <2>5. PICK u \in circle : n = Wanted(u)
      BY <2>4
    <2>6. PICK v \in circle : WaitsFor(v, u)
      BY <2>1
    <2>7. Wanted(v) \in Held(u)
      <3>1. Wanted(v) \in Entries /\ holder[Wanted(v)] = u
        BY <2>2, <2>3, <2>6, WantedFacts DEF Inductive, WaitsFor
      <3>2. QED
        BY <3>1 DEF Held
    <2>8. Wanted(u) \in Ahead(u)
      BY <2>2, <2>3, WantedFacts DEF Inductive
    <2>9. Wanted(v) < Wanted(u)
      BY <2>2, <2>3, <2>7, <2>8 DEF Inductive, InTurn
    <2>10. Wanted(u) <= Wanted(v)
      BY <2>4, <2>5, <2>6
    <2>11. QED
      BY <2>3, <2>9, <2>10
  <1>2. QED
    BY <1>1, InductiveHolds, PTL
=============================================================================
