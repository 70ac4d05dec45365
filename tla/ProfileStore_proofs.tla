------------------------ MODULE ProfileStore_proofs ------------------------
(***************************************************************************)
(* The profile store, for any number of currencies, transactions,          *)
(* retrainers, builds, rollbacks and faults and any thresholds: a retrain  *)
(* holds the customer's lock alone, no row is trusted past the fraud gate, *)
(* and the figures trust rests on never over-state.                        *)
(***************************************************************************)
EXTENDS ProfileStore, FiniteSetTheorems, TLAPS

\* A rollback of either kind: of one customer, or of the rows of a run.
Rollback == RollbackEntity \/ RollbackRun

-----------------------------------------------------------------------------
(* Type correctness.                                                       *)

\* The transactions of the model can be counted.
LEMMA TxnsFinite == IsFiniteSet(Txns)
<1>1. IsFiniteSet(1..TxnsPerCcy)
  BY FS_Interval, ProfileAssumption
<1>2. QED
  BY <1>1, FS_Product, ProfileAssumption DEF Txns

\* A set of transactions has a number of members, no less than its subsets.
LEMMA Counting ==
    ASSUME NEW T \in SUBSET Txns, NEW S \in SUBSET T
    PROVE  /\ Cardinality(T) \in Nat /\ Cardinality(S) \in Nat
           /\ Cardinality(S) <= Cardinality(T)
BY TxnsFinite, FS_Subset, FS_CardinalityType

\* A missing row is well-formed.
LEMMA NoRowType == NoRow \in Row
BY DEF NoRow, Row

\* An idle retrain is well-formed.
LEMMA IdleType == Idle \in Run
BY NoRowType DEF Idle, Run

\* What a retrain builds for a currency is a row.
LEMMA BuiltType ==
    ASSUME TypeOK, NEW r \in Retrainers, NEW c \in Ccys
    PROVE  Built(r, c) \in Row
<1> DEFINE mine == {t \in run[r].rows : CcyOf(t) = c}
           life == IF run[r].prev[c].life > 0 THEN run[r].prev[c].life
                                             ELSE Cardinality(mine)
<1>1. run[r] \in Run /\ run[r].prev[c] \in Row /\ now \in Nat
  BY DEF TypeOK, Run
<1>2. mine \in SUBSET Txns
  BY <1>1 DEF Run
<1>3. life \in Nat
  BY <1>1, <1>2, Counting DEF Row
<1>4. QED
  <2> HIDE DEF mine, life
  <2>1. /\ run[r].prev[c].version + 1 \in Nat
        /\ run[r].tenure \in Nat /\ run[r].fraud \in Nat
    BY <1>1 DEF Row, Run
  <2>2. QED
    BY <1>1, <1>2, <1>3, <2>1 DEF Built, Row, mine, life

\* A row restored from a snapshot is a row.
LEMMA RestoreType ==
    ASSUME NEW p \in Row, NEW snap \in Snapshot
    PROVE  RestoreRow(p, snap) \in Row
BY DEF RestoreRow, Row, Snapshot

\* Nothing is dated in the future, so the days between are never negative.
Dated ==
    /\ \A c \in Ccys : profile[c].last <= now
    /\ \A t \in Txns : made[t] <= now

\* Whole days are a natural number, no more than the time that passed.
LEMMA DaysType ==
    ASSUME NEW m \in Nat, NEW n \in Nat, m <= n
    PROVE  Days(n - m) \in Nat /\ m + 2 * Days(n - m) <= n
BY DEF Days

\* Every variable of the profile store keeps its type, and no date is ahead of
\* the clock.
LEMMA TypeStep == TypeOK /\ Dated /\ [Next]_vars => TypeOK' /\ Dated'
<1> SUFFICES ASSUME TypeOK, Dated, [Next]_vars PROVE TypeOK' /\ Dated'
  OBVIOUS
<1> USE DEF TypeOK
<1>1. ASSUME NEW r \in Retrainers, RetrainStep(r) PROVE TypeOK' /\ Dated'
  <2>0. run[r] \in Run
    OBVIOUS
  <2>1. CASE TakeLock(r)
    <3>1. Flagged \in SUBSET Txns
      BY DEF Flagged
    <3>2. QED
      BY <2>0, <2>1, <3>1 DEF TakeLock, store, Run, Dated
  <2>2. CASE ReadPrev(r)
    BY <2>0, <2>2 DEF ReadPrev, store, Run, Dated
  <2>3. CASE FetchClean(r)
    <3>1. Clean \in SUBSET Txns
      BY DEF Clean
    <3>2. QED
      BY <2>0, <2>3, <3>1 DEF FetchClean, store, Run, Dated
  <2>4. CASE CountFraud(r)
    <3>1. Cardinality(Flagged) \in Nat
      BY Counting DEF Flagged
    <3>2. QED
      BY <2>0, <2>4, <3>1 DEF CountFraud, store, Run, Dated
  <2>5. CASE ReadTenure(r)
    <3> DEFINE tenure(old, latest, first) ==
            IF profile[old].tenure > 0
            THEN profile[old].tenure + Days(now - profile[latest].last)
            ELSE Days(now - made[first])
    <3>1. PICK old \in Ccys, latest \in Ccys, first \in run[r].rows :
              run' = [run EXCEPT ![r].pc     = "save",
                                 ![r].tenure = tenure(old, latest, first)]
      BY <2>5 DEF ReadTenure
    <3>2. /\ profile[old] \in Row /\ profile[latest] \in Row
          /\ first \in Txns
      BY <2>0 DEF Run
    <3>3. /\ Days(now - profile[latest].last) \in Nat
          /\ Days(now - made[first]) \in Nat
      <4>1. /\ profile[latest].last \in Nat /\ made[first] \in Nat
            /\ profile[latest].last <= now /\ made[first] <= now
            /\ now \in Nat
        BY <3>2 DEF Dated, Row
      <4>2. QED
        BY <4>1, DaysType
    <3>4. tenure(old, latest, first) \in Nat
      <4>1. profile[old].tenure \in Nat
        BY <3>2 DEF Row
      <4>2. profile[old].tenure + Days(now - profile[latest].last) \in Nat
        BY <3>3, <4>1
      <4>3. QED
        BY <3>3, <4>2
    <3> HIDE DEF tenure
    <3>5. QED
      BY <2>0, <2>5, <3>1, <3>4 DEF ReadTenure, store, Run, Dated
  <2>6. CASE Save(r)
    <3> DEFINE built == {CcyOf(t) : t \in run[r].rows}
    <3>1. built \subseteq Ccys
      BY <2>0 DEF Run, Txns, CcyOf
    <3>2. \A c \in Ccys : Built(r, c) \in Row /\ Built(r, c).last = now
      BY BuiltType DEF Built
    <3>3. /\ profile' = [c \in Ccys |-> IF c \in built THEN Built(r, c)
                                                       ELSE profile[c]]
          /\ now' = now /\ made' = made
      BY <2>6 DEF Save
    <3>4. profile' \in [Ccys -> Row] /\ \A c \in Ccys : profile'[c].last <= now'
      <4> HIDE DEF built
      <4>1. QED
        BY <3>2, <3>3 DEF Dated
    <3>5. history' \in Seq(SUBSET Snapshot)
      <4>1. \A c \in Ccys : SnapshotOf(c, Built(r, c)) \in Snapshot
        BY <3>2 DEF SnapshotOf, Snapshot, Row
      <4>2. {SnapshotOf(c, Built(r, c)) : c \in built} \in SUBSET Snapshot
        BY <3>1, <4>1
      <4>3. QED
        BY <2>6, <4>2 DEF Save
    <3>6. evidence' \in [Ccys -> SUBSET Txns]
      BY <2>0, <2>6 DEF Save, Run
    <3>7. run' \in [Retrainers -> Run]
      BY <2>0, <2>6 DEF Save, Run
    <3>8. QED
      BY <2>6, <3>3, <3>4, <3>5, <3>6, <3>7 DEF Save, Dated
  <2>7. CASE Unlock(r)
    BY <2>7, IdleType DEF Unlock, store, Dated
  <2>8. CASE Fail(r)
    BY <2>8, IdleType DEF Fail, store, Dated
  <2>9. QED
    BY <1>1, <2>1, <2>2, <2>3, <2>4, <2>5, <2>6, <2>7, <2>8 DEF RetrainStep
<1>2. CASE Rollback
  <2>1. PICK snap \in Snapshots :
            profile' = [c \in Ccys |-> IF profile[c].version = 0
                                       THEN profile[c]
                                       ELSE RestoreRow(profile[c], snap)]
    BY <1>2 DEF Rollback, RollbackEntity, RollbackRun,
       RestoreAll
  <2>2. snap \in Snapshot
    BY DEF Snapshots, TypeOK
  <2>3. \A c \in Ccys : /\ RestoreRow(profile[c], snap) \in Row
                        /\ RestoreRow(profile[c], snap).last = profile[c].last
    BY <2>2, RestoreType DEF RestoreRow, Row
  <2>4. profile' \in [Ccys -> Row]
        /\ \A c \in Ccys : profile'[c].last = profile[c].last
    BY <2>1, <2>3
  <2>5. QED
    BY <1>2, <2>4 DEF Rollback, RollbackEntity, RollbackRun,
       RestoreAll, Dated
<1>3. ASSUME NEW t \in Txns, Arrive(t) \/ Flag(t) PROVE TypeOK' /\ Dated'
  <2>1. CASE Arrive(t)
    <3>1. Dated'
      BY <2>1 DEF Arrive, store, Dated
    <3>2. QED
      BY <2>1, <3>1 DEF Arrive, store
  <2>2. CASE Flag(t)
    BY <2>2 DEF Flag, store, Dated
  <2>3. QED
    BY <1>3, <2>1, <2>2
<1>4. CASE Tick
  BY <1>4 DEF Tick, store, Dated, Row
<1>5. CASE UNCHANGED vars
  BY <1>5 DEF vars, store, Dated
<1>6. QED
  BY <1>1, <1>2, <1>3, <1>4, <1>5 DEF Next, Rollback

\* The initial state is well-typed and nothing in it is dated ahead.
LEMMA TypeInit == Init => TypeOK /\ Dated
BY NoRowType, IdleType DEF Init, TypeOK, Dated, NoRow

\* Every variable of the profile store keeps its type: TypeOK.
THEOREM TypeCorrect == Spec => []TypeOK
<1>1. QED
  BY TypeInit, TypeStep, PTL DEF Spec

-----------------------------------------------------------------------------
(* Mutual exclusion.                                                       *)

\* Where a retrain's step takes it.
LEMMA RunMoves ==
    ASSUME TypeOK, NEW r \in Retrainers, RetrainStep(r)
    PROVE  /\ \A s \in Retrainers \ {r} : run'[s] = run[s]
           /\ \/ TakeLock(r) /\ run'[r].pc = "prev"
              \/ /\ run[r].pc # "idle" /\ run'[r].pc = "idle"
                 /\ lock' = NoRetrainer
              \/ /\ run[r].pc # "idle" /\ run'[r].pc # "idle"
                 /\ lock' = lock
<1> USE DEF TypeOK
<1>0. run[r] \in Run
  OBVIOUS
<1>1. CASE TakeLock(r)
  BY <1>0, <1>1 DEF TakeLock, Run
<1>2. CASE ReadPrev(r) \/ FetchClean(r) \/ CountFraud(r) \/ Save(r)
  BY <1>0, <1>2 DEF ReadPrev, FetchClean, CountFraud, Save, Run
<1>3. CASE ReadTenure(r)
  BY <1>0, <1>3 DEF ReadTenure, Run
<1>4. CASE Unlock(r) \/ Fail(r)
  BY <1>4 DEF Unlock, Fail, Idle
<1>5. QED
  BY <1>1, <1>2, <1>3, <1>4 DEF RetrainStep

\* No step of retrain_customer, a rollback or the cache breaks the lock.
LEMMA LockStep == TypeOK /\ LockHasOwner /\ [Next]_vars => LockHasOwner'
<1> SUFFICES ASSUME TypeOK, LockHasOwner, [Next]_vars PROVE LockHasOwner'
  OBVIOUS
<1>1. ASSUME NEW r \in Retrainers, RetrainStep(r) PROVE LockHasOwner'
  <2>1. CASE TakeLock(r) /\ run'[r].pc = "prev"
    <3>1. lock = NoRetrainer /\ lock' = r
      BY <2>1 DEF TakeLock
    <3>2. QED
      BY <1>1, <2>1, <3>1, RunMoves, ProfileAssumption DEF LockHasOwner
  <2>2. CASE run[r].pc # "idle" /\ run'[r].pc = "idle" /\ lock' = NoRetrainer
    BY <1>1, <2>2, RunMoves, ProfileAssumption DEF LockHasOwner
  <2>3. CASE run[r].pc # "idle" /\ run'[r].pc # "idle" /\ lock' = lock
    BY <1>1, <2>3, RunMoves DEF LockHasOwner
  <2>4. QED
    BY <1>1, <2>1, <2>2, <2>3, RunMoves
<1>2. CASE Rollback \/ Tick \/ (\E t \in Txns : Arrive(t) \/ Flag(t))
  BY <1>2 DEF Rollback, RollbackEntity, RollbackRun,
       RestoreAll, Tick, Arrive, Flag, LockHasOwner
<1>3. CASE UNCHANGED vars
  BY <1>3 DEF vars, LockHasOwner
<1>4. QED
  BY <1>1, <1>2, <1>3 DEF Next, Rollback

\* Whoever is retraining the customer holds the lock, and holds it alone.
THEOREM Exclusive == Spec => []LockHasOwner
<1>1. Init => LockHasOwner
  BY ProfileAssumption DEF Init, Idle, LockHasOwner
<1>2. QED
  BY <1>1, TypeInit, TypeStep, LockStep, PTL DEF Spec

-----------------------------------------------------------------------------
(* The fraud gate.                                                         *)

EverFlagged == {t \in Txns : cache[t] = "flagged"}
StillIn(T)  == {t \in T : InWindow(t)}

\* What was flagged before a build began is in the fraud count it wrote.
EvidenceCounted ==
    /\ \A c \in Ccys :
           /\ evidence[c] \subseteq EverFlagged
           /\ Cardinality(StillIn(evidence[c])) <= profile[c].fraud
    /\ \A r \in Retrainers :
           /\ run[r].before \subseteq EverFlagged
           /\ run[r].pc \in {"tenure", "save"}
                  => Cardinality(StillIn(run[r].before)) <= run[r].fraud

\* What is flagged stays flagged and leaves the window for good.
LEMMA FlagsAge ==
    ASSUME TypeOK, [Next]_vars
    PROVE  /\ EverFlagged \subseteq EverFlagged'
           /\ \A T \in SUBSET EverFlagged :
                  Cardinality(StillIn(T)') <= Cardinality(StillIn(T))
<1> USE DEF TypeOK
<1>1. /\ \A t \in EverFlagged : cache'[t] = "flagged" /\ made'[t] = made[t]
      /\ now' \in Nat /\ now <= now'
  <2>1. CASE \E t \in Txns : Arrive(t) \/ Flag(t)
    BY <2>1 DEF Arrive, Flag, EverFlagged
  <2>2. CASE Tick
    BY <2>2 DEF Tick, EverFlagged
  <2>3. CASE UNCHANGED <<now, cache, made>>
    BY <2>3 DEF EverFlagged
  <2>4. ASSUME NEW r \in Retrainers, RetrainStep(r)
        PROVE  UNCHANGED <<now, cache, made>>
    BY <2>4 DEF RetrainStep, TakeLock, ReadPrev, FetchClean, CountFraud,
                ReadTenure, Save, Unlock, Fail
  <2>5. CASE Rollback \/ UNCHANGED vars
    BY <2>3, <2>5 DEF Rollback, RollbackEntity, RollbackRun,
       RestoreAll, vars
  <2>6. QED
    BY <2>1, <2>2, <2>3, <2>4, <2>5 DEF Next, Rollback
<1>2. EverFlagged \subseteq EverFlagged'
  BY <1>1 DEF EverFlagged
<1>3. ASSUME NEW T \in SUBSET EverFlagged
      PROVE  Cardinality(StillIn(T)') <= Cardinality(StillIn(T))
  <2>1. \A t \in T : /\ t \in Txns /\ made[t] \in Nat /\ made'[t] = made[t]
                     /\ Window \in Nat
    BY <1>1, ProfileAssumption DEF EverFlagged
  <2>2. {t \in T : now' < made'[t] + Window} \subseteq {t \in T : now < made[t] + Window}
    BY <1>1, <2>1
  <2>3. {t \in T : now < made[t] + Window} \in SUBSET Txns
    BY <2>1
  <2>4. QED
    BY <2>2, <2>3, Counting DEF StillIn, InWindow
<1>4. QED
  BY <1>2, <1>3

\* A count of flagged transactions is an upper bound from then on.
LEMMA CountHolds ==
    ASSUME TypeOK, [Next]_vars, NEW T \in SUBSET EverFlagged, NEW n \in Nat,
           Cardinality(StillIn(T)) <= n
    PROVE  T \subseteq EverFlagged' /\ Cardinality(StillIn(T)') <= n
<1>1. T \in SUBSET Txns /\ StillIn(T) \in SUBSET Txns /\ StillIn(T)' \in SUBSET Txns
  BY DEF EverFlagged, StillIn
<1>2. Cardinality(StillIn(T)) \in Nat /\ Cardinality(StillIn(T)') \in Nat
  BY <1>1, Counting
<1>3. QED
  BY <1>2, FlagsAge

\* No step lets a row look trusted past what had been flagged.
LEMMA EvidenceStep ==
    ASSUME TypeOK, EvidenceCounted, [Next]_vars
    PROVE  EvidenceCounted'
<1> USE DEF TypeOK
<1> DEFINE RowKept(c) == /\ evidence[c] \subseteq EverFlagged
                         /\ Cardinality(StillIn(evidence[c])) <= profile[c].fraud
           RunKept(r) == /\ run[r].before \subseteq EverFlagged
                         /\ run[r].pc \in {"tenure", "save"}
                            => Cardinality(StillIn(run[r].before)) <= run[r].fraud
<1>1. ASSUME NEW c \in Ccys, evidence'[c] = evidence[c],
             profile'[c].fraud = profile[c].fraud
      PROVE  RowKept(c)'
  <2>1. RowKept(c) /\ profile[c].fraud \in Nat
    BY DEF EvidenceCounted, Row
  <2>2. QED
    BY <1>1, <2>1, CountHolds DEF StillIn
<1>2. ASSUME NEW r \in Retrainers, run'[r].before = run[r].before,
             run'[r].pc \in {"tenure", "save"}
                => run[r].pc \in {"tenure", "save"} /\ run'[r].fraud = run[r].fraud
      PROVE  RunKept(r)'
  <2>1. RunKept(r) /\ run[r].fraud \in Nat
    BY DEF EvidenceCounted, Run
  <2>2. run[r].before \subseteq EverFlagged'
    BY <2>1, FlagsAge
  <2>3. QED
    BY <1>2, <2>1, <2>2, CountHolds DEF StillIn
<1>3. ASSUME NEW r \in Retrainers, RetrainStep(r)
      PROVE  (\A c \in Ccys : RowKept(c)') /\ RunKept(r)'
  <2>0. run[r] \in Run /\ now' = now /\ made' = made /\ cache' = cache
    BY <1>3 DEF RetrainStep, TakeLock, ReadPrev, FetchClean, CountFraud,
                ReadTenure, Save, Unlock, Fail
  <2>1. CASE Save(r)
    <3>1. RunKept(r)'
      <4>1. run'[r].before = run[r].before /\ run'[r].pc = "unlock"
        BY <2>0, <2>1 DEF Save, Run
      <4>2. QED
        BY <1>2, <4>1
    <3>2. ASSUME NEW c \in Ccys PROVE RowKept(c)'
      <4>1. CASE evidence'[c] = evidence[c] /\ profile'[c] = profile[c]
        BY <1>1, <4>1
      <4>2. CASE evidence'[c] = run[r].before /\ profile'[c] = Built(r, c)
        <5>1. RunKept(r) /\ run[r].pc = "save" /\ run[r].fraud \in Nat
          BY <2>0, <2>1 DEF EvidenceCounted, Save, Run
        <5>2. profile'[c].fraud = run[r].fraud
          BY <4>2 DEF Built
        <5>3. QED
          BY <4>2, <5>1, <5>2, CountHolds DEF StillIn
      <4>3. QED
        BY <2>1, <4>1, <4>2 DEF Save
    <3>3. QED
      BY <3>1, <3>2
  <2>2. CASE ~Save(r)
    <3>1. UNCHANGED <<profile, evidence>>
      BY <1>3, <2>2 DEF RetrainStep, TakeLock, ReadPrev, FetchClean,
         CountFraud, ReadTenure, Unlock, Fail, store
    <3>2. \A c \in Ccys : RowKept(c)'
      BY <1>1, <3>1
    <3>3. RunKept(r)'
      <4>1. CASE TakeLock(r)
        <5>1. run'[r].before = Flagged /\ run'[r].pc = "prev"
          BY <2>0, <4>1 DEF TakeLock, Run
        <5>2. QED
          BY <2>0, <5>1 DEF EverFlagged, Flagged
      <4>2. CASE CountFraud(r)
        <5>1. /\ run'[r].before = run[r].before
              /\ run'[r].fraud = Cardinality(Flagged)
          BY <2>0, <4>2 DEF CountFraud, Run
        <5>2. run[r].before \subseteq EverFlagged
          BY DEF EvidenceCounted
        <5>3. StillIn(run[r].before) \in SUBSET Flagged /\ Flagged \in SUBSET Txns
          BY <5>2 DEF StillIn, Flagged, EverFlagged
        <5>4. Cardinality(StillIn(run[r].before)) <= Cardinality(Flagged)
          BY <5>3, Counting
        <5>5. QED
          BY <2>0, <5>1, <5>2, <5>4 DEF StillIn, InWindow, EverFlagged
      <4>3. CASE Unlock(r) \/ Fail(r)
        <5>1. run'[r].before = {} /\ run'[r].pc = "idle"
          BY <4>3 DEF Unlock, Fail, Idle
        <5>2. QED
          BY <5>1
      <4>4. CASE ReadPrev(r) \/ FetchClean(r)
        <5>1. /\ run'[r].before = run[r].before
              /\ run'[r].pc \notin {"tenure", "save"}
          BY <2>0, <4>4 DEF ReadPrev, FetchClean, Run
        <5>2. QED
          BY <1>2, <5>1
      <4>5. CASE ReadTenure(r)
        <5>1. /\ run'[r].before = run[r].before /\ run[r].pc = "tenure"
              /\ run'[r].fraud = run[r].fraud
          BY <2>0, <4>5 DEF ReadTenure, Run
        <5>2. QED
          BY <1>2, <5>1
      <4>6. QED
        BY <1>3, <2>2, <4>1, <4>2, <4>3, <4>4, <4>5 DEF RetrainStep
    <3>4. QED
      BY <3>2, <3>3
  <2>3. QED
    BY <2>1, <2>2
<1>4. ASSUME NEW r \in Retrainers, RetrainStep(r) PROVE EvidenceCounted'
  <2>1. \A s \in Retrainers \ {r} : run'[s] = run[s]
    BY <1>4, RunMoves
  <2>2. \A s \in Retrainers \ {r} : RunKept(s)'
    BY <1>2, <2>1
  <2> HIDE DEF RowKept, RunKept
  <2>3. \A c \in Ccys : RowKept(c)'
    BY <1>3, <1>4
  <2>4. \A s \in Retrainers : RunKept(s)'
    BY <1>3, <1>4, <2>2
  <2>5. QED
    BY <2>3, <2>4 DEF EvidenceCounted, RowKept, RunKept
<1>5. CASE Rollback \/ Tick \/ (\E t \in Txns : Arrive(t) \/ Flag(t))
           \/ UNCHANGED vars
  <2>1. /\ run' = run /\ evidence' = evidence
        /\ \A c \in Ccys : profile'[c].fraud = profile[c].fraud
    <3>1. CASE Rollback
      <4>1. \A c \in Ccys : \A snap :
                RestoreRow(profile[c], snap).fraud = profile[c].fraud
        BY DEF RestoreRow, Row
      <4>2. \A c \in Ccys : profile'[c].fraud = profile[c].fraud
        BY <3>1, <4>1 DEF Rollback, RollbackEntity, RollbackRun,
       RestoreAll
      <4>3. QED
        BY <3>1, <4>2 DEF Rollback, RollbackEntity, RollbackRun,
       RestoreAll
    <3>2. CASE ~Rollback
      BY <1>5, <3>2 DEF Tick, Arrive, Flag, vars, store
    <3>3. QED
      BY <3>1, <3>2
  <2>2. (\A c \in Ccys : RowKept(c)') /\ (\A r \in Retrainers : RunKept(r)')
    BY <1>1, <1>2, <2>1
  <2>3. QED
    BY <2>2 DEF EvidenceCounted
<1>6. QED
  BY <1>4, <1>5 DEF Next, Rollback

\* No row is trusted whose last build began after more flags than the gate
\* allows had been raised on transactions still in the window, whatever
\* flipped between the build's reads and whatever was rolled back since.
THEOREM CleanTrust == Spec => []TrustIsClean
<1>1. Init => EvidenceCounted
  <2> SUFFICES ASSUME Init PROVE EvidenceCounted
    OBVIOUS
  <2>1. StillIn({}) = {} /\ Cardinality({}) = 0
    BY FS_EmptySet DEF StillIn
  <2>2. \A c \in Ccys : evidence[c] = {} /\ profile[c].fraud = 0
    BY DEF Init, NoRow
  <2>3. \A r \in Retrainers : run[r].before = {} /\ run[r].pc = "idle"
    BY DEF Init, Idle
  <2>4. \A c \in Ccys : Cardinality(StillIn(evidence[c])) <= profile[c].fraud
    BY <2>1, <2>2
  <2>5. QED
    BY <2>2, <2>3, <2>4 DEF EvidenceCounted
<1>2. TypeOK /\ EvidenceCounted => TrustIsClean
  <2> SUFFICES ASSUME TypeOK, EvidenceCounted, NEW c \in Ccys, Trusted(profile[c])
               PROVE  Cardinality({t \in evidence[c] : InWindow(t)}) <= MaxFraud
    BY DEF TrustIsClean
  <2>1. profile[c].fraud \in Nat /\ profile[c].fraud <= MaxFraud /\ MaxFraud \in Nat
    BY ProfileAssumption DEF TypeOK, Row, Trusted, Eligible
  <2>2. StillIn(evidence[c]) \in SUBSET Txns
    BY DEF TypeOK, StillIn
  <2>3. Cardinality(StillIn(evidence[c])) \in Nat
    BY <2>2, Counting
  <2>4. QED
    BY <2>1, <2>3 DEF EvidenceCounted, StillIn
<1>3. QED
  BY <1>1, <1>2, TypeInit, TypeStep, EvidenceStep, PTL DEF Spec

-----------------------------------------------------------------------------
(* Tenure and the lifetime count.                                          *)

\* At time at, some transaction was d days old.
Earned(d, at) == \E t \in Seen : at >= made[t] + 2 * d

\* The same at the time of some currency's latest build.
EarnedAtBuild(d) == \E b \in Ccys : Earned(d, profile[b].last)

CountIn(c) == Cardinality({t \in Seen : CcyOf(t) = c})

\* Rows, snapshots and runs carry only figures that were earned.
RowEarned(p, c) == /\ p.version = 0 => p.tenure = 0
                   /\ p.version > 0 => EarnedAtBuild(p.tenure)
                   /\ p.life <= CountIn(c)

SnapshotEarned(snap) == snap.version > 0 /\ EarnedAtBuild(snap.tenure)

RunEarned(x) == /\ x.rows \subseteq Seen
                /\ x.pc = "save" => Earned(x.tenure, now)
                /\ \A c \in Ccys : x.prev[c].life <= CountIn(c)

FiguresInv ==
    /\ \A c \in Ccys : RowEarned(profile[c], c)
    /\ \A i \in 1..Len(history) : \A snap \in history[i] : SnapshotEarned(snap)
    /\ \A r \in Retrainers : RunEarned(run[r])

\* What has been cached stays known with its date, and no build date goes back.
LEMMA Later ==
    ASSUME TypeOK, Dated, [Next]_vars
    PROVE  /\ now <= now'
           /\ \A t \in Seen : t \in Seen' /\ made'[t] = made[t]
           /\ \A b \in Ccys : profile[b].last <= profile'[b].last
<1> USE DEF TypeOK
<1>0. \A b \in Ccys : profile[b] \in Row /\ profile[b].last \in Nat
  BY DEF Row
<1>1. ASSUME NEW t \in Txns, Arrive(t) \/ Flag(t)
      PROVE  /\ now = now' /\ profile' = profile
             /\ \A u \in Seen : u \in Seen' /\ made'[u] = made[u]
  BY <1>1 DEF Arrive, Flag, Seen, store
<1>2. CASE Tick
  BY <1>0, <1>2 DEF Tick, Seen, store
<1>3. CASE Rollback
  <2>1. \A c \in Ccys : \A snap : RestoreRow(profile[c], snap).last = profile[c].last
    BY DEF RestoreRow, Row
  <2>2. \A c \in Ccys : profile'[c].last = profile[c].last
    BY <1>3, <2>1 DEF Rollback, RollbackEntity, RollbackRun,
       RestoreAll
  <2>3. QED
    BY <1>0, <1>3, <2>2 DEF Rollback, RollbackEntity, RollbackRun,
       RestoreAll, Seen
<1>4. ASSUME NEW r \in Retrainers, Save(r)
      PROVE  /\ UNCHANGED <<now, cache, made>>
             /\ \A b \in Ccys : profile[b].last <= profile'[b].last
  <2>1. \A c \in Ccys : Built(r, c).last = now
    BY DEF Built
  <2>2. QED
    BY <1>0, <1>4, <2>1 DEF Save, Dated
<1>5. ASSUME NEW r \in Retrainers, RetrainStep(r), ~Save(r)
      PROVE  UNCHANGED <<now, cache, made, profile>>
  BY <1>5 DEF RetrainStep, TakeLock, ReadPrev, FetchClean, CountFraud,
              ReadTenure, Unlock, Fail, store
<1>6. CASE UNCHANGED vars
  BY <1>0, <1>6 DEF vars, store, Seen
<1>7. QED
  BY <1>0, <1>1, <1>2, <1>3, <1>4, <1>5, <1>6 DEF Next, Rollback, Seen

\* A tenure earned at some build stays earned after any step.
LEMMA EarnedAtBuildStays ==
    ASSUME TypeOK, Dated, TypeOK', [Next]_vars, NEW d \in Nat, EarnedAtBuild(d)
    PROVE  EarnedAtBuild(d)'
<1>1. PICK b \in Ccys : Earned(d, profile[b].last)
  BY DEF EarnedAtBuild
<1>2. profile[b].last \in Nat /\ profile'[b].last \in Nat
  BY DEF TypeOK, Row
<1>3. profile[b].last <= profile'[b].last
  BY Later
<1>4. PICK t \in Seen : profile[b].last >= made[t] + 2 * d
  BY <1>1 DEF Earned
<1>5. t \in Seen' /\ made'[t] = made[t] /\ made[t] \in Nat
  BY Later DEF TypeOK, Seen
<1>6. profile'[b].last >= made'[t] + 2 * d
  BY <1>2, <1>3, <1>4, <1>5
<1>7. QED
  BY <1>5, <1>6 DEF EarnedAtBuild, Earned

\* The transactions seen in a currency only grow in number.
LEMMA CountGrows ==
    ASSUME TypeOK, Dated, [Next]_vars, NEW c \in Ccys
    PROVE  CountIn(c) \in Nat /\ CountIn(c)' \in Nat /\ CountIn(c) <= CountIn(c)'
<1> DEFINE was == {t \in Seen : CcyOf(t) = c}
           is  == {t \in Seen' : CcyOf(t) = c}
<1>1. is \in SUBSET Txns /\ was \in SUBSET is
  BY Later DEF Seen
<1>2. Cardinality(is) \in Nat /\ Cardinality(was) \in Nat
      /\ Cardinality(was) <= Cardinality(is)
  BY <1>1, Counting
<1>3. QED
  BY <1>2 DEF CountIn

\* What holds of an unchanged row, snapshot or run still holds of it.
LEMMA StillEarned ==
    ASSUME TypeOK, Dated, TypeOK', [Next]_vars
    PROVE  /\ \A c \in Ccys, p \in Row : RowEarned(p, c) => RowEarned(p, c)'
           /\ \A snap \in Snapshot : SnapshotEarned(snap) => SnapshotEarned(snap)'
           /\ \A x \in Run : RunEarned(x) => RunEarned(x)'
<1>1. ASSUME NEW c \in Ccys, NEW p \in Row, RowEarned(p, c)
      PROVE  RowEarned(p, c)'
  <2>1. p.tenure \in Nat /\ p.life \in Nat
    BY DEF Row
  <2>2. p.life <= CountIn(c)'
    BY <1>1, <2>1, CountGrows DEF RowEarned
  <2>3. QED
    BY <1>1, <2>1, <2>2, EarnedAtBuildStays DEF RowEarned
<1>2. ASSUME NEW snap \in Snapshot, SnapshotEarned(snap)
      PROVE  SnapshotEarned(snap)'
  BY <1>2, EarnedAtBuildStays DEF SnapshotEarned, Snapshot
<1>3. ASSUME NEW x \in Run, RunEarned(x) PROVE RunEarned(x)'
  <2>1. x.tenure \in Nat /\ now \in Nat /\ now' \in Nat /\ now <= now'
    BY Later DEF Run, TypeOK
  <2>2. ASSUME x.pc = "save"
        PROVE  \E t \in Seen' : now' >= made'[t] + 2 * x.tenure
    <3>1. PICK t \in Seen : now >= made[t] + 2 * x.tenure
      BY <1>3, <2>2 DEF RunEarned, Earned
    <3>2. t \in Seen' /\ made'[t] = made[t] /\ made[t] \in Nat
      BY Later DEF TypeOK, Seen
    <3>3. QED
      BY <2>1, <3>1, <3>2
  <2>3. \A c \in Ccys : x.prev[c].life \in Nat
    BY DEF Run, Row
  <2>4. \A c \in Ccys : x.prev[c].life <= CountIn(c)'
    BY <1>3, <2>3, CountGrows DEF RunEarned
  <2>5. x.rows \subseteq Seen'
    BY <1>3, Later DEF RunEarned
  <2>6. QED
    BY <2>2, <2>4, <2>5 DEF RunEarned, Earned
<1>4. QED
  BY <1>1, <1>2, <1>3

\* The tenure a retrain reads was earned by now.
LEMMA TenureEarned ==
    ASSUME TypeOK, Dated, FiguresInv, NEW r \in Retrainers, ReadTenure(r)
    PROVE  Earned(run'[r].tenure, now)
<1> USE DEF TypeOK
<1> DEFINE tenure(old, latest, first) ==
        IF profile[old].tenure > 0
        THEN profile[old].tenure + Days(now - profile[latest].last)
        ELSE Days(now - made[first])
<1>1. PICK old \in Ccys, latest \in Ccys, first \in run[r].rows :
          /\ \A c \in Ccys : profile[c].last <= profile[latest].last
          /\ run' = [run EXCEPT ![r].pc     = "save",
                              ![r].tenure = tenure(old, latest, first)]
  BY DEF ReadTenure
<1>2. run'[r].tenure = tenure(old, latest, first)
  <2>1. run[r] \in Run
    OBVIOUS
  <2> HIDE DEF tenure
  <2>2. QED
    BY <1>1, <2>1 DEF Run
<1>3. /\ profile[old] \in Row /\ profile[latest] \in Row
      /\ profile[old].tenure \in Nat /\ profile[latest].last \in Nat
      /\ profile[latest].last <= now /\ now \in Nat
  BY DEF Row, Dated
<1>4. CASE profile[old].tenure > 0
  <2>1. PICK b \in Ccys : Earned(profile[old].tenure, profile[b].last)
    <3>1. RowEarned(profile[old], old) /\ profile[old].version \in Nat
      BY <1>3 DEF FiguresInv, Row
    <3>2. profile[old].version > 0
      BY <1>3, <1>4, <3>1 DEF RowEarned
    <3>3. QED
      BY <3>1, <3>2 DEF RowEarned, EarnedAtBuild
  <2>2. PICK t \in Seen : profile[b].last >= made[t] + 2 * profile[old].tenure
    BY <2>1 DEF Earned
  <2>3. /\ made[t] \in Nat /\ profile[b].last \in Nat
        /\ profile[b].last <= profile[latest].last
    BY <1>1 DEF Seen, Row
  <2> DEFINE days == Days(now - profile[latest].last)
  <2>4. days \in Nat /\ profile[latest].last + 2 * days <= now
    BY <1>3, DaysType
  <2>5. now >= made[t] + 2 * (profile[old].tenure + days)
    <3> HIDE DEF days
    <3>1. \A m, l, k, u, d, n \in Nat :
              l >= m + 2 * u /\ l <= k /\ k + 2 * d <= n => n >= m + 2 * (u + d)
      OBVIOUS
    <3>2. QED
      BY <1>3, <2>2, <2>3, <2>4, <3>1
  <2>6. QED
    BY <1>2, <1>4, <2>5 DEF Earned
<1>5. CASE ~(profile[old].tenure > 0)
  <2>1. first \in Seen /\ first \in Txns
    BY DEF FiguresInv, RunEarned, Seen
  <2>2. made[first] \in Nat /\ made[first] <= now
    BY <2>1 DEF Dated
  <2>3. now >= made[first] + 2 * Days(now - made[first])
    BY <1>3, <2>2, DaysType
  <2>4. QED
    BY <1>2, <1>5, <2>1, <2>3 DEF Earned
<1>6. QED
  BY <1>4, <1>5

\* No step makes a row, a snapshot or a run claim more than was earned.
LEMMA FiguresStep ==
    ASSUME TypeOK, Dated, TypeOK', FiguresInv, [Next]_vars
    PROVE  FiguresInv'
<1> USE DEF TypeOK
<1> DEFINE NextBuild(d) == \E b \in Ccys : \E t \in Seen' :
                               profile'[b].last >= made'[t] + 2 * d
           NextCount(c) == Cardinality({t \in Seen' : CcyOf(t) = c})
           NextRow(p, c) == /\ p.version = 0 => p.tenure = 0
                            /\ p.version > 0 => NextBuild(p.tenure)
                            /\ p.life <= NextCount(c)
           NextSnap(snap) == snap.version > 0 /\ NextBuild(snap.tenure)
           NextRun(x) == /\ x.rows \subseteq Seen'
                         /\ x.pc = "save" => \E t \in Seen' :
                                                now' >= made'[t] + 2 * x.tenure
                         /\ \A c \in Ccys : x.prev[c].life <= NextCount(c)
<1>1. /\ \A c \in Ccys, p \in Row : RowEarned(p, c) => NextRow(p, c)
      /\ \A snap \in Snapshot : SnapshotEarned(snap) => NextSnap(snap)
      /\ \A x \in Run : RunEarned(x) => NextRun(x)
  BY StillEarned DEF RowEarned, SnapshotEarned, RunEarned, EarnedAtBuild,
     Earned, CountIn
<1>2. /\ \A c \in Ccys : NextRow(profile[c], c)
      /\ \A i \in 1..Len(history) : \A snap \in history[i] : NextSnap(snap)
      /\ \A r \in Retrainers : NextRun(run[r])
  <2>1. \A c \in Ccys : NextRow(profile[c], c)
    BY <1>1 DEF FiguresInv
  <2>2. \A i \in 1..Len(history) : \A snap \in history[i] : NextSnap(snap)
    <3>1. \A i \in 1..Len(history) : history[i] \in SUBSET Snapshot
      OBVIOUS
    <3> HIDE DEF NextSnap
    <3>2. QED
      BY <1>1, <3>1 DEF FiguresInv
  <2>3. \A r \in Retrainers : NextRun(run[r])
    BY <1>1 DEF FiguresInv
  <2>4. QED
    BY <2>1, <2>2, <2>3
<1>3. ASSUME \A c \in Ccys : NextRow(profile'[c], c),
             \A i \in 1..Len(history') : \A snap \in history'[i] : NextSnap(snap),
             \A r \in Retrainers : NextRun(run'[r])
      PROVE  FiguresInv'
  BY <1>3 DEF FiguresInv, RowEarned, SnapshotEarned, RunEarned, EarnedAtBuild,
              Earned, CountIn
<1>4. \A c \in Ccys : /\ NextCount(c) \in Nat
                      /\ \A T \in SUBSET Seen' :
                             /\ Cardinality({t \in T : CcyOf(t) = c}) \in Nat
                             /\ Cardinality({t \in T : CcyOf(t) = c}) <= NextCount(c)
  <2> SUFFICES ASSUME NEW c \in Ccys, NEW T \in SUBSET Seen'
               PROVE  /\ NextCount(c) \in Nat
                      /\ Cardinality({t \in T : CcyOf(t) = c}) \in Nat
                      /\ Cardinality({t \in T : CcyOf(t) = c}) <= NextCount(c)
    OBVIOUS
  <2> DEFINE all == {t \in Seen' : CcyOf(t) = c}
  <2>1. all \in SUBSET Txns /\ {t \in T : CcyOf(t) = c} \in SUBSET all
    BY DEF Seen
  <2>2. QED
    BY <2>1, Counting
<1> HIDE DEF NextRow, NextSnap, NextRun
<1>5. ASSUME NEW r \in Retrainers, RetrainStep(r), ~Save(r)
      PROVE  FiguresInv'
  <2>1. UNCHANGED <<profile, history>> /\ UNCHANGED <<now, cache, made>>
    BY <1>5 DEF RetrainStep, TakeLock, ReadPrev, FetchClean, CountFraud,
                ReadTenure, Unlock, Fail, store
  <2>2. run[r] \in Run
    OBVIOUS
  <2>3. NextRun(run'[r])
    <3>0. NextRun(run[r])
      BY <1>2
    <3>1. CASE TakeLock(r) \/ CountFraud(r)
      <4>1. /\ run'[r].rows = run[r].rows /\ run'[r].pc # "save"
            /\ run'[r].prev = run[r].prev
        BY <2>2, <3>1 DEF TakeLock, CountFraud, Run
      <4>2. QED
        BY <3>0, <4>1 DEF NextRun
    <3>2. CASE ReadPrev(r)
      <4>1. /\ run'[r].rows = run[r].rows /\ run'[r].pc # "save"
            /\ run'[r].prev = profile
        BY <2>2, <3>2 DEF ReadPrev, Run
      <4>2. \A c \in Ccys : profile[c].life <= NextCount(c)
        BY <1>2 DEF NextRow
      <4>3. QED
        BY <3>0, <4>1, <4>2 DEF NextRun
    <3>3. CASE FetchClean(r)
      <4>1. /\ run'[r].rows = Clean /\ run'[r].pc # "save"
            /\ run'[r].prev = run[r].prev
        BY <2>2, <3>3 DEF FetchClean, Run
      <4>2. Clean \subseteq Seen'
        BY <2>1 DEF Clean, Seen
      <4>3. QED
        BY <3>0, <4>1, <4>2 DEF NextRun
    <3>4. CASE ReadTenure(r)
      <4>1. /\ run'[r].rows = run[r].rows /\ run'[r].prev = run[r].prev
        BY <2>2, <3>4 DEF ReadTenure, Run
      <4>2. Earned(run'[r].tenure, now)
        BY <3>4, TenureEarned
      <4>3. \E t \in Seen' : now' >= made'[t] + 2 * run'[r].tenure
        BY <2>1, <4>2 DEF Earned, Seen
      <4>4. QED
        BY <3>0, <4>1, <4>3 DEF NextRun
    <3>5. CASE Unlock(r) \/ Fail(r)
      <4>1. run'[r] = Idle
        BY <3>5 DEF Unlock, Fail
      <4>2. Idle.rows = {} /\ Idle.pc = "idle" /\ \A c \in Ccys : Idle.prev[c].life = 0
        BY DEF Idle, NoRow
      <4>3. \A c \in Ccys : 0 <= NextCount(c)
        BY <1>4
      <4> HIDE DEF NextCount
      <4>4. QED
        BY <4>1, <4>2, <4>3 DEF NextRun
    <3>6. QED
      BY <1>5, <3>1, <3>2, <3>3, <3>4, <3>5 DEF RetrainStep
  <2>4. \A s \in Retrainers \ {r} : run'[s] = run[s]
    BY <1>5, RunMoves
  <2>5. \A s \in Retrainers : NextRun(run'[s])
    BY <1>2, <2>3, <2>4
  <2>6. QED
    BY <1>2, <1>3, <2>1, <2>5
<1>6. ASSUME NEW r \in Retrainers, Save(r) PROVE FiguresInv'
  <2> DEFINE built == {CcyOf(t) : t \in run[r].rows}
  <2>0. /\ run[r] \in Run /\ run[r].pc = "save"
        /\ UNCHANGED <<now, cache, made>> /\ run[r].rows \subseteq Seen'
    BY <1>6, <1>2 DEF Save, NextRun
  <2>1. built \subseteq Ccys
    <3>1. run[r].rows \subseteq Txns
      BY <2>0 DEF Run
    <3>2. \A t \in Txns : CcyOf(t) \in Ccys
      BY DEF Txns, CcyOf
    <3>3. QED
      BY <3>1, <3>2
  <2>2. ASSUME NEW c \in built
        PROVE  /\ c \in Ccys /\ Built(r, c).version > 0 /\ profile'[c] = Built(r, c)
               /\ Built(r, c).tenure = run[r].tenure
               /\ NextBuild(run[r].tenure)
    <3>1. c \in Ccys
      BY <2>1
    <3>2. profile'[c] = Built(r, c)
      BY <1>6, <3>1 DEF Save
    <3>3. /\ Built(r, c).last = now' /\ Built(r, c).tenure = run[r].tenure
          /\ Built(r, c).version = run[r].prev[c].version + 1
      BY <2>0 DEF Built
    <3>4. Built(r, c).version > 0
      <4>1. run[r].prev[c] \in Row
        BY <2>0, <3>1 DEF Run
      <4>2. run[r].prev[c].version \in Nat
        BY <4>1 DEF Row
      <4>3. QED
        BY <3>3, <4>2
    <3>5. \E t \in Seen' : now' >= made'[t] + 2 * run[r].tenure
      BY <1>2, <2>0 DEF NextRun
    <3>6. QED
      BY <3>1, <3>2, <3>3, <3>4, <3>5
  <2>3. \A c \in built : Built(r, c).life <= NextCount(c)
    <3> SUFFICES ASSUME NEW c \in built PROVE Built(r, c).life <= NextCount(c)
      OBVIOUS
    <3>1. /\ run[r].prev[c].life <= NextCount(c)
          /\ Cardinality({t \in run[r].rows : CcyOf(t) = c}) <= NextCount(c)
      BY <1>2, <1>4, <2>0, <2>2 DEF NextRun
    <3> HIDE DEF NextCount
    <3>2. QED
      BY <3>1 DEF Built
  <2>4. ASSUME NEW c \in Ccys PROVE NextRow(profile'[c], c)
    <3>1. CASE c \in built
      <4>1. /\ profile'[c].tenure = run[r].tenure /\ profile'[c].version > 0
            /\ profile'[c].life <= NextCount(c) /\ NextBuild(run[r].tenure)
        BY <2>2, <2>3, <3>1
      <4>2. profile'[c].version # 0
        BY <4>1
      <4> HIDE DEF NextBuild, NextCount
      <4>3. QED
        BY <4>1, <4>2 DEF NextRow
    <3>2. CASE c \notin built
      BY <1>2, <1>6, <3>2 DEF Save
    <3>3. QED
      BY <3>1, <3>2
  <2>5. ASSUME NEW i \in 1..Len(history'), NEW snap \in history'[i]
        PROVE  NextSnap(snap)
    <3>1. CASE i \in 1..Len(history) /\ history'[i] = history[i]
      BY <1>2, <3>1, <2>5
    <3>2. CASE history'[i] = {SnapshotOf(c, Built(r, c)) : c \in built}
      <4>1. PICK c \in built : snap = SnapshotOf(c, Built(r, c))
        BY <2>5, <3>2
      <4>2. snap.version = Built(r, c).version /\ snap.tenure = Built(r, c).tenure
        BY <4>1 DEF SnapshotOf
      <4>3. QED
        BY <2>2, <4>2 DEF NextSnap
    <3>3. history' = Append(history, {SnapshotOf(c, Built(r, c)) : c \in built})
      BY <1>6 DEF Save
    <3>4. QED
      BY <3>1, <3>2, <3>3
  <2>6. ASSUME NEW s \in Retrainers PROVE NextRun(run'[s])
    <3>1. CASE s = r
      <4>1. /\ run'[r].rows = run[r].rows /\ run'[r].pc = "unlock"
            /\ run'[r].prev = run[r].prev
        BY <1>6, <2>0 DEF Save, Run
      <4>2. QED
        BY <1>2, <3>1, <4>1 DEF NextRun
    <3>2. CASE s # r
      BY <1>2, <1>6, <3>2 DEF Save
    <3>3. QED
      BY <3>1, <3>2
  <2>7. QED
    BY <1>3, <2>4, <2>5, <2>6
<1>7. CASE Rollback
  <2>1. PICK snap \in Snapshots :
            profile' = [c \in Ccys |-> IF profile[c].version = 0
                                       THEN profile[c]
                                       ELSE RestoreRow(profile[c], snap)]
    BY <1>7 DEF Rollback, RollbackEntity, RollbackRun,
       RestoreAll
  <2>2. snap \in Snapshot /\ NextSnap(snap)
    BY <1>2 DEF Snapshots
  <2>3. ASSUME NEW c \in Ccys PROVE NextRow(profile'[c], c)
    <3>0. NextRow(profile[c], c) /\ profile[c] \in Row /\ profile[c].version \in Nat
      BY <1>2 DEF Row
    <3>1. CASE profile[c].version = 0
      BY <2>1, <3>0, <3>1
    <3>2. CASE profile[c].version # 0
      <4>1. profile'[c] = RestoreRow(profile[c], snap)
        BY <2>1, <3>2
      <4>2. /\ profile'[c].version = snap.version /\ profile'[c].life = profile[c].life
            /\ profile'[c].tenure \in {profile[c].tenure, snap.tenure}
        BY <3>0, <4>1 DEF RestoreRow, Row
      <4>3. snap.version \in Nat /\ snap.version > 0 /\ profile[c].version > 0
        BY <2>2, <3>0, <3>2 DEF Snapshot, NextSnap
      <4>4. NextBuild(profile[c].tenure) /\ NextBuild(snap.tenure)
        BY <2>2, <3>0, <4>3 DEF NextRow, NextSnap
      <4> HIDE DEF NextBuild
      <4>5. QED
        BY <3>0, <4>2, <4>3, <4>4 DEF NextRow
    <3>3. QED
      BY <3>1, <3>2
  <2>4. UNCHANGED <<history, run>>
    BY <1>7 DEF Rollback, RollbackEntity, RollbackRun,
       RestoreAll
  <2>5. QED
    BY <1>2, <1>3, <2>3, <2>4
<1>8. CASE Tick \/ (\E t \in Txns : Arrive(t) \/ Flag(t)) \/ UNCHANGED vars
  <2>1. UNCHANGED <<profile, history, run>>
    BY <1>8 DEF Tick, Arrive, Flag, vars, store
  <2>2. QED
    BY <1>2, <1>3, <2>1
<1>9. QED
  BY <1>5, <1>6, <1>7, <1>8 DEF Next, Rollback, RetrainStep

\* The tenure and the clean-transaction count of every row are backed by
\* transactions the customer has made, however retrains, failures and
\* rollbacks interleave.
THEOREM FiguresEarned == Spec => []FiguresAreEarned
<1>1. Init => FiguresInv
  <2> SUFFICES ASSUME Init PROVE FiguresInv
    OBVIOUS
  <2>1. \A c \in Ccys : CountIn(c) >= 0
    <3>1. \A c \in Ccys : {t \in Seen : CcyOf(t) = c} \in SUBSET Txns
      BY DEF Seen
    <3>2. QED
      BY <3>1, Counting DEF CountIn
  <2>2. \A c \in Ccys : RowEarned(profile[c], c)
    BY <2>1 DEF Init, RowEarned, NoRow
  <2>3. \A r \in Retrainers : RunEarned(run[r])
    BY <2>1 DEF Init, RunEarned, Idle, NoRow
  <2>4. history = <<>>
    BY DEF Init
  <2>5. QED
    BY <2>2, <2>3, <2>4 DEF FiguresInv
<1>2. FiguresInv => FiguresAreEarned
  BY DEF FiguresInv, RowEarned, EarnedAtBuild, Earned, CountIn, FiguresAreEarned
<1>3. QED
  BY <1>1, <1>2, TypeInit, TypeStep, FiguresStep, PTL DEF Spec

-----------------------------------------------------------------------------
(* The versions.                                                           *)

\* The snapshots of currency c carry the versions of a row, each in one build.
Numbered(c, version) ==
    /\ \A v \in 1..version :
           \E i \in 1..Len(history) : \E s \in history[i] :
               s.ccy = c /\ s.version = v
    /\ \A i \in 1..Len(history) : \A s \in history[i] :
           s.ccy = c => s.version <= version
    /\ \A i, j \in 1..Len(history) :
           \A s \in history[i], u \in history[j] :
               s.ccy = c /\ u.ccy = c /\ s.version = u.version => i = j

\* Until a rollback, what a retrain read of the row is still what the row is:
\* nobody else can have saved since, because the lock is the retrain's.
VersionInv ==
    rollbacks = 0 =>
        /\ \A c \in Ccys : Numbered(c, profile[c].version)
        /\ \A r \in Retrainers :
               run[r].pc \in {"fetch", "count", "tenure", "save"} =>
                   \A c \in Ccys : run[r].prev[c].version = profile[c].version

\* A save numbers the next snapshot of every currency it builds.
LEMMA SaveNumbers ==
    ASSUME TypeOK, NEW r \in Retrainers, Save(r), NEW c \in Ccys,
           Numbered(c, profile[c].version),
           run[r].prev[c].version = profile[c].version
    PROVE  Numbered(c, profile[c].version)'
<1> DEFINE built == {CcyOf(t) : t \in run[r].rows}
           new   == {SnapshotOf(b, Built(r, b)) : b \in built}
           n     == Len(history)
           ver   == profile[c].version
<1>1. /\ history' = Append(history, new)
      /\ profile'[c] = IF c \in built THEN Built(r, c) ELSE profile[c]
  BY DEF Save
<1>2. ver \in Nat /\ history \in Seq(SUBSET Snapshot) /\ n \in Nat
  BY DEF TypeOK, Row
<1>3. Built(r, c).version = ver + 1
  BY DEF Built
<1>4. \A s \in new : s.ccy = c => c \in built /\ s.version = ver + 1
  <2> SUFFICES ASSUME NEW b \in built, SnapshotOf(b, Built(r, b)).ccy = c
               PROVE  /\ c \in built
                      /\ SnapshotOf(b, Built(r, b)).version = ver + 1
    OBVIOUS
  <2>1. b = c
    BY DEF SnapshotOf
  <2>2. QED
    BY <1>3, <2>1 DEF SnapshotOf
<1>5. c \in built => \E s \in new : s.ccy = c /\ s.version = ver + 1
  <2> SUFFICES ASSUME c \in built
               PROVE  \E s \in new : s.ccy = c /\ s.version = ver + 1
    OBVIOUS
  <2>1. /\ SnapshotOf(c, Built(r, c)).ccy = c
        /\ SnapshotOf(c, Built(r, c)).version = ver + 1
    BY <1>3 DEF SnapshotOf
  <2>2. SnapshotOf(c, Built(r, c)) \in new
    OBVIOUS
  <2>3. QED
    BY <2>1, <2>2
<1>6. /\ Len(history') = n + 1
      /\ history'[n + 1] = new
      /\ \A i \in 1..n : history'[i] = history[i]
  <2> HIDE DEF new
  <2>1. QED
    BY <1>1, <1>2
<1>7. \A i \in 1..n : \A s \in history[i] : s.version \in Nat
  BY <1>2 DEF Snapshot
<1>8. profile'[c].version = IF c \in built THEN ver + 1 ELSE ver
  BY <1>1, <1>3
<1> DEFINE next == profile'[c].version
<1>9. ASSUME NEW v \in 1..next
      PROVE  \E i \in 1..(n + 1) : \E s \in history'[i] :
                 s.ccy = c /\ s.version = v
  <2> HIDE DEF new, built, n
  <2>1. CASE v \in 1..ver
    <3>1. PICK i \in 1..n : \E s \in history[i] : s.ccy = c /\ s.version = v
      BY <2>1 DEF Numbered, n
    <3>2. i \in 1..(n + 1) /\ history'[i] = history[i]
      BY <1>2, <1>6
    <3>3. QED
      BY <3>1, <3>2
  <2>2. CASE v \notin 1..ver
    <3>1. c \in built /\ v = ver + 1
      BY <1>2, <1>8, <1>9, <2>2
    <3>2. n + 1 \in 1..(n + 1)
      BY <1>2
    <3>3. QED
      BY <1>5, <1>6, <3>1, <3>2
  <2>3. QED
    BY <2>1, <2>2
<1>10. ASSUME NEW i \in 1..(n + 1), NEW s \in history'[i], s.ccy = c
       PROVE  /\ s.version <= next
              /\ i \in 1..n => s \in history[i] /\ s.version <= ver
              /\ i \notin 1..n => i = n + 1 /\ s.version = ver + 1
  <2> HIDE DEF new, built, n
  <2>1. CASE i \in 1..n
    <3>1. s \in history[i]
      BY <1>6, <1>10, <2>1
    <3>2. s.version <= ver /\ s.version \in Nat
      BY <1>7, <1>10, <2>1, <3>1 DEF Numbered, n
    <3>3. QED
      BY <1>2, <1>8, <2>1, <3>1, <3>2
  <2>2. CASE i \notin 1..n
    <3>1. i = n + 1
      BY <1>2, <2>2
    <3>2. c \in built /\ s.version = ver + 1
      BY <1>4, <1>6, <1>10, <3>1
    <3>3. QED
      BY <1>2, <1>8, <2>2, <3>1, <3>2
  <2>3. QED
    BY <2>1, <2>2
<1>11. ASSUME NEW i \in 1..(n + 1), NEW j \in 1..(n + 1),
              NEW s \in history'[i], NEW u \in history'[j],
              s.ccy = c, u.ccy = c, s.version = u.version
       PROVE  i = j
  <2> HIDE DEF new, built, n
  <2>1. CASE i \in 1..n /\ j \in 1..n
    BY <1>10, <1>11, <2>1 DEF Numbered, n
  <2>2. CASE i \notin 1..n /\ j \notin 1..n
    BY <1>10, <1>11, <2>2
  <2>3. CASE (i \in 1..n /\ j \notin 1..n) \/ (i \notin 1..n /\ j \in 1..n)
    <3>1. ~(ver + 1 <= ver)
      BY <1>2
    <3>2. QED
      BY <1>10, <1>11, <2>3, <3>1
  <2>4. QED
    BY <2>1, <2>2, <2>3
<1>12. QED
  <2> HIDE DEF new, built, n
  <2>1. Len(history)' = n + 1
    BY <1>6
  <2>2. QED
    BY <1>9, <1>10, <1>11, <2>1 DEF Numbered

\* The advisory lock numbers the builds: until a rollback, the snapshots of a
\* currency carry 1, 2, ... up to its row's version, each once (retrain.py,
\* pg_try_advisory_lock around load_prev, build and upsert).
THEOREM VersionsOrdered == Spec => []VersionsInOrder
<1>1. Init => VersionInv
  BY DEF Init, VersionInv, Numbered, NoRow, Idle
<1>2. VersionInv /\ TypeOK /\ LockHasOwner /\ TypeOK' /\ [Next]_vars => VersionInv'
  <2> SUFFICES ASSUME VersionInv, TypeOK, LockHasOwner, TypeOK', [Next]_vars,
                      rollbacks' = 0
               PROVE  /\ \A c \in Ccys : Numbered(c, profile[c].version)'
                      /\ \A r \in Retrainers :
                             run'[r].pc \in {"fetch", "count", "tenure", "save"} =>
                                 \A c \in Ccys :
                                     run'[r].prev[c].version = profile'[c].version
    BY DEF VersionInv
  <2>1. CASE Rollback
    BY <2>1 DEF Rollback, RollbackEntity, RollbackRun,
       RestoreAll, TypeOK
  <2>2. CASE ~Rollback
    <3>0. rollbacks = 0
      BY <2>2 DEF Next, Rollback, RetrainStep, TakeLock, ReadPrev, FetchClean,
          CountFraud, ReadTenure, Save, Unlock, Fail, Tick, Arrive, Flag, vars
    <3>1. /\ \A c \in Ccys : Numbered(c, profile[c].version)
          /\ \A r \in Retrainers :
                 run[r].pc \in {"fetch", "count", "tenure", "save"} =>
                     \A c \in Ccys : run[r].prev[c].version = profile[c].version
      BY <3>0 DEF VersionInv
    <3>2. ASSUME NEW r \in Retrainers, Save(r)
          PROVE  /\ \A c \in Ccys : Numbered(c, profile[c].version)'
                 /\ \A s \in Retrainers :
                        run'[s].pc \notin {"fetch", "count", "tenure", "save"}
      <4>1. run[r].pc = "save"
        BY <3>2 DEF Save
      <4>2. \A c \in Ccys : Numbered(c, profile[c].version)'
        BY <3>1, <3>2, <4>1, SaveNumbers
      <4>3. /\ run'[r].pc = "unlock"
            /\ \A s \in Retrainers \ {r} : run'[s] = run[s]
        BY <3>2 DEF Save, TypeOK, Run
      <4>4. \A s \in Retrainers \ {r} : run[s].pc = "idle"
        BY <4>1 DEF LockHasOwner
      <4>5. QED
        BY <4>2, <4>3, <4>4
    <3>3. ASSUME UNCHANGED <<profile, history>>
          PROVE  \A c \in Ccys : Numbered(c, profile[c].version)'
      BY <3>1, <3>3 DEF Numbered
    <3>4. ASSUME NEW r \in Retrainers, RetrainStep(r), ~Save(r)
          PROVE  /\ UNCHANGED <<profile, history>>
                 /\ \A s \in Retrainers :
                        run'[s].pc \in {"fetch", "count", "tenure", "save"} =>
                            \/ run'[s].prev = profile
                            \/ /\ run'[s].prev = run[s].prev
                               /\ run[s].pc \in {"fetch", "count", "tenure", "save"}
      <4>1. UNCHANGED <<profile, history>>
        BY <3>4 DEF RetrainStep, TakeLock, ReadPrev, FetchClean, CountFraud,
            ReadTenure, Unlock, Fail, store
      <4>2. run[r] \in Run /\ \A s \in Retrainers \ {r} : run'[s] = run[s]
        BY <3>4, RunMoves DEF TypeOK
      <4>3. ASSUME \/ run'[r].pc \notin {"fetch", "count", "tenure", "save"}
                   \/ run'[r].prev = profile
                   \/ /\ run'[r].prev = run[r].prev
                      /\ run[r].pc \in {"fetch", "count", "tenure", "save"}
            PROVE  \A s \in Retrainers :
                       run'[s].pc \in {"fetch", "count", "tenure", "save"} =>
                           \/ run'[s].prev = profile
                           \/ /\ run'[s].prev = run[s].prev
                              /\ run[s].pc \in {"fetch", "count", "tenure", "save"}
        BY <4>2, <4>3
      <4>4. CASE TakeLock(r)
        <5>1. run'[r].pc = "prev"
          BY <4>2, <4>4 DEF TakeLock, TypeOK, Run
        <5>2. QED
          BY <4>1, <4>3, <5>1
      <4>5. CASE Unlock(r) \/ Fail(r)
        <5>1. run'[r].pc = "idle"
          BY <4>5 DEF Unlock, Fail, Idle, TypeOK
        <5>2. QED
          BY <4>1, <4>3, <5>1
      <4>6. CASE ReadPrev(r)
        <5>1. run'[r].prev = profile
          BY <4>2, <4>6 DEF ReadPrev, TypeOK, Run
        <5>2. QED
          BY <4>1, <4>3, <5>1
      <4>7. CASE FetchClean(r) \/ CountFraud(r) \/ ReadTenure(r)
        <5>1. run[r].pc \in {"fetch", "count", "tenure"}
          BY <4>7 DEF FetchClean, CountFraud, ReadTenure
        <5>2. run'[r].prev = run[r].prev
          <6>1. CASE FetchClean(r) \/ CountFraud(r)
            BY <4>2, <6>1 DEF FetchClean, CountFraud, TypeOK, Run
          <6>2. CASE ReadTenure(r)
            BY <4>2, <6>2 DEF ReadTenure, TypeOK, Run
          <6>3. QED
            BY <4>7, <6>1, <6>2
        <5>3. QED
          BY <4>1, <4>3, <5>1, <5>2
      <4>8. QED
        BY <3>4, <4>4, <4>5, <4>6, <4>7 DEF RetrainStep
    <3>5. CASE Tick \/ (\E t \in Txns : Arrive(t) \/ Flag(t)) \/ UNCHANGED vars
      <4>1. UNCHANGED <<profile, history, run>>
        BY <3>5 DEF Tick, Arrive, Flag, vars, store
      <4>2. QED
        BY <3>1, <3>3, <4>1
    <3>6. ASSUME NEW r \in Retrainers, RetrainStep(r), ~Save(r)
          PROVE  \A s \in Retrainers :
                     run'[s].pc \in {"fetch", "count", "tenure", "save"} =>
                         \A c \in Ccys :
                             run'[s].prev[c].version = profile'[c].version
      BY <3>1, <3>4, <3>6
    <3>7. QED
      BY <2>2, <3>2, <3>3, <3>4, <3>5, <3>6 DEF Next, Rollback
  <2>3. QED
    BY <2>1, <2>2
<1>3. VersionInv => VersionsInOrder
  BY DEF VersionInv, Numbered, VersionsInOrder
<1>4. QED
  BY <1>1, <1>2, <1>3, Exclusive, TypeCorrect, PTL DEF Spec
=============================================================================
