---------------------------- MODULE ProfileStore ----------------------------
(***************************************************************************)
(* One customer's behaviour profile, a row per currency: the retrain that  *)
(* rebuilds it from the cached transactions under a per-customer advisory  *)
(* lock (retrain.py), the rollback that restores a snapshot of it without  *)
(* that lock (rollback.py), and the gate that decides whether the customer *)
(* is judged by it (eligibility.py).                                       *)
(*                                                                         *)
(* Every SELECT of a retrain is a step of its own: the store runs READ     *)
(* COMMITTED.  A transaction is its currency and a number; the statistics  *)
(* learnt are the set of transactions they were computed from.  The clock  *)
(* counts half days, so that the whole days the code keeps lose something. *)
(* The confidence score is taken to be above the trust threshold.          *)
(***************************************************************************)
EXTENDS Naturals, Sequences, FiniteSets

CONSTANTS
    Ccys,          \* currencies
    TxnsPerCcy,    \* bound of the model: transactions in each
    Retrainers,    \* processes in retrain_customer for this customer
    NoRetrainer,   \* "the advisory lock is free"
    MinTenure,     \* config.ELIGIBLE_MIN_TENURE_DAYS
    MinTxns,       \* config.ELIGIBLE_MIN_TXNS
    MaxFraud,      \* config.ELIGIBLE_MAX_FRAUD_TXNS
    Window,        \* config.LOOKBACK_MONTHS, in half days
    MaxTime, MaxBuilds, MaxRollbacks, MaxFaults   \* bounds of the model

ASSUME ProfileAssumption ==
    /\ NoRetrainer \notin Retrainers
    /\ IsFiniteSet(Ccys)
    /\ {TxnsPerCcy, MinTenure, MinTxns, MaxFraud, Window} \subseteq Nat
    /\ {MaxTime, MaxBuilds, MaxRollbacks, MaxFaults} \subseteq Nat

VARIABLES
    now,         \* the clock, in half days
    cache,       \* bp_transactions_cache, by transaction
    made,        \* date_created of what is cached
    profile,     \* bp_user_behaviour_profile, by currency
    history,     \* bp_profile_history: the snapshots of each retrain, in order
    lock,        \* the holder of the customer's advisory lock
    run,         \* the local state of each retrain_customer
    fullJson,    \* config.STORE_HISTORY_JSON
    evidence,    \* by currency: what had been flagged when its last build began
    rollbacks, faults

store == <<profile, history, evidence>>
vars == <<now, cache, made, store, lock, run, fullJson, rollbacks, faults>>

-----------------------------------------------------------------------------
Txns     == Ccys \X (1..TxnsPerCcy)
CcyOf(t) == t[1]
Seen     == {t \in Txns : cache[t] # "none"}

\* A row of the profile; version 0 is no row.  fraud is suspicious_tx_count,
\* life is lifetime_clean_txns, last is last_retrained_at.
Row == [version: Nat, status: {"warming_up", "active"}, tenure: Nat,
        life: Nat, fraud: Nat, last: Nat, learned: SUBSET Txns]

NoRow == [version |-> 0, status |-> "warming_up", tenure |-> 0, life |-> 0,
          fraud |-> 0, last |-> 0, learned |-> {}]

\* prev is prev_by_ccy, rows the clean transactions fetched; before is what
\* had been flagged when the lock was taken.
Run == [pc: {"idle", "prev", "fetch", "count", "tenure", "save", "unlock"},
        prev: [Ccys -> Row], rows: SUBSET Txns, fraud: Nat, tenure: Nat,
        before: SUBSET Txns]

Idle == [pc |-> "idle", prev |-> [c \in Ccys |-> NoRow], rows |-> {},
         fraud |-> 0, tenure |-> 0, before |-> {}]

Snapshot == [ccy: Ccys, version: Nat, status: {"warming_up", "active"},
             tenure: Nat, learned: SUBSET Txns]

TypeOK ==
    /\ now \in Nat
    /\ cache \in [Txns -> {"none", "clean", "flagged"}]
    /\ made \in [Txns -> Nat]
    /\ profile \in [Ccys -> Row]
    /\ history \in Seq(SUBSET Snapshot)
    /\ evidence \in [Ccys -> SUBSET Txns]
    /\ lock \in Retrainers \cup {NoRetrainer}
    /\ run \in [Retrainers -> Run]
    /\ fullJson \in BOOLEAN
    /\ rollbacks \in Nat
    /\ faults \in Nat

\* date_created >= now() - LOOKBACK_MONTHS.
InWindow(t) == now < made[t] + Window
Clean       == {t \in Txns : cache[t] = "clean" /\ InWindow(t)}
Flagged     == {t \in Txns : cache[t] = "flagged" /\ InWindow(t)}

Days(halfDays) == halfDays \div 2

\* profile_is_trusted, and the same gate as compute_customer_profile applies.
Eligible(tenure, life, fraud) ==
    tenure >= MinTenure /\ life >= MinTxns /\ fraud <= MaxFraud

Trusted(p) == p.status = "active" /\ Eligible(p.tenure, p.life, p.fraud)

-----------------------------------------------------------------------------
(* retrain_customer.                                                       *)

\* Mutant: the answer of pg_try_advisory_lock is not looked at.
TakeLock_Anyway(r) ==
    /\ run[r].pc = "idle" /\ Len(history) < MaxBuilds
    /\ lock' = r
    /\ run' = [run EXCEPT ![r].pc = "prev", ![r].before = Flagged]
    /\ UNCHANGED <<now, cache, made, store, fullJson, rollbacks, faults>>

\* pg_try_advisory_lock.  When it fails the call returns "busy" and changes
\* nothing.
TakeLock(r) ==
    /\ run[r].pc = "idle" /\ Len(history) < MaxBuilds
    /\ lock = NoRetrainer
    /\ lock' = r
    /\ run' = [run EXCEPT ![r].pc = "prev", ![r].before = Flagged]
    /\ UNCHANGED <<now, cache, made, store, fullJson, rollbacks, faults>>

ReadPrev(r) ==
    /\ run[r].pc = "prev"
    /\ run' = [run EXCEPT ![r].pc = "fetch", ![r].prev = profile]
    /\ UNCHANGED <<now, cache, made, store, lock, fullJson, rollbacks, faults>>

\* Mutant: "nothing to learn from" returns past the finally.
FetchClean_KeepsLock(r) ==
    /\ run[r].pc = "fetch"
    /\ run' = [run EXCEPT ![r] =
           IF Clean = {} THEN Idle ELSE [@ EXCEPT !.pc = "count", !.rows = Clean]]
    /\ UNCHANGED <<now, cache, made, store, lock, fullJson, rollbacks, faults>>

\* fetch_customer's first SELECT; with nothing to learn from the retrain ends,
\* and leaves the profile as it is.
FetchClean(r) ==
    /\ run[r].pc = "fetch"
    /\ run' = [run EXCEPT ![r].pc   = IF Clean = {} THEN "unlock" ELSE "count",
                          ![r].rows = Clean]
    /\ UNCHANGED <<now, cache, made, store, lock, fullJson, rollbacks, faults>>

\* Its second, a later snapshot of the cache than the first.
CountFraud(r) ==
    /\ run[r].pc = "count"
    /\ run' = [run EXCEPT ![r].pc = "tenure", ![r].fraud = Cardinality(Flagged)]
    /\ UNCHANGED <<now, cache, made, store, lock, fullJson, rollbacks, faults>>

\* rows[0]: the oldest of the rows fetched.
IsFirst(t, rows) == t \in rows /\ \A u \in rows : made[t] <= made[u]

\* Mutant: the span of the cache is added instead of the time since the build.
ReadTenure_AddsSpan(r) ==
    /\ run[r].pc = "tenure"
    /\ \E old \in Ccys, first \in run[r].rows :
           /\ \A c \in Ccys : profile[c].tenure <= profile[old].tenure
           /\ IsFirst(first, run[r].rows)
           /\ run' = [run EXCEPT
                  ![r].pc     = "save",
                  ![r].tenure = profile[old].tenure + Days(now - made[first])]
    /\ UNCHANGED <<now, cache, made, store, lock, fullJson, rollbacks, faults>>

\* Its third: MAX(tenure_days) and MAX(last_retrained_at) over the currencies,
\* carried forward by the whole days that have passed; with no tenure to carry,
\* the days the cache can prove.
ReadTenure(r) ==
    /\ run[r].pc = "tenure"
    /\ \E old, latest \in Ccys, first \in run[r].rows :
           /\ \A c \in Ccys : /\ profile[c].tenure <= profile[old].tenure
                              /\ profile[c].last <= profile[latest].last
           /\ IsFirst(first, run[r].rows)
           /\ run' = [run EXCEPT
                  ![r].pc     = "save",
                  ![r].tenure = IF profile[old].tenure > 0
                                THEN profile[old].tenure
                                     + Days(now - profile[latest].last)
                                ELSE Days(now - made[first])]
    /\ UNCHANGED <<now, cache, made, store, lock, fullJson, rollbacks, faults>>

\* Mutant: the status of a row that is not active is one no reader knows.
Built_Inactive(r, c) ==
    LET x    == run[r]
        mine == {t \in x.rows : CcyOf(t) = c}
    IN  [version |-> x.prev[c].version + 1, status |-> "inactive",
         tenure |-> x.tenure, life |-> Cardinality(mine), fraud |-> x.fraud,
         last |-> now, learned |-> mine]

\* compute_customer_profile for one currency, from that currency's rows; the
\* lifetime count is carried forward when there is one.
Built(r, c) ==
    LET x    == run[r]
        mine == {t \in x.rows : CcyOf(t) = c}
        life == IF x.prev[c].life > 0 THEN x.prev[c].life ELSE Cardinality(mine)
    IN  [version |-> x.prev[c].version + 1,
         status  |-> IF Eligible(x.tenure, life, x.fraud)
                     THEN "active" ELSE "warming_up",
         tenure  |-> x.tenure,
         life    |-> life,
         fraud   |-> x.fraud,
         last    |-> now,
         learned |-> mine]

SnapshotOf(c, p) ==
    [ccy |-> c, version |-> p.version, status |-> p.status,
     tenure |-> p.tenure, learned |-> p.learned]

\* Upsert and snapshot of every currency there are rows of, and the commit.
Save(r) ==
    LET built == {CcyOf(t) : t \in run[r].rows} IN
    /\ run[r].pc = "save"
    /\ profile' = [c \in Ccys |-> IF c \in built THEN Built(r, c)
                                                 ELSE profile[c]]
    /\ history' = Append(history, {SnapshotOf(c, Built(r, c)) : c \in built})
    /\ evidence' = [c \in Ccys |-> IF c \in built THEN run[r].before
                                                  ELSE evidence[c]]
    /\ run' = [run EXCEPT ![r].pc = "unlock"]
    /\ UNCHANGED <<now, cache, made, lock, fullJson, rollbacks, faults>>

\* finally: unlock and close.
Unlock(r) ==
    /\ run[r].pc = "unlock"
    /\ lock' = NoRetrainer
    /\ run' = [run EXCEPT ![r] = Idle]
    /\ UNCHANGED <<now, cache, made, store, fullJson, rollbacks, faults>>

\* An exception, which rolls back and unlocks, or the death of the process,
\* whose session held the lock.
Fail(r) ==
    /\ run[r].pc # "idle"
    /\ faults < MaxFaults
    /\ faults' = faults + 1
    /\ lock' = NoRetrainer
    /\ run' = [run EXCEPT ![r] = Idle]
    /\ UNCHANGED <<now, cache, made, store, fullJson, rollbacks>>

-----------------------------------------------------------------------------
(* Rollbacks, which take no lock.                                          *)

\* The latest snapshot of a version; the currencies of one retrain have the
\* same timestamp and LIMIT 1 takes any of them.
Latest(snap, version) ==
    /\ snap.version = version
    /\ \E i \in 1..Len(history) :
           /\ snap \in history[i]
           /\ \A j \in (i + 1)..Len(history) :
                  \A other \in history[j] : other.version # version

\* Mutant: _RESTORE_COLS names suspicious_tx_count, which the snapshot has as
\* it was.
RestoreRow_Fraud(p, snap) ==
    IF fullJson
    THEN [p EXCEPT !.version = snap.version, !.learned = snap.learned,
                   !.status = snap.status, !.tenure = snap.tenure,
                   !.fraud = IF snap.status = "active" THEN 0 ELSE @]
    ELSE [p EXCEPT !.version = snap.version, !.learned = snap.learned]

\* _restore_row: a full snapshot restores the statistics, the status and the
\* tenure, a scalars-only one the statistics.
RestoreRow(p, snap) ==
    IF fullJson
    THEN [p EXCEPT !.version = snap.version, !.learned = snap.learned,
                   !.status = snap.status, !.tenure = snap.tenure]
    ELSE [p EXCEPT !.version = snap.version, !.learned = snap.learned]

\* UPDATE .. WHERE entity_key: every currency's row gets the snapshot.
RestoreAll(snap) ==
    /\ rollbacks < MaxRollbacks
    /\ rollbacks' = rollbacks + 1
    /\ profile' = [c \in Ccys |-> IF profile[c].version = 0
                                  THEN profile[c]
                                  ELSE RestoreRow(profile[c], snap)]
    /\ UNCHANGED <<now, cache, made, history, evidence, lock, run, fullJson,
                   faults>>

\* The rows of bp_profile_history.
Snapshots == UNION {history[i] : i \in 1..Len(history)}

\* rollback_entity, to a version or to the latest of a run.
RollbackEntity ==
    \E snap \in Snapshots : Latest(snap, snap.version) /\ RestoreAll(snap)

\* rollback_run restores every snapshot of a run, in no stated order, so that
\* any may be the last.  All retrains have the run "event".
RollbackRun == \E snap \in Snapshots : RestoreAll(snap)

-----------------------------------------------------------------------------
(* The cache and the calendar.                                             *)

\* Ingestion writes a transaction, of now or of some time ago.
Arrive(t) ==
    /\ cache[t] = "none"
    /\ \E status \in {"clean", "flagged"} : cache' = [cache EXCEPT ![t] = status]
    /\ \E at \in 0..now : made' = [made EXCEPT ![t] = at]
    /\ UNCHANGED <<now, store, lock, run, fullJson, rollbacks, faults>>

\* The refresh pass brings a transaction that has been blocked since.
Flag(t) ==
    /\ cache[t] = "clean"
    /\ cache' = [cache EXCEPT ![t] = "flagged"]
    /\ UNCHANGED <<now, made, store, lock, run, fullJson, rollbacks, faults>>

Tick ==
    /\ now < MaxTime
    /\ now' = now + 1
    /\ UNCHANGED <<cache, made, store, lock, run, fullJson, rollbacks, faults>>

-----------------------------------------------------------------------------
Init ==
    /\ now = 0
    /\ cache = [t \in Txns |-> "none"]
    /\ made = [t \in Txns |-> 0]
    /\ profile = [c \in Ccys |-> NoRow]
    /\ history = <<>>
    /\ evidence = [c \in Ccys |-> {}]
    /\ lock = NoRetrainer
    /\ run = [r \in Retrainers |-> Idle]
    /\ fullJson \in BOOLEAN
    /\ rollbacks = 0
    /\ faults = 0

RetrainStep(r) ==
    \/ TakeLock(r) \/ ReadPrev(r) \/ FetchClean(r) \/ CountFraud(r)
    \/ ReadTenure(r) \/ Save(r) \/ Unlock(r) \/ Fail(r)

Next ==
    \/ \E r \in Retrainers : RetrainStep(r)
    \/ RollbackEntity \/ RollbackRun
    \/ \E t \in Txns : Arrive(t) \/ Flag(t)
    \/ Tick

Spec == Init /\ [][Next]_vars

-----------------------------------------------------------------------------
(* What the profile must keep.                                             *)

\* The advisory lock makes the retrains of a customer one after another: each
\* currency's snapshots carry the versions 1, 2, ... up to its row's, each
\* once, so no build was computed from a row another was about to replace.
VersionsInOrder ==
    rollbacks = 0 =>
        \A c \in Ccys :
            /\ \A v \in 1..profile[c].version :
                   \E i \in 1..Len(history) : \E s \in history[i] :
                       s.ccy = c /\ s.version = v
            /\ \A i, j \in 1..Len(history) :
                   \A s \in history[i], u \in history[j] :
                       s.ccy = c /\ u.ccy = c
                           => /\ s.version <= profile[c].version
                              /\ s.version = u.version => i = j

\* No row is trusted if, when its last build began, more than the allowed
\* number of transactions were flagged that still are in the window: neither a
\* flip between the build's reads nor a rollback gets past the fraud gate.
TrustIsClean ==
    \A c \in Ccys : Trusted(profile[c]) =>
        Cardinality({t \in evidence[c] : InWindow(t)}) <= MaxFraud

\* The figures trust rests on never over-state, however often builds and
\* rollbacks carry them forward: at the customer's latest build some
\* transaction was tenure_days old, and lifetime_clean_txns transactions have
\* been made in the currency.
FiguresAreEarned ==
    \A c \in Ccys : profile[c].version > 0 =>
        /\ \E t \in Seen, b \in Ccys :
               profile[b].last >= made[t] + 2 * profile[c].tenure
        /\ profile[c].life <= Cardinality({t \in Seen : CcyOf(t) = c})

\* A retrain that is under way holds the lock, and the lock is held by nobody
\* else: whichever way a retrain ends, the next one can begin.
LockHasOwner ==
    \A r \in Retrainers : run[r].pc # "idle" <=> lock = r
=============================================================================
