------------------------------ MODULE BatchBuild -----------------------------
(***************************************************************************)
(* The batch build of the profile table from data/transactions.csv         *)
(* (build_profiles.py), beside the retrains that rebuild one customer and  *)
(* write the same table (retrain.py).  The file is a copy of production;   *)
(* the retrains read the cache of transactions, which lags behind it.      *)
(*                                                                         *)
(* A transaction is a number in order of date_created, with an account and *)
(* a currency.  Of a profile's statistics the model keeps the newest       *)
(* transaction they were computed from.  The accounts are taken to be old  *)
(* enough and their confidence to be above the trust threshold; whether    *)
(* the statistics have drifted is left open.  LEARN_FROM_CLEAN_ONLY and    *)
(* ENABLE_INCREMENTAL_RETRAIN are on, as they are by default.              *)
(***************************************************************************)
EXTENDS Naturals, FiniteSets, FiniteSetsExt

CONSTANTS
    Accounts,      \* entity_keys
    Ccys, Default, \* currencies, config.DEFAULT_CURRENCY
    MaxTxns, Acct, Ccy,   \* the transactions 1..MaxTxns, whose and in what
    MinNew,        \* config.RETRAIN_MIN_NEW_TXNS
    MaxAge,        \* config.RETRAIN_MAX_AGE_DAYS
    MinTxns,       \* config.ELIGIBLE_MIN_TXNS
    MaxFraud,      \* config.ELIGIBLE_MAX_FRAUD_TXNS
    MaxRuns, MaxRetrains, MaxFaults, MaxChanges   \* bounds of the model

Txns == 1..MaxTxns

ASSUME BuildAssumption ==
    /\ IsFiniteSet(Accounts) /\ Default \in Ccys
    /\ MaxTxns \in Nat \ {0}
    /\ Acct \in [Txns -> Accounts] /\ Ccy \in [Txns -> Ccys]
    /\ {MinNew, MaxAge, MinTxns, MaxFraud} \subseteq Nat
    /\ {MaxRuns, MaxRetrains, MaxFaults, MaxChanges} \subseteq Nat

VARIABLES
    now,         \* the clock, in days
    prod,        \* production, by transaction
    gone,        \* how many transactions have left LOOKBACK_MONTHS
    csv,         \* data/transactions.csv
    tenure,      \* data/tenure.csv: lifetime_clean_txns; no accounts, no file
    profile,     \* bp_user_behaviour_profile, by account and currency
    history,     \* bp_profile_history
    runs,        \* bp_build_run, by run
    peers,       \* the build_run_id of bp_peer_baseline
    build,       \* the build in progress
    retrain,     \* a retrain_customer in progress
    retrains, faults, changes

files == <<csv, tenure>>
store == <<profile, history, runs, peers>>
vars == <<now, prod, gone, files, store, build, retrain, retrains, faults, changes>>

-----------------------------------------------------------------------------
Status == {"none", "clean", "flagged"}

\* A row; version 0 is no row, run 0 a NULL build_run_id, life 0 a NULL
\* lifetime_clean_txns.  fraud is suspicious_tx_count, seen last_seen; by is
\* the run that wrote the statistics, 0 a retrain.
Row == [version: Nat, status: {"warming_up", "active"}, fraud: Nat, life: Nat,
        seen: Nat, updated: Nat, run: Nat, by: Nat]

NoRow == [version |-> 0, status |-> "warming_up", fraud |-> 0, life |-> 0,
          seen |-> 0, updated |-> 0, run |-> 0, by |-> 0]

Snapshot == [acct: Accounts, ccy: Ccys, version: Nat, by: Nat]

\* owed is a ghost: the clean transactions of the file, but those that a retrain
\* which has written since did not find clean in the cache.
Build == [pc: {"idle", "write", "peers"},
          run: 0..MaxRuns, rows: [Txns -> Status], fresh: [Accounts -> Row],
          upsert: SUBSET Accounts, touch: SUBSET Accounts,
          snap: SUBSET Accounts, pruned: BOOLEAN, owed: SUBSET Txns]

NoBuild == [pc |-> "idle", run |-> 0, rows |-> [t \in Txns |-> "none"],
            fresh |-> [a \in Accounts |-> NoRow],
            upsert |-> {}, touch |-> {}, snap |-> {}, pruned |-> FALSE, owed |-> {}]

Retrain == [pc: {"idle", "fetch", "save"}, acct: Accounts, prev: [Ccys -> Row],
            rows: [Txns -> Status]]
NoRetrain == [pc |-> "idle", acct |-> Acct[1], prev |-> [c \in Ccys |-> NoRow],
              rows |-> [t \in Txns |-> "none"]]

TypeOK ==
    /\ now \in Nat /\ gone \in Nat
    /\ prod \in [Txns -> Status] /\ csv \in [Txns -> Status]
    /\ tenure \in [Accounts -> Nat] \cup {<<>>}
    /\ profile \in [Accounts \X Ccys -> Row]
    /\ history \subseteq Snapshot
    /\ runs \in [1..MaxRuns -> {"none", "running", "done"}]
    /\ peers \in Nat
    /\ build \in Build
    /\ retrain \in Retrain
    /\ retrains \in Nat /\ faults \in Nat /\ changes \in Nat

-----------------------------------------------------------------------------
(* What is computed from the file.                                         *)

Last(ids) == IF ids = {} THEN 0 ELSE Max(ids)

\* The clean baseline of an account, over all its currencies.
CleanRows(rows, a) == {t \in Txns : rows[t] = "clean" /\ Acct[t] = a}

\* FRAUD_TXNS, counted before the clean filter.
FraudTxns(rows, a) == Cardinality({t \in Txns : rows[t] = "flagged" /\ Acct[t] = a})

\* The accounts aggregated: those with a clean transaction in the file.
Seen(rows) == {a \in Accounts : CleanRows(rows, a) # {}}

\* new_txns: newer than the last_seen of the profile loaded.
NewTxns(rows, p, a) == Cardinality({t \in CleanRows(rows, a) : t > p.seen})

\* load_tenure: without the file, no account has a tenure.
HasTenure(a) == a \in DOMAIN tenure

\* Mutant: a row that is not active gets a status no reader knows.
FreshRow_Inactive(rows, p, a) ==
    [NoRow EXCEPT !.version = p.version + 1, !.status = "inactive"]

\* The profile row, tagged with the default currency; without tenure.csv the
\* gate falls back to the window's count and lifetime_clean_txns is NULL.
FreshRow(rows, p, a) ==
    LET clean == CleanRows(rows, a)
        life  == IF HasTenure(a) THEN tenure[a] ELSE Cardinality(clean)
    IN  [version |-> p.version + 1,
         status  |-> IF life >= MinTxns /\ FraudTxns(rows, a) <= MaxFraud
                     THEN "active" ELSE "warming_up",
         fraud   |-> FraudTxns(rows, a),
         life    |-> IF HasTenure(a) THEN tenure[a] ELSE 0,
         seen    |-> Last(clean),
         updated |-> now, run |-> 0, by |-> 0]

\* Mutant: more than the minimum of new transactions instead of at least it.
Due_OffByOne(rows, p, a) ==
    p.version = 0 \/ NewTxns(rows, p, a) > MinNew \/ now >= p.updated + MaxAge

\* Whether to rebuild: a new profile, enough new transactions, or an age; the
\* age is read off updated_at.
Due(rows, p, a) ==
    p.version = 0 \/ NewTxns(rows, p, a) >= MinNew \/ now >= p.updated + MaxAge

-----------------------------------------------------------------------------
(* build.                                                                  *)

\* load_prev_profiles keys its rows by entity_key alone: of an account's
\* currencies one is kept, whichever comes last.
Loaded(prev) ==
    \E ccy \in [Accounts -> Ccys] :
        \A a \in Accounts :
            /\ prev[a] = profile[<<a, ccy[a]>>]
            /\ prev[a].version = 0 => \A c \in Ccys : profile[<<a, c>>].version = 0

\* detect_drift may find any account drifted that has a profile to compare with.
MayDrift(rows, prev) == {a \in Seen(rows) : prev[a].version > 0}

\* Everything up to write_store: the files and the profiles are read, and it
\* is decided which profiles are rewritten and which only touched.  What is
\* written later rests on this.
Compute ==
    /\ build.pc = "idle" /\ Seen(csv) # {}
    /\ \E r \in 1..MaxRuns, prev \in [Accounts -> {profile[x] : x \in DOMAIN profile}] :
           /\ runs[r] = "none" /\ \A q \in 1..(r - 1) : runs[q] # "none"
           /\ Loaded(prev)
           /\ \E drifted \in SUBSET MayDrift(csv, prev) :
                  LET due == drifted \cup {a \in Seen(csv) : Due(csv, prev[a], a)}
                  IN  build' = [NoBuild EXCEPT
                          !.pc     = "write", !.run = r, !.rows = csv,
                          !.owed   = {t \in Txns : csv[t] = "clean"},
                          !.upsert = due, !.snap = due, !.touch = Seen(csv) \ due,
                          !.fresh  = [a \in Accounts |-> IF a \in due
                                         THEN FreshRow(csv, prev[a], a) ELSE NoRow]]
    /\ UNCHANGED <<now, prod, gone, files, store, retrain, retrains, faults, changes>>

-----------------------------------------------------------------------------
(* write_store: the first commit carries the INSERT of the run.            *)

Started == runs' = [runs EXCEPT ![build.run] = "running"]

\* A chunk of upserts and its commit; a row of another currency is not
\* touched.  The trigger sets updated_at.
WriteProfiles ==
    /\ build.pc = "write" /\ build.upsert # {}
    /\ \E chunk \in SUBSET build.upsert \ {{}} :
           /\ profile' = [x \in Accounts \X Ccys |->
                  IF x[1] \in chunk /\ x[2] = Default
                  THEN [build.fresh[x[1]] EXCEPT !.updated = now,
                            !.run = build.run, !.by = build.run]
                  ELSE profile[x]]
           /\ build' = [build EXCEPT !.upsert = @ \ chunk]
    /\ Started
    /\ UNCHANGED <<now, prod, gone, files, history, peers, retrain, retrains, faults, changes>>

\* Mutant: the touch writes window_end and leaves build_run_id.
Touch_NoRun ==
    /\ build.pc = "write" /\ build.upsert = {} /\ build.touch # {}
    /\ \E chunk \in SUBSET build.touch \ {{}} :
           /\ profile' = [x \in Accounts \X Ccys |->
                  IF x[1] \in chunk /\ profile[x].version > 0
                  THEN [profile[x] EXCEPT !.updated = now] ELSE profile[x]]
           /\ build' = [build EXCEPT !.touch = @ \ chunk]
    /\ Started
    /\ UNCHANGED <<now, prod, gone, files, history, peers, retrain, retrains, faults, changes>>

\* UPDATE .. WHERE entity_key IN: all currencies of the accounts of a chunk.
\* The trigger sets updated_at here too.
Touch ==
    /\ build.pc = "write" /\ build.upsert = {} /\ build.touch # {}
    /\ \E chunk \in SUBSET build.touch \ {{}} :
           /\ profile' = [x \in Accounts \X Ccys |->
                  IF x[1] \in chunk /\ profile[x].version > 0
                  THEN [profile[x] EXCEPT !.run = build.run, !.updated = now]
                  ELSE profile[x]]
           /\ build' = [build EXCEPT !.touch = @ \ chunk]
    /\ Started
    /\ UNCHANGED <<now, prod, gone, files, history, peers, retrain, retrains, faults, changes>>

WriteHistory ==
    /\ build.pc = "write" /\ build.upsert = {} /\ build.touch = {} /\ build.snap # {}
    /\ \E chunk \in SUBSET build.snap \ {{}} :
           /\ history' = history \cup
                  {[acct |-> a, ccy |-> Default, by |-> build.run,
                    version |-> build.fresh[a].version] : a \in chunk}
           /\ build' = [build EXCEPT !.snap = @ \ chunk]
    /\ UNCHANGED <<now, prod, gone, files, profile, runs, peers, retrain, retrains, faults, changes>>

\* Mutant: the run is closed before the last chunk of snapshots.
Finish_Early ==
    /\ build.pc = "write" /\ build.upsert = {} /\ build.touch = {}
    /\ build' = [build EXCEPT !.pc = "peers"]
    /\ runs' = [runs EXCEPT ![build.run] = "done"]
    /\ UNCHANGED <<now, prod, gone, files, profile, history, peers, retrain, retrains, faults, changes>>

\* The prune, unless --no-prune, and the run marked done, in one commit.
\* build_run_id <> run_id is not true of a NULL.
Finish ==
    /\ build.pc = "write"
    /\ build.upsert = {} /\ build.touch = {} /\ build.snap = {}
    /\ \E prune \in BOOLEAN :
           /\ profile' = [x \in Accounts \X Ccys |->
                  IF prune /\ profile[x].run \notin {0, build.run}
                  THEN NoRow ELSE profile[x]]
           /\ build' = [build EXCEPT !.pc = "peers", !.pruned = prune]
    /\ runs' = [runs EXCEPT ![build.run] = "done"]
    /\ UNCHANGED <<now, prod, gone, files, history, peers, retrain, retrains, faults, changes>>

\* write_peer_baselines, on a connection of its own.
WritePeers ==
    /\ build.pc = "peers"
    /\ peers' = build.run
    /\ build' = NoBuild
    /\ UNCHANGED <<now, prod, gone, files, profile, history, runs, retrain, retrains, faults, changes>>

\* An exception or a kill: what was committed stays.
Interrupted ==
    /\ build.pc # "idle"
    /\ faults < MaxFaults
    /\ faults' = faults + 1
    /\ build' = NoBuild
    /\ UNCHANGED <<now, prod, gone, files, store, retrain, retrains, changes>>

-----------------------------------------------------------------------------
(* retrain_customer.                                                       *)

\* The lock of the customer, and the rows of the profile.
RetrainReads(a) ==
    /\ retrain.pc = "idle" /\ retrains < MaxRetrains
    /\ retrain' = [NoRetrain EXCEPT !.pc = "fetch", !.acct = a,
                                    !.prev = [c \in Ccys |-> profile[<<a, c>>]]]
    /\ retrains' = retrains + 1
    /\ UNCHANGED <<now, prod, gone, files, store, build, faults, changes>>

\* What bp_transactions_cache may hold of a transaction, that lags behind
\* production: what it is, or was, or nothing yet.
Cached(t) ==
    CASE prod[t] = "none"    -> {"none"}
      [] prod[t] = "clean"   -> {"none", "clean"}
      [] prod[t] = "flagged" -> {"none", "clean", "flagged"}

\* fetch_customer: the window of the cache as it is now (ProfileStore has its
\* statements apart).  Without a clean row the retrain is over.
RetrainFetches ==
    /\ retrain.pc = "fetch"
    /\ \E rows \in [Txns -> Status] :
           /\ \A t \in Txns : rows[t] \in IF t > gone /\ Acct[t] = retrain.acct
                                         THEN Cached(t) ELSE {"none"}
           /\ retrain' = IF CleanRows(rows, retrain.acct) = {} THEN NoRetrain
                         ELSE [retrain EXCEPT !.pc = "save", !.rows = rows]
    /\ UNCHANGED <<now, prod, gone, files, store, build, retrains, faults, changes>>

\* The commit, of what was read before: an upsert for each currency with clean
\* rows.  build_run_id is not among its columns, so that a row it inserts has
\* none and a row it updates keeps its.
RetrainSaves ==
    LET a       == retrain.acct
        live(c) == {t \in CleanRows(retrain.rows, a) : Ccy[t] = c}
        fraud   == FraudTxns(retrain.rows, a)
        life(c) == IF retrain.prev[c].life > 0 THEN retrain.prev[c].life
                                               ELSE Cardinality(live(c))
        new(c)  == [version |-> retrain.prev[c].version + 1,
                    status  |-> IF life(c) >= MinTxns /\ fraud <= MaxFraud
                                THEN "active" ELSE "warming_up",
                    fraud |-> fraud, life |-> life(c), seen |-> Last(live(c)),
                    updated |-> now, run |-> profile[<<a, c>>].run, by |-> 0]
        built   == {c \in Ccys : live(c) # {}}
    IN  /\ retrain.pc = "save"
        /\ profile' = [x \in Accounts \X Ccys |->
               IF x[1] = a /\ x[2] \in built THEN new(x[2]) ELSE profile[x]]
        /\ history' = history \cup
               {[acct |-> a, ccy |-> c, by |-> 0, version |-> new(c).version] : c \in built}
        /\ build' = [build EXCEPT !.owed =
               {t \in @ : Acct[t] = a => retrain.rows[t] = "clean"}]
        /\ retrain' = NoRetrain
        /\ UNCHANGED <<now, prod, gone, files, runs, peers, retrains, faults, changes>>

-----------------------------------------------------------------------------
(* Production, the extracts and the calendar.                              *)

Arrive(t) ==
    /\ prod[t] = "none" /\ \A u \in 1..(t - 1) : prod[u] # "none"
    /\ prod' = [prod EXCEPT ![t] = "clean"]
    /\ UNCHANGED <<now, gone, files, store, build, retrain, retrains, faults, changes>>

\* What happens to production besides, and the passing of time, a bounded
\* number of times.
Change == changes < MaxChanges /\ changes' = changes + 1

Flag(t) ==
    /\ prod[t] = "clean" /\ Change
    /\ prod' = [prod EXCEPT ![t] = "flagged"]
    /\ UNCHANGED <<now, gone, files, store, build, retrain, retrains, faults>>

LeaveWindow ==
    /\ (\E t \in Txns : t = gone + 1 /\ prod[t] # "none") /\ Change
    /\ gone' = gone + 1
    /\ UNCHANGED <<now, prod, files, store, build, retrain, retrains, faults>>

\* extract_tenure.py: over the whole lifetime of the accounts.
Lifetime == [a \in Accounts |-> Cardinality(CleanRows(prod, a))]

\* extract_transactions.py: the window of production, whatever the status; and
\* extract_tenure.py, if it is run: if not, the file of another day stays.
Extract ==
    /\ build.pc = "idle"
    /\ csv' = [t \in Txns |-> IF t > gone THEN prod[t] ELSE "none"]
    /\ \/ tenure' = Lifetime
       \/ tenure' = tenure
    /\ UNCHANGED <<now, prod, gone, store, build, retrain, retrains, faults, changes>>

Tick ==
    /\ Change
    /\ now' = now + 1
    /\ UNCHANGED <<prod, gone, files, store, build, retrain, retrains, faults>>

-----------------------------------------------------------------------------
Init ==
    /\ now = 0 /\ gone = 0
    /\ prod = [t \in Txns |-> "none"]
    /\ csv = [t \in Txns |-> "none"]
    /\ tenure = <<>>
    /\ profile = [x \in Accounts \X Ccys |-> NoRow]
    /\ history = {}
    /\ runs = [r \in 1..MaxRuns |-> "none"]
    /\ peers = 0
    /\ build = NoBuild
    /\ retrain = NoRetrain
    /\ retrains = 0 /\ faults = 0 /\ changes = 0

BuildStep ==
    \/ Compute \/ WriteProfiles \/ Touch \/ WriteHistory \/ Finish
    \/ WritePeers \/ Interrupted

Environment ==
    \/ \E t \in Txns : Arrive(t) \/ Flag(t)
    \/ LeaveWindow \/ Extract \/ Tick

Next ==
    \/ BuildStep
    \/ (\E a \in Accounts : RetrainReads(a)) \/ RetrainFetches \/ RetrainSaves
    \/ Environment

Spec == Init /\ [][Next]_vars

-----------------------------------------------------------------------------
(* What the build must keep.                                               *)

Rows(a)    == {c \in Ccys : profile[<<a, c>>].version > 0}
Finished   == build.pc = "peers"
InBuild(a) == a \in Seen(build.rows)

\* After a run with the prune, "the table always reflects the current
\* population": an account of the file still has a profile, whether it was
\* rewritten or only touched and whatever a retrain wrote meanwhile, and of an
\* account that is not in the file no row is left that a batch ever stamped.
TableIsPopulation ==
    Finished => \A a \in Accounts :
        /\ InBuild(a) => Rows(a) # {}
        /\ build.pruned /\ ~InBuild(a) => \A c \in Rows(a) : profile[<<a, c>>].run = 0

\* What a run that is marked done has written can be rolled back to: the row
\* has its snapshot.  A run that was interrupted between its commits may lack
\* snapshots, and is not marked done, then or ever.
DoneRunsAreSnapshotted ==
    \A a \in Accounts : \A c \in Rows(a) :
        LET p == profile[<<a, c>>] IN
        p.by # 0 => /\ runs[p.by] # "none"
                    /\ runs[p.by] = "done" =>
                           [acct |-> a, ccy |-> c, version |-> p.version,
                            by |-> p.by] \in history

\* An account of the file that the run took to have barely changed.
Skipped(a) == InBuild(a) /\ build.fresh[a].version = 0

\* What the run owes an account's row of a currency and the row has not seen.
Lacking(a, c) == {t \in build.owed : Acct[t] = a /\ t > profile[<<a, c>>].seen}

\* Skipping profiles that "barely changed" never leaves one far behind: after a
\* run, some row of an account that was skipped lacks fewer than
\* RETRAIN_MIN_NEW_TXNS of the clean transactions of the file, whichever
\* currency's row the decision was taken on and whatever a retrain wrote since, as
\* far as that retrain found them clean in the window of the cache: one that read
\* the cache before they were copied puts the row back (retrain.py:340, 383).  The default row of
\* an account that was rewritten lacks none of its own currency, as far; of
\* another currency it may, for the prune removes a row that a retrain has just
\* refreshed, if another run stamped it (build_profiles.py:744).
SkippedBarelyChanged ==
    Finished => \A a \in Accounts : InBuild(a) =>
        IF Skipped(a)
        THEN \E c \in Ccys : Cardinality(Lacking(a, c)) < MinNew
        ELSE \A t \in Lacking(a, Default) : Ccy[t] # Default
=============================================================================
