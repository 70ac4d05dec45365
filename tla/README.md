# A verification development of the behaviour-profile service

The repository is a behavioural anti-fraud service.  `POST /score` judges a
transaction with a trained model, stores the decision and delivers it to a
webhook; a scheduler mirrors the production transaction table into a local cache;
a customer's behaviour profile is rebuilt from that cache, and a governance gate
says whether the profile may be trusted.  The parts share one PostgreSQL store and
no other memory, run in several processes (API workers, a sync container with a
relay thread, command-line tools run by operators), and each guards its own
protocol with row locks, an advisory lock, a watermark or nothing.

This directory holds TLA+ modules of those protocols, the TLC configurations that
check them on small instances, and theorems that TLAPS proves for every value of
the constants.

- [Inventory](#inventory): the parts, their state, what is hard about them
- [The modules](#the-modules): what models what, and how
- [The runs](#the-runs): what TLC checks, with which bounds, under which fairness
- [What the runs found](#what-the-runs-found)
- [The proofs](#the-proofs)
- [What is not modelled](#what-is-not-modelled)
- [Plan](#plan)

## Inventory

### Webhook outbox — `service.py`, `webhooks.py`, `webhook_relay.py`

*State.* `bp_decision`: a row per scored transaction, whose `webhook_status`
(`pending`, `sent`, `dead`, `disabled`), `webhook_attempts` and
`webhook_next_attempt_at` are a transactional outbox.  `bp_webhook_delivery`: an
append-only log of attempts.

*Operations.* The handler of `/score` inserts the row, logs an audit event on the
same transaction, commits, answers, and queues a background task.  The task POSTs
the decision and records the outcome under `FOR UPDATE`.  The relay sweeps every
few seconds: it lists what is due in one transaction, then takes each row with
`FOR UPDATE SKIP LOCKED` and the same condition, POSTs while it holds the lock, and
records the outcome.

*Hard.* Three writers of one row, one of which acts on what it read long ago; a
POST whose record is lost with its transaction; a process that dies between commit
and delivery; an SQL error swallowed inside somebody else's transaction; a retry
budget counted in two places.

*Correct when* what the receiver, the row and the log say of a decision agree; an
acknowledged decision is final; every pending decision is eventually settled.

### Ingestion — `sync_manager.py`

*State.* `bp_transactions_cache`, the mirror; `bp_sync_state`, one row with the
watermark and the last run's status.

*Operations.* `sync()` reads the watermark, marks itself running, makes a keyset
pass over what is new and a second one over the recent window, in chunks that
commit one by one, prunes what has left the learning window, and saves the
watermark; its failure handler saves the last committed id.  A daily or interval
scheduler runs it; so may an operator, with `--full` to start from 0.

*Hard.* Failure between any two of those commits; two runs at once; production
rows that become visible out of id order, or change status after they were
copied; a cap shared by the two passes; one row the store rejects.

*Correct when* nothing behind the watermark is missing, and a transaction that
was blocked is not learnt from as clean.

### Profile store — `retrain.py`, `rollback.py`, `eligibility.py`, `db.py`

*State.* `bp_user_behaviour_profile`: a row per customer and currency, with the
statistics, a version, a status, the tenure and the counts the gate looks at.
`bp_profile_history`: append-only snapshots.  A PostgreSQL advisory lock per
customer.

*Operations.* `retrain_customer` takes the lock without waiting, reads the previous
rows, the clean transactions, the fraud count and the tenure in four statements,
and upserts a row and a snapshot per currency in one transaction.
`rollback_entity` writes a snapshot of a customer back, and `rollback_run` those of a
run, without the lock.  `profile_is_trusted` is the gate every reader applies.

*Hard.* Four snapshots of a store that ingestion is writing to; a rollback in the
middle; a lock that must be released by every way out; figures carried from build
to build that nothing can recompute.

*Correct when* builds happen one after another, and no row is trusted on the
strength of transactions since flagged, or of an age or a count that was never
there.

### Batch profile build — `build_profiles.py`, `extract_transactions.py`, `extract_tenure.py`

*State.* Two CSV files; the same profile table as above, with the run that last
stamped each row; `bp_build_run`; the peer baselines.

*Operations.* The extracts replace a file each.  A run loads them, aggregates the
clean rows per account, reads the profiles there are, rebuilds an account or only
touches its row, and commits in many steps: the run, the upserts, the touches, the
snapshots, the prune, the peers, `done`.

*Hard.* A decision to skip taken long before it is written; a retrain that writes the
same row in between; a death between any two commits; a prune by what a row does
*not* say; one decision per account where the table has a row per currency.

*Correct when* a finished run leaves the table equal to the population, what it wrote
can be rolled back to, and what it skipped is nearly up to date.

### Model registry and serving — `ml/registry.py`, `ml/train.py`, `ml/serve.py`, `service.py`

*State.* One JSON index of models with the active and the previous one; an
`lru_cache` with the active model in every API worker.

*Operations.* Training registers a candidate and, with `--promote`, promotes it if it
passes the gate; an operator rolls back; a worker loads the active model at its first
request and forgets it on `POST /reload`.

*Hard.* Load, change and save without a lock, in place; a gate that looks before it
promotes; a rollback that saves twice; a slow load that puts the former model back.

*Correct when* the index agrees with itself, nothing is served that failed the gate,
no worse model replaces a better one, and a reload takes effect.

### API key — `manage_api_key.py`, `service.py`

*State.* `bp_api_key`, of whose rows one may be active; a hash with a time in every
worker.

*Operations.* `rotate` and `revoke`; `require_api_key`, whose lookup is a check, a
query and a store by any of a worker's threads; `/reload`.

*Hard.* Operators waiting on each other's row locks; a lookup that stores what it read
before a rotation or a reload; a store that does not answer, for which the old hash is
kept.

*Correct when* one key is active, a former one is refused within the TTL, the new one
is accepted within it, and a reload makes that immediate.

### Alerts and monitoring — `sync_manager.py`, `ml/retrain_trigger.py`, `ml/monitor.py`, `audit.py`

*State.* `bp_alert_state`: a signature per alert; `bp_decision_feedback`; in each
process a bounded queue of error messages and the time each was last accepted.

*Operations.* After every pull the scheduler asks whether a retrain is due and whether
the model is healthy, and `_alert_once` saves a new signature, commits and posts.  The
log handler queues errors for Slack, at most one of a kind per cooldown.

*Hard.* The post is after the commit and either may fail; two windows of time, on
different columns; a check that fails half way; a full queue.

*Correct when* a state is announced once and not missed without a trace, what is saved
comes to be true, and an error that goes on is heard of again.

### Scoring — `ml/serve.py`, `ml/geo_state.py`, `ml/live_velocity.py`, `ml/geo*.py`, `ml/pluscode.py`, `ml/codes.py`, `ml/models/ensemble.py`

*State.* In Redis, a customer's last point and recent transactions; the cached
transactions; in a worker, a lock around the history query and a cooldown after a
failed connection.

*Operations.* `score_payload` reads the history and the live window, scores, reads and
replaces the last point, and records the transaction in the live window.  Blending,
tiers, the explanation, plus codes and the waterfall of location evidence are
functions.

*Hard.* Requests of one customer interleave, and with the sync, which moves
transactions from one store to the other; retries with another date; pruning by the
date of whoever comes last; thresholds and waterfalls written out twice; digits at the
edge of a block.

*Correct when* nobody's transactions are counted twice or missed, a speed is only told
of two places at two times, every request is answered, and detectors that agree decide.

### Training — `ml/train.py`, `ml/pipeline/*`

The cached transactions become training rows: a window, a validation, weak labels
overruled by the analysts' verdicts, and a minimum of evidence per customer.  Correct
when confirmed fraud is never learnt and what was cleared is.  The features and the
fitting of the detectors are numerics.

### Not modelled

Client thresholds (one upsert nothing reads any more), store access and configuration,
deployment, watchdog, migration and demos: see [What is not modelled](#what-is-not-modelled).

## The modules

| module | models | extends |
|---|---|---|
| `WebhookOutbox` | the outbox: handler, inline task, relays | |
| `DeliveryPromise` | what the outbox promises its consumer | |
| `OutboxRefinement` | the mapping from the first to the second | `WebhookOutbox` |
| `SyncManager` | ingestion | |
| `ProfileStore` | one customer's profile: retrains, rollback, gate | |
| `BatchBuild` | the extracts and the batch build, beside a retrain | |
| `ModelRegistry` | the index of models, the training runs and rollbacks that change it | |
| `ModelServing` | a worker's model, and `/reload` | `ModelRegistry` |
| `KeyCache` | the API key and a worker's cache of it | |
| `Scoring` | the state `POST /score` reads and writes while it scores | |
| `Decision` | the blend, the tiers, the codes and the description | `Call` |
| `PlusCode` | plus codes, one axis at a time | `Call` |
| `Geo` | the waterfall of location evidence | `Call` |
| `Alerts` | the scheduler's checks and `_alert_once` | |
| `Training` | which transactions are learnt | `Call` |
| `ErrorRelay` | the forwarding of errors to Slack: throttle, queue, worker | |
| `Call` | the argument a function is called with | |
| `MC*` | instances for TLC: symmetry, small functions and sets | |
| `SyncManager_proofs`, `ProfileStore_proofs`, `BatchBuild_proofs`, `ModelServing_proofs`, `KeyCache_proofs` | theorems | what their names say |
| `WebhookOutbox_proofs` | theorems, the refinement among them | `OutboxRefinement` |
| `Scoring_proofs` | theorems on the state and the functions of `POST /score` | `Scoring`, `Decision`, `Geo` |
| `Monitoring_proofs` | theorems on what watches the system | `Alerts`, `Training`, `ErrorRelay` |

Three modules compose others: `ModelServing` extends `ModelRegistry`, so that every job
on the index interleaves with the workers; `MCScoring` and `MCMonitoring` put the
functions next to the state machines that call them and check both in one run.  A
function without state is called with one argument after another, in `call`, so that a
counterexample names the argument; the calls are made in the initial states, before the
machine beside them moves.  `BatchBuild` has a retrain of its own instead of extending
`ProfileStore`: what the two share is the row, and the columns that matter to each are
different ones.

A definition named after another with a suffix (`RelayTake_NoRecheck`,
`Promoted_TwoActive`) is a mutant: a plausible bug in that definition.  Every property a
run checks is known to fail when one of them takes its definition's place.  Nothing
else uses them.

### WebhookOutbox

| state | code |
|---|---|
| `row[d]` | the three `webhook_*` columns of `bp_decision` |
| `delivery[d]` | how many `bp_webhook_delivery` rows of each status |
| `handler[d]` | where the request's `_score_with_model`, then its `deliver_and_record`, stands |
| `inlineRec`, `relayRec` | the record `deliver()` returned, not yet stored |
| `todo`, `holding`, `prevAttempts` | a relay's list, the row it has locked, the count it read |
| `received[d]` | POSTs that reached the receiver: what nobody in the program can see |

One action is one stretch of code between two points at which another process can
get in: a statement on a locked row, a commit, a POST.  `Commit` has the three
outcomes a commit has: done, failed, and — when `log_event` has left the transaction
aborted — a silent rollback.  `Deliver` says that a POST may have arrived although
its answer was an error.  A row lock is `holding`; the inline task waits for it, a
relay skips.

Time is the one thing these guards ask of it: `next` is `later`, then `due`.
`GraceCoversInline` is the assumption the deployment makes, that an inline delivery
has ended when the grace period has (its timeout is set shorter by default, and
nothing enforces that the record that follows is quick); the model is checked with
and without it.

`DeliveryPromise` has no processes: a decision is owed, arrives, and is settled as
delivered or abandoned.  `OutboxRefinement` maps `webhook_status` to the phase and
"received at least once" to "the consumer has it".

### SyncManager

A row is an id, whether production calls it clean, and its age: within the refresh
window, within the learning window, or past both.  `run[s]` holds the locals of
`sync()` and `_pull_pass`; each database round trip is an action.  `IsChunk` is
`ORDER BY id LIMIT n` as a set: a least part of what matches, of that size unless
nothing is left.  `WriteChunk` commits all of a chunk or, when it holds a row the
store rejects (`BadRows`), none of it, and moves past it either way, as the code
does.  `Fail` is any exception, or the death of the process, in any state: the
handler's save may or may not have happened.

Production adds rows in any order of ids (`late` remembers which ones came out of
order), flips them from clean to flagged, and never back; rows age.  Nothing is
assumed of when: a row may leave the refresh window before any run has looked at it.

Two ghosts say what a refresh has promised.  A run `owes` the rows that were flagged
and in the refresh window when it began, unless another run then still held the row
fetched as clean; a row is struck off when it leaves the window, when the cap ends or
skips the refresh pass before it, and when its chunk is rolled back.  What a run that
completes still owes is `served`, until the row leaves the learning window.

### ProfileStore

One customer; a transaction is a currency and a number, and the statistics are
represented by the set of transactions they were computed from (`learned`), which
is what blending and staleness are about.  `Row` keeps the columns the gate reads
and those a rollback restores.  Every `SELECT` is an action, because the store runs
`READ COMMITTED`; the upserts, the snapshots and the commit are one.  The clock
counts half days so that the code's whole days (`timedelta.days`) lose something.
`Arrive` is ingestion writing a transaction dated now or earlier.  `fullJson` is
`STORE_HISTORY_JSON`: with it a snapshot restores the status and the tenure too.
`evidence[c]` is a ghost: what had been flagged when the retrain that last built the
row took its lock.

The confidence score is taken to be above its threshold, so the model trusts at
least the rows the code trusts.  A block that is lifted again is not modelled.
`RollbackEntity` is one action: it has two statements, the first of which reads a
table that only grows.  `RollbackRun` is one for each commit of `rollback_run`, which
restores the snapshots of a run in no stated order; every retrain stamps its snapshots
with the run `event`, so that any of the customer's may be the one that stays.
`rebuild_all_from_cache` and `maybe_retrain` retrain one customer after another.

### BatchBuild

A transaction is a number in order of its date; a row's statistics are represented by
`seen`, the newest transaction they were computed from, which is what the decision to
rebuild compares, and by the counts the gate looks at.  `build` holds a run's locals
from the aggregation on; each commit of `write_store` is an action, in the code's order,
and `Interrupted` may come between any two.  `retrain` is `retrain_customer` with its read
of the rows, its read of the transactions and its commit.  The files are copies of
production; a retrain reads `bp_transactions_cache`, which lags behind it: `Cached` is
what it may hold of a transaction, its status now or before, or nothing yet.  `Extract`
replaces the transactions and, or not, the tenure: if not, the file of another day stays,
and before the first there is none and no account has one.  `Loaded` is the read of the previous profiles,
which keeps one currency's row of each account.  Whether a profile has drifted is left
open, so the build may rebuild whenever the drift check might say so.  An operator
extracts before a run and not in the middle of one.

### ModelRegistry and ModelServing

`index` is what was last written to the file, `whole` whether the file can be read: `Open`
truncates it, `Write` writes the text, and between the two every `Load` raises; `torn` is a
ghost that a job has died there, after which it raises for ever.  When a second job has
written since this one opened the file, the end of a longer text may remain, and the
file does not parse: `Write` leaves that open.  A job is a training run or a rollback and
carries its copy of the index from `Load` to `Write`, as the code does.  A manifest is
its two scores, of which the gate takes the synthetic AUC if there is one.  `JobDies` may
come at any step.  `loading` is what threads of a worker are loading: the `lru_cache` does
not hold a lock while `_Model` is built, so a load that began before a reload may end
after it.  `overlapped` and `passed` are ghosts.

### KeyCache

A key is its hash, a number in order of issue.  An operator's command is the `UPDATE`,
which waits for a row another command has updated and not committed, and then the
`INSERT` with the commit, which the unique index may refuse.  A thread's lookup is a
check, a query and a store (`Request`, `Query`, `Return`); `look.sure` is a ghost that
says the store answered.  `Judging` is every hash a request may be judged by at this
moment.

### Scoring, Decision, PlusCode, Geo

`Scoring` has one customer and one worker with a model loaded.  A row is a transaction
and a date, because a retry without a timestamp is dated anew.  The history lock, the
history query, the read of the live window with the score, the read and the write of
the last point and the record in the live window are actions, each with the outcome
"the store failed", after which the module's client cools down (`backoff`, `Reconnect`).
`Forget` is Redis losing a key, by its expiry or a restart.  `req[r].known` is a ghost: what the stores held when the
request came in.

`Decision` computes with whole numbers from 0 to `Top`.  A detector has as many votes as
its weight and each vote gives as many points as the detector's score, so that the
weighted mean is points per vote; the risk is kept multiplied by the votes.  A feature with a threshold is the set of thresholds it passes.  `PlusCode` is
encoding, decoding and recovery on an axis whose base and number of digits are
parameters; the instance is small enough to try every place.  `Geo` has both copies of
the waterfall, as two operators.

### Alerts, Training, ErrorRelay

`Alerts` has the scheduler between its statements (`pc`), the decisions in their order, the
verdicts with the latest one winning, and the two windows: `gone` counts decisions that
have left the first, `old` the transactions whose first verdict has left the second.  A
signature is a set of problems with the numbers their text shows, for that is what
`_alert_once` compares.  `told` and `lost` are ghosts.  `Training` is a function of the
rows.  `ErrorRelay` has the handler, which one lock makes a step (`Emit`), the worker
(`Take`), the clock and restarts, which forget everything; `fates` is a ghost, what became
of each error.  It runs in the scoring service and the alerts in the scheduler, so in
`MCMonitoring` one of them rests at its start while the other moves.

## The runs

TLC checks every property below, and for each a mutant of the code violates it.

| run | instance | distinct states |
|---|---|---|
| `outbox_grace` | two decisions, two relays, two attempts, two faults, grace covers inline | 37 000 |
| `outbox_late` | one decision, two relays, three attempts, three faults, no grace | 5 069 |
| `sync_single` | one syncer, two rows, chunks of one, no cap, two faults | 99 750 |
| `sync_concurrent` | two syncers, two rows, chunks of one, `--full` allowed, a cap of one, one fault | 3 286 080 |
| `sync_settle` | two syncers, one row, no cap, one fault | 77 299 |
| `sync_poisoned_chunk` | one syncer, three rows, one of which is rejected | a violation, see below |
| `profile_store` | two retrainers, two currencies, three builds, a rollback, a fault, a clock | 2 117 424 |
| `batch_build` | two runs, a retrain, two accounts, two currencies, three transactions, a fault, a change of the world; of the last three any two | 680 762 |
| `model_serving` | two jobs that train or roll back, two versions, a worker, a fault | 841 631 |
| `api_key` | two operators, two threads, three keys, a TTL of two, five ticks, a fault | 3 520 437 |
| `scoring` | two requests of two transactions, one of them with two dates, an old row, a fault; every argument of four functions | 335 751 |
| `monitoring` | two decisions, two transactions, a fault; up to three rows; four errors of three messages, a queue of one and a throttle of one | 1 409 003 |

**The outbox.**  `AckedIsFinal`: an acknowledged decision has one acknowledgement, stays
`sent` and is in no relay's hands.  `LifecycleForward`: a settled row is never written.
`MeetsPromise`: the refinement of `DeliveryPromise`, liveness included.  Without the
grace assumption these fail (see below), and what remains is checked by `outbox_late`:
`AttemptsAreLogged` (the count that decides retries is the log's length),
`HeldRowIsStable`, `PostsAreAccounted` (every duplicate is paid for by a fault),
`TerminalIsEarned` (a row is dead only when its budget is used up, and a late record adds
at most one attempt to it) and `OutboxDrains`.

Two decisions are enough for a batch with a row that changes while an earlier one is
handled, two relays for every race on a row, and the inline task is the third
writer.  A second decision adds nothing to the race on one row, so `outbox_late`
spends its states on a third attempt and a third fault instead.

**Ingestion.**  `WatermarkCovered`: a row behind the watermark and in the learning
window is cached.  `FlipsCaught`: what a completed run has refreshed as flagged is flagged
in the cache from then on, whatever runs overlap with it or come later.  The cap of one in
`sync_concurrent` skips the refresh pass after a new row and cuts it short after one row.
`LateRowsCaught` and `FlipsSettle` are the liveness of the refresh pass, without a cap:
with one it has none (see below).  Two rows and chunks of one give a run that ends between two chunks, a
row before and a row behind the watermark, and a late row; a third row repeats those
cases.

**The profile.**  `VersionsInOrder`: each currency's snapshots carry 1, 2, ... once
each (while nothing is rolled back).  `LockHasOwner`: a retrain under way holds the
lock, alone.  `TrustIsClean`: no row is trusted whose build began with more flagged
transactions than the gate allows that are still in the window.  `FiguresAreEarned`:
at the customer's latest build some transaction really was `tenure_days` old, and
that many transactions have been made.  Three builds let a second retrain read what
the first wrote, lose the lock to a crash, and a third carry the result on; one
rollback can land between any two statements; three half days let a whole day pass
and half of one be lost, and let a transaction leave the window.

**The batch build.**  `TableIsPopulation`: after a run, every account of the file has a
profile, and after a prune no row is left that a batch stamped of an account that is not
in it.  `DoneRunsAreSnapshotted`: what a run marked done has written has its snapshot,
and a run that died is never marked done.  `SkippedBarelyChanged`: after a run, an account
of the file that was skipped has a row that lacks fewer than `MinNew` transactions, and one
that was rewritten has a row that lacks none of its own currency, but for transactions that a
retrain which wrote since did not find clean in its cache (`owed`).  Two runs let the second find what the first,
whole or interrupted, has left; the second account is the one that leaves the population.

**Models.**  `IndexIsSound` and `NeverPushedWorse` speak of jobs made one after another:
that is what the code achieves without a lock.  `IndexIsSound` says that the file can be read
at every moment but that between a truncation and its write, that a death in that moment, and
no other, loses it, and that what can be read agrees with itself.
`ServedPassedGate` holds however they overlap.  `ReloadTakesEffect` excepts a load in
flight at the reload, which puts the former model back.  Two versions give an active and
a previous model, and a gate that compares them by either score.

**The key.**  `AnswersFollowKey`: judged by an answer of the store, an inactive key is
accepted for less than a TTL, and the key that has been active that long is not refused.
`ReloadDropsKey`: after a reload a key that was inactive then is refused, unless a lookup
was in flight.  A TTL of two ticks distinguishes the time of the check from the time of
the answer; three keys are two rotations.

**Scoring.**  `VelocityIsExact`: between what a request must count and what there is to
count, each transaction once.  `GeoIsHonest`: a speed is told only of another request's
point, elsewhere and earlier.  `Answered`: a request that has been through the history is
answered, and every request is if no history query goes on for ever.  `AgreementDecides`, `DescriptionMatchesSignals`,
`RecoversNearest` and `DetailAgrees` compare the functions with what they promise, for all
blends of three detectors over five scores, all sets of up to two flags, all places of two
small axes (one circular), and all payloads and hooks; each is a state of its own, in
which the function has been called with that argument.

**Monitoring.**  `AnnouncedOnce`: nothing is posted twice before another state was saved,
and a check that finds a problem and stays quiet has told Slack or lost that message.
`AlertsSettle`: when the world stands still the saved signatures become true.
`VerdictsDecide`: the verdicts overrule the status, and who is learnt has the evidence.
`ErrorsKeepComing`: a message is throttled exactly when it was accepted less than a
cooldown ago and not forgotten since; everything is forgotten only when the throttle holds
too many; throttle and queue are bounded.  A queue and a throttle of one make four errors
enough for a drop, a repeat of what was dropped, and a clearing.

**Fairness.**  `WebhookOutbox!Fairness`: time passes, a background task that has
started goes on (or its process dies, which uses a fault), and each relay keeps
sweeping — `run_forever` catches every error and loops.  Nothing is assumed of
clients.  `SyncManager!FairSpec`: a syncer keeps taking steps — `run_forever` starts
a run again and again.  `Alerts!FairSpec`: the same loop, with its checks.  These three
loops assume that the store answers or fails: production, the webhook and Slack are called
with timeouts, the store's connections have none.  `Scoring!FairSpec` assumes less: a thread
goes on with its request, weakly, but for the history query, which the store may keep with
the lock held; Redis has a timeout.  Weak fairness is enough for the lock because the
requests are finitely many.  Nothing is assumed of
production, of the calendar, of analysts or of operators.  The profiles, the registry and
the key have no liveness property: nothing in the code makes anyone act.

**Bounds.**  `MaxFaults` bounds crashes and failed statements, `MaxAttempts` is the
code's own limit, `MaxId`, `TxnsPerCcy`, `MaxTxns`, `MaxLog` and `MaxRows` the rows,
`MaxTime` the clock, `MaxBuilds`, `MaxRollbacks`, `MaxRuns`, `MaxRetrains`, `MaxChanges`,
`MaxVersions` and `MaxKeys` the operations they name, `MaxNew`, `MaxErrors` and `MaxClock`
the inputs of the alerts and of the error relay.  `batch_build` has a `CONSTRAINT` besides,
`Bounded`: a behaviour is not followed beyond its last run, for all that is checked is about a
run and what precedes it, and of the retrain, the interruption and the change any two
occur together, never all three; the theorems know no such limit.  Deadlock is not checked where the system stops when
everything has been handled or a bound is reached; ingestion and the scheduler never
stop, and there it is.

## What the runs found

- **One bad row loses its chunk** (`sync_poisoned_chunk`, `sync_manager.py:234`).  The
  per-row `except` has no savepoint under it; the rest of the transaction is refused
  and rolled back, and the watermark goes past it.  The docstring says that the row is
  skipped and the run continues.

The properties are stated for what the code does.  Where a doc or a comment says more,
the model shows the difference, and there is no run of its own for it:

- *A late inline record reopens a settled row* (`webhooks.py:135`).  `deliver_and_record`
  looks at the row's attempts but not at its status, so a failure recorded after the
  relay's success turns `sent` into `pending`.  The schema documents `pending -> sent |
  dead`.  `LifecycleForward` therefore needs `GraceCoversInline`.
- *The cap starves the refresh* (`sync_manager.py:438`).  The refresh pass gets what the
  new pass left of `SYNC_MAX_ROWS`, always from id 0; `config.py:328` says that the window
  is re-pulled on every run.  Rows beyond the cap-th of the window are never asked for again,
  and `FlipsCaught` promises nothing of them.
- *A failed run may rewind the watermark* of a concurrent one (`sync_manager.py:501`),
  although "a failure NEVER rewinds" (369).  By `WatermarkCovered` it costs work and no
  rows.
- *A POST may not be in the log* that "records EVERY attempt" (`schema_pg.sql:437`), when
  its transaction fails; `PostsAreAccounted` bounds how many.
- *A dirty customer keeps a trusted profile* (`retrain.py:341`).  When everything cached is
  excluded the retrain leaves the row alone, with an `active` status and a fraud count
  from before; the note it returns says that they stay untrusted.
- *A rollback blends currencies* (`rollback.py:68`): the `UPDATE` names the customer only.
- *A rollback to a run has no order* (`rollback.py:103`): all retrains share the run
  `event`, and of a customer's snapshots the one the store lists last stays.
- *Tenure carried forward by whole days* loses the fraction at every retrain
  (`retrain.py:127`), where `ingestionstratimprove.md:527` calls it exact.
- *Fraud is no reason to rebuild* in the batch: a row the run only touches keeps its trust
  (`build_profiles.py:535`), and the touch sets `updated_at`, from which the next run
  counts the age.
- *A retrain may put a row back* (`retrain.py:340`, 383): it computes from a cache that lags
  behind production and commits later, so that it can write over a row the batch has just
  rebuilt from production with one that has seen less; `SkippedBarelyChanged` excepts what it
  did not find.
- *The prune removes a fresh row* (`build_profiles.py:744`): of an account the run rewrote,
  it spares the rows with the run's stamp only, and so removes another currency's row that
  a retrain has just refreshed, when an earlier run had stamped it.
- *Two builds, or two jobs on the registry, that overlap* undo each other's work: the prune
  spares one run's rows only, and the index has no lock.
- *A death while the index is being saved loses it* (`ml/registry.py:27`): it is truncated
  before it is written, and nothing restores it, although the docstring (5-6) keeps "the
  previous known-good so we can roll back"; every later load raises.
- *A hung history query stops a worker* (`ml/serve.py:107`): it is made under the lock every
  request waits for, on a connection without a timeout (`ml/config.py:56`), although "scoring
  must never fail on a history miss" (118).
- *A lost manifest* is never looked for: a version written over by another job's save can
  be promoted by its own gate and is then active without an entry.
- *Reload reaches one worker* (`service.py:900`); the others go on with the model they have,
  and `behaviour_change` compares with that one.
- *A standing condition is announced again* whenever the numbers in its signature move
  (`sync_manager.py:616`), although `README.md:440` says once; and decisions that cannot
  be read are taken for healthy (637).
- *A retry counts itself* in the velocity, although `live_velocity.py:88` says it does not,
  and a transaction dated far ahead prunes what the others still need.
- *Last writer wins* on the last point is called conservative (`geo_state.py:12`); what it
  costs is a speed that is not told.
- *The burst thresholds* need one transaction more than their comment says
  (`ml/codes.py:96`).

## The proofs

TLAPS checks every step; nothing is assumed but the named assumptions on the
constants in the modules.

**`WebhookOutbox_proofs`.**  `TypeCorrect`; `AttemptsLogged` (`AttemptsAreLogged`);
`HeldStable` (`HeldRowIsStable`); `Lifecycle` (`LifecycleForward`) and `AckedFinal`
(`AckedIsFinal`), both for `GraceCoversInline`; `TerminalEarned` (`TerminalIsEarned`);
`PostsAccounted` (`PostsAreAccounted`).  Only the types are inductive.  What carries the
others is `LockInv`: the count is the log's length, a decision not yet committed has no row, no
list and no lock, and a held row is due with the count its holder read — `RelayCommit`
writes back a count read earlier, and only the lock makes it still the current one.
With the grace period, `GraceInv` adds that a row the inline task may still write is not
due, so no relay can have settled it; with `OneAck` a success is then the last attempt of
its log.  `EarnedInv` follows a success from the receiver to the row: whoever is about to
record one was received, a pending row has an attempt left, and a count beyond the budget
is the late inline record's.  For `PostsAccounted`, every step adds to the log, to what is
in flight or to the faults what it adds to the posts (`Balance`); the exception is a
decision without a row, which was posted at most once, and only because a fault lost the
row (`LostRow`).

`PromiseKept` is the safety half of `MeetsPromise`, for `GraceCoversInline`.  Each step of the outbox maps to `Accept`, `Arrive`, `Settle` or a
stutter.  It needs the invariants above: a recorded success is of a decision received,
the row a relay writes is still owed, and a post of a settled decision does not happen.

**`SyncManager_proofs`.**  `TypeCorrect`; `Covered` (`WatermarkCovered`, if `BadRows` is
empty); `Caught` (`FlipsCaught`, for any cap, any syncers and any rejected rows).  A run may save ids it read or reached long ago, so the invariant speaks of
every id a run might still save: each is a *point*, a visible id with no gap up to it
in the cache.  Points are created by reading the watermark, which is one, and by a
chunk: ordered by id, from a point, with nothing visible between.  Every step of every
other process preserves points (`Grow`): rows in the window stay cached, and a row
that appears below a visible id is late by definition.  That is also why a rewind loses
nothing: the older id is a point too.  For `Caught`, `FlipInv` says of
every row owed or served that it is settled: flagged for good, and held as clean by no run.
A settled row stays settled, because every chunk is fetched from production
(`SettledStep`), and once cached as flagged it stays so under every write and prune
(`CacheKept`).  `Kept` follows the refresh pass: what it owes is cached up to its last id,
is in the chunk it has fetched beyond (`ChunkReaches`, for any limit the cap leaves), and is
all cached once the pass is through.

**`ProfileStore_proofs`.**  `TypeCorrect`; `Exclusive` (`LockHasOwner`); `CleanTrust`
(`TrustIsClean`); `FiguresEarned` (`FiguresAreEarned`); `VersionsOrdered`
(`VersionsInOrder`).  For `CleanTrust` the invariant
is that a run's fraud count, once taken, and a row's, once written, are no less than the
evidence that is still in the window: evidence was flagged before the count was taken,
stays flagged, and can only leave the window.  A rollback does not touch the fraud
count, so the gate still sees it — which is what the mutant `RestoreRow_Fraud` breaks.
For `FiguresEarned` a tenure is earned by an instant if some transaction seen was that
old then; a row's, a snapshot's and a run's tenure are earned by the customer's latest
build or by now, and carrying whole days forward keeps that.  For `VersionsOrdered` the
invariant (`VersionInv`) is that what a retrain has read of the rows is still what they are,
which is what the lock is for.

**`BatchBuild_proofs`.**  `TypeCorrect`; `DoneSnapshotted` (`DoneRunsAreSnapshotted`);
`TableCurrent` (`TableIsPopulation`).  What a
run has written will be in a snapshot of it, or is (`Pending`): the accounts still to be
written are among those still to be snapshotted, and the version is the one computed at
the start.  A run's number is new when it begins, so no row of an interrupted run is taken
for its own.  For `TableCurrent`, each account of the file is still to be rewritten, or to be
touched and has a row, or has a row with the run's stamp (`Covering`), which the prune will
spare; a retrain removes no row and keeps its stamp.  `NoneFarBehind`
(`SkippedBarelyChanged`): from the decision on, an account that is touched has a row that
lacks fewer than `MinNew` of the transactions that are still clean, and one that is
rewritten has, or will have, its default currency's row at the newest of them
(`BehindInv`).  A retrain may take a row back, but then only to the newest of what it found
in the cache, and of what it did not find the run is no longer owed; what is lacking of what
is still owed only shrinks (`FewerLack`).
The types need that a non-empty set of transactions has a newest one, which
`LastIsTxn` takes from the well-foundedness of `<`.

**`ModelServing_proofs`.**  `TypeCorrect`; `SoundIndex` (`IndexIsSound`);
`OnlyPassedServed` (`ServedPassedGate`); `ReloadWorks` (`ReloadTakesEffect`); `NeverWorse`
(`NeverPushedWorse`).  Two invariants carry them.  `PassedGate` follows a version through
every place it may wait: the index, each job's stale copy of it, the version a rollback
will restore, the loads and the caches; no step puts one there that has not passed, which
needs no order between jobs.  `InTurn` is what a job that runs alone knows of the index at
each step: its copy is the index, the version it registers is not in it yet, the one it
promotes is a candidate that is no worse than the active one, or is the previous one.
`SaveInTurn` is the step where that matters: the save of each of the three operations.
That the file can be read is `Readable`: a job that runs alone finds it whole when it
opens it, and only its own death between truncation and write leaves it otherwise.

**`KeyCache_proofs`.**  `TypeCorrect`; `OneActive` (`OneKeyActive`, which no run checks:
the unique index gives it and the invariant needs it); `AnswersFollow`
(`AnswersFollowKey`); `ReloadDrops` (`ReloadDropsKey`).  A hash in the cache or in a
thread's hands was the active one at some time not before `look.at`, the time the request
began: so the former key was active less than a TTL before whoever is judged by it, and a
key that has been active for longer is the one that was read.  For `ReloadDrops`, the
keys dropped are in no fresh cache and no thread's hands.

**`Scoring_proofs`.**  `TypeCorrect`, for finite sets of cached rows; `SpeedHonest`
(`GeoIsHonest`): a point that is stored or has been read was left by a request that is past
its own write, and a request reads before it writes, so it never meets its own
(`PlaceInv`).  `VelocityExact` (`VelocityIsExact`), for any requests, retries, dates and
windows: what a request knows of stays in one of the two stores until it has asked both,
because the sync adds to the cache and takes nothing from the live window; only a request
dated `Retain` later prunes it (`HeldInv`, `Pruner`), and those rows it is not owed.  Then
it is counting: what it must count maps into what it counted, and that into what there was,
once for each transaction.

Of the functions, for every argument: `AgreementWins` (`AgreementDecides`), with any
detectors, whole weights, scores and ordered cuts: as many points as votes times the lowest
score are among the points, which are among votes times the highest; a score more takes none
away; and an order of risks is an order of tiers because all have the same votes.
`DescriptionsMatch` (`DescriptionMatchesSignals`), where no detector has the name of a
signal, and `DetailsAgree` (`DetailAgrees`), by cases.  `NearestRecovered`
(`RecoversNearest`), for any base, number of digits, axis and place: the recursive functions
behind the codes exist and are what they should be because of a least counterexample there is
none (`RecursionExists`); the digits of a place are the quotients of its divisions
(`ValuesAre`, `SumsAre`), so that a code is a block and a suffix a place in it; and of the
three blocks around the reference the one chosen is nearest (`SettledNear`, `Wrapped`,
`NoneNearer`).

**`Monitoring_proofs`.**  `TypeCorrect`; `SaidOnce` (`AnnouncedOnce`): a message about to be
posted is of the state saved and new to Slack since, and a problem that is saved was
told, or its message is lost or about to be posted.  `ErrorsAreForwarded`
(`ErrorsKeepComing`): the throttle holds one entry of each message accepted since it was
last emptied, with the time of the latest (`SeenIsWindow`), so that what it throttles and
when it is full can be read off the errors themselves.  `VerdictsDecided`
(`VerdictsDecide`), for any rows: a transaction id is kept once, so that to clear every
status is a bijection of what each customer is learnt from, which keeps its number and its
days.

What is only model-checked: liveness (`OutboxDrains`, `LateRowsCaught`, `FlipsSettle`,
`Answered`, `AlertsSettle`, the fair part of `MeetsPromise`), which is out of the prover's
reach.

## What is not modelled

Within the modelled components: HTTP payloads, signatures and status codes; backoff
lengths; the order in which due rows are listed; the throttle between chunks; columns
other than those named above; `retrain_decision`, whose counters
(`txns_since_build`, `drift_signal_count`) nothing in the service increments and which only
reads; the triggers on the age of the model and on the drift of its amounts; the
confidence score, taken to be above its threshold; a second worker's model or key cache,
which shares nothing with the first but the store.  The relay is assumed to be running
with the same URL as the API; deploying it otherwise is a configuration error the model
cannot see.

The detectors, the features other than velocity and the profile statistics are numerics:
they are judged by statistics and stand as free values or as the set of transactions they
come from.  The other read endpoints change no state.  Client thresholds are one upsert
that nothing in the scoring path reads; the store access layer and the configuration
provide the transactions and locks the modules use.  Deployment scripts, demos and load
tests are not part of the running system.

## Plan

Done: every component with a protocol of its own, in the order of what a mistake costs: a
decision lost or sent twice, a transaction lost or learnt wrongly, a customer trusted
wrongly, a worse model served, a former key accepted, a problem not heard of.

Every safety property the runs check is proved, for every value of the constants that its
module assumes.  Left: liveness, should the prover learn of `ENABLED`; and the parts of the
components that are modelled in part only.
