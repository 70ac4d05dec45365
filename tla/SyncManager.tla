---------------------------- MODULE SyncManager ----------------------------
(***************************************************************************)
(* Ingestion (sync_manager.py): runs that mirror the production            *)
(* transaction table into bp_transactions_cache behind a watermark on the  *)
(* production id.  A run makes a keyset pass over what is NEW since the    *)
(* watermark and a second one that REFRESHES the recent window, each in    *)
(* chunks that commit one by one, then prunes and saves the watermark.     *)
(*                                                                         *)
(* A row is its id, whether production calls it clean, and its age: within *)
(* the refresh window ("recent"), within the learning window ("window") or *)
(* beyond it ("old").                                                      *)
(***************************************************************************)
EXTENDS Naturals, FiniteSets

CONSTANTS
    MaxId,        \* production ids are 1..MaxId (bound of the model)
    Syncers,      \* processes that may run sync(): the loop, a CLI call
    BadRows,      \* ids whose upsert the store rejects (value too long, ...)
    ChunkSize,    \* config.SYNC_CHUNK_SIZE
    RowCap,       \* config.SYNC_MAX_ROWS, 0 = no cap
    FullAllowed,  \* TRUE: a run may be started with --full
    MaxFaults     \* bound of the model: failed and crashed runs

Ids == 1..MaxId

ASSUME SyncAssumption ==
    /\ MaxId \in Nat
    /\ BadRows \subseteq Ids
    /\ ChunkSize \in Nat \ {0}
    /\ RowCap \in Nat
    /\ FullAllowed \in BOOLEAN
    /\ MaxFaults \in Nat

VARIABLES
    prod,       \* production: id -> "absent", "clean" or "flagged"
    late,       \* ids that became visible after a higher id had
    age,        \* id -> "recent", "window" or "old"
    cache,      \* bp_transactions_cache, the same statuses
    watermark,  \* bp_sync_state.last_id
    status,     \* bp_sync_state.last_status
    run,        \* the local state of each syncer's sync()
    served,     \* ghost: flips that a completed run has refreshed, until old
    faults

vars == <<prod, late, age, cache, watermark, status, run, served, faults>>

-----------------------------------------------------------------------------
RowState == {"absent", "clean", "flagged"}
Phase    == {"idle", "begin", "connect", "fetch", "write", "passend",
             "prune", "finish"}

\* pass, last, total and cap are _pull_pass's; start, newLast and
\* committed are sync()'s; buf is the fetched chunk, as it was when fetched.
\* owes is a ghost: the flips that the run has to refresh.
Run == [pc: Phase, pass: {"new", "refresh"}, start: 0..MaxId,
        last: 0..MaxId, total: Nat, cap: Nat, newLast: 0..MaxId,
        committed: 0..MaxId,
        buf: [Ids -> RowState], owes: SUBSET Ids]

NoRows == [i \in Ids |-> "absent"]

Idle == [pc |-> "idle", pass |-> "new", start |-> 0, last |-> 0, total |-> 0,
         cap |-> 0, newLast |-> 0, committed |-> 0,
         buf |-> NoRows, owes |-> {}]

TypeOK ==
    /\ prod \in [Ids -> RowState]
    /\ late \subseteq Ids
    /\ age \in [Ids -> {"recent", "window", "old"}]
    /\ cache \in [Ids -> RowState]
    /\ watermark \in 0..MaxId
    /\ status \in {"new", "running", "ok", "failed", "blocked"}
    /\ run \in [Syncers -> Run]
    /\ served \subseteq Ids
    /\ faults \in Nat

Fault == faults < MaxFaults /\ faults' = faults + 1

SaveWatermark(id, st) == watermark' = id /\ status' = st

InWindow(pass, i) == IF pass = "new" THEN age[i] # "old" ELSE age[i] = "recent"

\* What "WHERE id > last AND <window>" matches.
Matching(r) == {i \in Ids : i > r.last /\ prod[i] # "absent"
                                       /\ InWindow(r.pass, i)}

Limit(r) == IF r.cap > 0 /\ r.cap - r.total < ChunkSize
            THEN r.cap - r.total ELSE ChunkSize

\* Mutant: no ORDER BY.
IsChunk_Unordered(ids, r) ==
    /\ ids \subseteq Matching(r)
    /\ ids = Matching(r) \/ Cardinality(ids) = Limit(r)
    /\ Cardinality(ids) <= Limit(r)

\* "ORDER BY id LIMIT limit": a least part of what matches, and all of it or
\* exactly limit rows.
IsChunk(ids, r) ==
    /\ ids \subseteq Matching(r)
    /\ \A i \in ids, j \in Matching(r) \ ids : i < j
    /\ ids = Matching(r) \/ Cardinality(ids) = Limit(r)
    /\ Cardinality(ids) <= Limit(r)

Fetched(r) == {i \in Ids : r.buf[i] # "absent"}

-----------------------------------------------------------------------------
(* One run of sync().                                                      *)

\* Flagged and to be refreshed, and no run still holds it fetched as clean.
Flips == {i \in Ids : /\ prod[i] = "flagged" /\ age[i] = "recent"
                      /\ \A q \in Syncers : run[q].buf[i] # "clean"}

\* db.connect and _read_watermark.
ReadWatermark(s, full) ==
    /\ run[s].pc = "idle"
    /\ full => FullAllowed
    /\ LET start == IF full THEN 0 ELSE watermark
       IN  run' = [run EXCEPT ![s] =
               [Idle EXCEPT !.pc = "begin", !.start = start, !.committed = start,
                            !.owes = Flips]]
    /\ UNCHANGED <<prod, late, age, cache, watermark, status, served, faults>>

\* _save_watermark(start_id, "running"), committed before anything is read.
MarkRunning(s) ==
    /\ run[s].pc = "begin"
    /\ SaveWatermark(run[s].start, "running")
    /\ run' = [run EXCEPT ![s].pc = "connect"]
    /\ UNCHANGED <<prod, late, age, cache, served, faults>>

Connect(s) ==
    /\ run[s].pc = "connect"
    /\ run' = [run EXCEPT ![s].pc   = "fetch",
                          ![s].last = run[s].start,
                          ![s].cap  = RowCap]
    /\ UNCHANGED <<prod, late, age, cache, watermark, status, served, faults>>

\* ProdPullDisabled: the safety switch is on.
Blocked(s) ==
    /\ run[s].pc = "connect"
    /\ Fault
    /\ SaveWatermark(run[s].start, "blocked")
    /\ run' = [run EXCEPT ![s] = Idle]
    /\ UNCHANGED <<prod, late, age, cache, served>>

\* One bounded query, or the end of the pass: cap reached, or nothing matches.  A
\* refresh pass that the cap ends owes nothing beyond.
Fetch(s) ==
    LET r == run[s] IN
    /\ r.pc = "fetch"
    /\ \/ /\ ~(r.cap > 0 /\ r.total >= r.cap)
          /\ \E ids \in SUBSET Ids :
                 /\ IsChunk(ids, r)
                 /\ ids # {}
                 /\ run' = [run EXCEPT
                        ![s].pc  = "write",
                        ![s].buf = [i \in Ids |-> IF i \in ids THEN prod[i]
                                                               ELSE "absent"]]
       \/ /\ r.cap > 0 /\ r.total >= r.cap
          /\ run' = [run EXCEPT
                 ![s].pc   = "passend",
                 ![s].owes = {i \in @ : r.pass = "refresh" => i <= r.last}]
       \/ /\ ~(r.cap > 0 /\ r.total >= r.cap) /\ Matching(r) = {}
          /\ run' = [run EXCEPT ![s].pc = "passend"]
    /\ UNCHANGED <<prod, late, age, cache, watermark, status, served, faults>>

\* last_id and the row count advance whatever became of the rows; what a refresh
\* pass could not write it does not owe.
PastChunk(s, ids, lost) ==
    LET r == run[s] IN
    \E m \in ids :
        /\ \A i \in ids : i <= m
        /\ run' = [run EXCEPT ![s] =
               [r EXCEPT !.last  = m,
                         !.total = r.total + Cardinality(ids),
                         !.pc    = IF Cardinality(ids) < Limit(r)
                                   THEN "passend" ELSE "fetch",
                         !.buf   = NoRows,
                         !.owes  = {i \in @ : r.pass = "refresh" => i \notin lost}]]

\* Mutant: ON CONFLICT DO NOTHING.
WriteChunk_KeepsExisting(s) ==
    LET r == run[s] IN
    /\ r.pc = "write"
    /\ cache' = [i \in Ids |-> IF i \in Fetched(r) /\ cache[i] = "absent"
                               THEN r.buf[i] ELSE cache[i]]
    /\ PastChunk(s, Fetched(r), {})
    /\ UNCHANGED <<prod, late, age, watermark, status, served, faults>>

\* _write_chunk and store.commit().  Every statement of the chunk is in one
\* transaction: once the store rejects a row, the rest are refused and the
\* COMMIT rolls back, without an error reaching the loop.
WriteChunk(s) ==
    LET r   == run[s]
        ids == Fetched(r)
    IN
    /\ r.pc = "write"
    /\ cache' = IF ids \cap BadRows = {}
                THEN [i \in Ids |-> IF i \in ids THEN r.buf[i] ELSE cache[i]]
                ELSE cache
    /\ PastChunk(s, ids, IF ids \cap BadRows = {} THEN {} ELSE ids)
    /\ UNCHANGED <<prod, late, age, watermark, status, served, faults>>

\* The REFRESH pass gets what is left of the cap, or is skipped.
RefreshFrom(s, id) ==
    LET r == run[s] IN
    run' = [run EXCEPT ![s] =
        [r EXCEPT !.newLast   = r.last,
                  !.committed = IF r.total > 0 THEN r.last
                                              ELSE r.committed,
                  !.pass      = "refresh",
                  !.last      = id,
                  !.total     = 0,
                  !.cap       = IF RowCap > r.total THEN RowCap - r.total
                                                    ELSE 0,
                  !.pc        = IF RowCap = 0 \/ RowCap > r.total
                                THEN "fetch" ELSE "prune",
                  !.owes      = IF RowCap = 0 \/ RowCap > r.total THEN @ ELSE {}]]

\* Mutant: the refresh pass resumes where the new pass stopped.
EndNewPass_RefreshAfter(s) ==
    /\ run[s].pc = "passend" /\ run[s].pass = "new"
    /\ IF run[s].total > 0 THEN SaveWatermark(run[s].last, "ok")
                           ELSE UNCHANGED <<watermark, status>>
    /\ RefreshFrom(s, run[s].last)
    /\ UNCHANGED <<prod, late, age, cache, served, faults>>

\* The end of the NEW pass: the watermark moves if it saw rows.
EndNewPass(s) ==
    /\ run[s].pc = "passend" /\ run[s].pass = "new"
    /\ IF run[s].total > 0 THEN SaveWatermark(run[s].last, "ok")
                           ELSE UNCHANGED <<watermark, status>>
    /\ RefreshFrom(s, 0)
    /\ UNCHANGED <<prod, late, age, cache, served, faults>>

EndRefreshPass(s) ==
    /\ run[s].pc = "passend" /\ run[s].pass = "refresh"
    /\ run' = [run EXCEPT ![s].pc = "prune"]
    /\ UNCHANGED <<prod, late, age, cache, watermark, status, served, faults>>

Prune(s) ==
    /\ run[s].pc = "prune"
    /\ cache' = [i \in Ids |-> IF age[i] = "old" THEN "absent" ELSE cache[i]]
    /\ run' = [run EXCEPT ![s].pc = "finish"]
    /\ UNCHANGED <<prod, late, age, watermark, status, served, faults>>

Finish(s) ==
    /\ run[s].pc = "finish"
    /\ SaveWatermark(run[s].newLast, "ok")
    /\ served' = served \cup run[s].owes
    /\ run' = [run EXCEPT ![s] = Idle]
    /\ UNCHANGED <<prod, late, age, cache, faults>>

\* Any exception: last_committed_id is saved, if that statement succeeds.
Fail(s) ==
    /\ run[s].pc # "idle"
    /\ Fault
    /\ \/ SaveWatermark(run[s].committed, "failed")
       \/ UNCHANGED <<watermark, status>>
    /\ run' = [run EXCEPT ![s] = Idle]
    /\ UNCHANGED <<prod, late, age, cache, served>>

-----------------------------------------------------------------------------
(* Production and the calendar.                                            *)

Appear(i) ==
    /\ prod[i] = "absent"
    /\ prod' = [prod EXCEPT ![i] = "clean"]
    /\ late' = IF \E j \in Ids : prod[j] # "absent" /\ i < j
               THEN late \cup {i} ELSE late
    /\ UNCHANGED <<age, cache, watermark, status, run, served, faults>>

\* A clean transaction is blocked or blacklisted later, while it is recent.
Flip(i) ==
    /\ prod[i] = "clean" /\ age[i] = "recent"
    /\ prod' = [prod EXCEPT ![i] = "flagged"]
    /\ UNCHANGED <<late, age, cache, watermark, status, run, served, faults>>

\* A run that has not completed by now need not have asked for the row.
LeaveRefreshWindow(i) ==
    /\ prod[i] # "absent" /\ age[i] = "recent"
    /\ age' = [age EXCEPT ![i] = "window"]
    /\ run' = [s \in Syncers |-> [run[s] EXCEPT !.owes = @ \ {i}]]
    /\ UNCHANGED <<prod, late, cache, watermark, status, served, faults>>

LeaveLearningWindow(i) ==
    /\ age[i] = "window"
    /\ age' = [age EXCEPT ![i] = "old"]
    /\ served' = served \ {i}
    /\ UNCHANGED <<prod, late, cache, watermark, status, run, faults>>

-----------------------------------------------------------------------------
Init ==
    /\ prod = NoRows
    /\ late = {}
    /\ age = [i \in Ids |-> "recent"]
    /\ cache = NoRows
    /\ watermark = 0
    /\ status = "new"
    /\ run = [s \in Syncers |-> Idle]
    /\ served = {}
    /\ faults = 0

RunStep(s) ==
    \/ \E full \in BOOLEAN : ReadWatermark(s, full)
    \/ MarkRunning(s) \/ Connect(s) \/ Blocked(s)
    \/ Fetch(s) \/ WriteChunk(s) \/ EndNewPass(s) \/ EndRefreshPass(s)
    \/ Prune(s) \/ Finish(s) \/ Fail(s)

Environment(i) ==
    Appear(i) \/ Flip(i) \/ LeaveRefreshWindow(i) \/ LeaveLearningWindow(i)

Next == (\E s \in Syncers : RunStep(s)) \/ (\E i \in Ids : Environment(i))

Spec == Init /\ [][Next]_vars

\* run_forever starts a run again and again and never dies; a run that has
\* started ends: production has connect and statement timeouts (138-163), and the
\* store, whose connection has none, is assumed to answer or to fail.  Nothing is
\* assumed of what happens in production.
FairSpec == Spec /\ \A s \in Syncers : WF_vars(RunStep(s))

-----------------------------------------------------------------------------
(* What ingestion must keep.                                               *)

\* A row the watermark has passed is in the cache, as long as it is in the
\* learning window: the incremental query will never ask for it again.  Chunks
\* are durable before the watermark moves, through failed, crashed and
\* concurrent runs.  Rows that became visible out of order are not promised:
\* see LateRowsCaught.
WatermarkCovered ==
    \A i \in Ids \ (BadRows \cup late) :
        i <= watermark /\ prod[i] # "absent" /\ age[i] # "old"
            => cache[i] # "absent"

\* A transaction that was blocked or blacklisted is not learnt from as clean once
\* a run has refreshed it: one that began after that, when no other run still held
\* the row as clean, and that completed while the row was in the refresh window,
\* its refresh pass having gone as far as the row within the cap and the store
\* having taken the chunk.  It is so from then on, whatever runs overlap with it or
\* come later, fail or prune, until the row leaves the learning window.
FlipsCaught == \A i \in served : cache[i] = "flagged"

\* A row that became visible behind the watermark is still picked up, by the
\* refresh pass, while it is recent.
LateRowsCaught ==
    \A i \in Ids :
        prod[i] # "absent" ~> cache[i] # "absent" \/ age[i] # "recent"

\* A flip reaches the cache, and stays there, although concurrent runs may
\* overwrite the cache with the older status they had fetched.
FlipsSettle ==
    \A i \in Ids :
        <>[](prod[i] = "flagged" /\ age[i] = "recent" => cache[i] = "flagged")
=============================================================================
