------------------------ MODULE SyncManager_proofs ------------------------
(***************************************************************************)
(* Ingestion, for any number of rows, syncers, chunk sizes, caps, --full   *)
(* runs and faults: every row behind the watermark that became visible in  *)
(* id order is in the cache, if the store rejects no row (needed: see the  *)
(* run sync_poisoned_chunk); and what a run has refreshed as blocked or    *)
(* blacklisted stays so in the cache, whatever the store rejects.          *)
(***************************************************************************)
EXTENDS SyncManager, FiniteSetTheorems, TLAPS

-----------------------------------------------------------------------------
(* Type correctness.                                                       *)

\* A chunk is finite, so its length is a number.
LEMMA ChunkLength == ASSUME NEW ids \in SUBSET Ids PROVE Cardinality(ids) \in Nat
<1>1. IsFiniteSet(Ids)
  BY FS_Interval, SyncAssumption DEF Ids
<1>2. QED
  BY <1>1, FS_Subset, FS_CardinalityType

\* The local state of a sync() that is not running is well-formed.
LEMMA IdleType == Idle \in Run
BY SyncAssumption DEF Idle, Run, Phase, NoRows, RowState, Ids

\* The step of one syncer keeps its own run well-formed.
LEMMA RunType ==
    ASSUME TypeOK, NEW s \in Syncers, RunStep(s)
    PROVE  run' \in [Syncers -> Run]
<1> USE SyncAssumption DEF TypeOK
<1> DEFINE r == run[s]
<1>0. r \in Run
  OBVIOUS
<1>1. ASSUME NEW new \in Run, run' = [run EXCEPT ![s] = new]
      PROVE  run' \in [Syncers -> Run]
  BY <1>1
<1>2. ASSUME NEW full \in BOOLEAN, ReadWatermark(s, full)
      PROVE  run' \in [Syncers -> Run]
  <2> DEFINE start == IF full THEN 0 ELSE watermark
             new   == [Idle EXCEPT !.pc = "begin", !.start = start,
                           !.committed = start, !.owes = Flips]
  <2>1. start \in 0..MaxId
    OBVIOUS
  <2>2. new \in Run
    <3>0. Flips \subseteq Ids
      BY DEF Flips
    <3> HIDE DEF start
    <3>1. QED
      BY <2>1, <3>0, IdleType DEF Run, Phase
  <2>3. run' = [run EXCEPT ![s] = new]
    BY <1>2 DEF ReadWatermark
  <2>4. QED
    BY <1>1, <2>2, <2>3
<1>3. CASE MarkRunning(s)
  BY <1>0, <1>3 DEF MarkRunning, Run, Phase
<1>4. CASE Connect(s)
  BY <1>0, <1>4 DEF Connect, Run, Phase
<1>5. CASE Blocked(s) \/ Finish(s) \/ Fail(s)
  BY <1>1, <1>5, IdleType DEF Blocked, Finish, Fail
<1>6. CASE Fetch(s)
  <2>1. ASSUME NEW ids \in SUBSET Ids,
               run' = [run EXCEPT
                   ![s].pc  = "write",
                   ![s].buf = [i \in Ids |-> IF i \in ids THEN prod[i]
                                                          ELSE "absent"]]
        PROVE  run' \in [Syncers -> Run]
    <3> DEFINE buf == [i \in Ids |-> IF i \in ids THEN prod[i] ELSE "absent"]
    <3>1. buf \in [Ids -> RowState]
      BY DEF RowState
    <3>2. run' = [run EXCEPT ![s] = [r EXCEPT !.pc = "write", !.buf = buf]]
      BY <2>1
    <3>3. [r EXCEPT !.pc = "write", !.buf = buf] \in Run
      <4> HIDE DEF buf, r
      <4>1. QED
        BY <1>0, <3>1 DEF Run, Phase
    <3>4. QED
      BY <1>1, <3>2, <3>3
  <2>2. CASE run' = [run EXCEPT ![s].pc = "passend"]
    BY <1>0, <2>2 DEF Run, Phase
  <2>3. CASE run' = [run EXCEPT
                 ![s].pc   = "passend",
                 ![s].owes = {i \in @ : r.pass = "refresh" => i <= r.last}]
    BY <1>0, <2>3 DEF Run, Phase
  <2>4. QED
    BY <1>6, <2>1, <2>2, <2>3 DEF Fetch
<1>7. CASE WriteChunk(s)
  <2> DEFINE lost == IF Fetched(r) \cap BadRows = {} THEN {} ELSE Fetched(r)
             owes == {i \in r.owes : r.pass = "refresh" => i \notin lost}
  <2>1. PICK m \in Fetched(r) :
            run' = [run EXCEPT ![s] =
                [r EXCEPT !.last  = m,
                          !.total = r.total + Cardinality(Fetched(r)),
                          !.pc    = IF Cardinality(Fetched(r)) < Limit(r)
                                    THEN "passend" ELSE "fetch",
                          !.buf   = NoRows,
                          !.owes  = owes]]
    BY <1>7 DEF WriteChunk, PastChunk
  <2>2. Cardinality(Fetched(r)) \in Nat
    BY ChunkLength DEF Fetched
  <2>3. r.total + Cardinality(Fetched(r)) \in Nat
    BY <1>0, <2>2 DEF Run
  <2>4. m \in 0..MaxId
    BY DEF Fetched, Ids
  <2>5. NoRows \in [Ids -> RowState]
    BY DEF NoRows, RowState
  <2> DEFINE total == r.total + Cardinality(Fetched(r))
             pc    == IF Cardinality(Fetched(r)) < Limit(r)
                      THEN "passend" ELSE "fetch"
  <2>6. pc \in Phase
    BY DEF Phase
  <2>7. [r EXCEPT !.last = m, !.total = total, !.pc = pc, !.buf = NoRows,
                  !.owes = owes] \in Run
    <3>1. total \in Nat /\ owes \subseteq Ids
      BY <1>0, <2>3 DEF Run
    <3> HIDE DEF r, total, pc, owes
    <3>2. QED
      BY <1>0, <2>4, <2>5, <2>6, <3>1 DEF Run
  <2>8. QED
    BY <1>1, <2>1, <2>7
<1>8. CASE EndNewPass(s)
  <2> DEFINE committed == IF r.total > 0 THEN r.last ELSE r.committed
             cap == IF RowCap > r.total THEN RowCap - r.total ELSE 0
             pc  == IF RowCap = 0 \/ RowCap > r.total THEN "fetch" ELSE "prune"
             owes == IF RowCap = 0 \/ RowCap > r.total THEN r.owes ELSE {}
             new == [r EXCEPT !.newLast = r.last, !.committed = committed,
                              !.pass = "refresh", !.last = 0, !.total = 0,
                              !.cap = cap, !.pc = pc, !.owes = owes]
  <2>1. committed \in 0..MaxId /\ cap \in Nat /\ pc \in Phase /\ owes \subseteq Ids
    BY <1>0 DEF Run, Phase
  <2>2. new \in Run
    <3> HIDE DEF r, committed, cap, pc, owes
    <3> DEFINE half == [r EXCEPT !.newLast = r.last, !.committed = committed,
                                 !.pass = "refresh"]
    <3>1. half \in Run
      BY <1>0, <2>1 DEF Run
    <3>2. [half EXCEPT !.last = 0, !.total = 0, !.cap = cap, !.pc = pc,
                       !.owes = owes] \in Run
      <4> DEFINE zero == 0
      <4>1. zero \in 0..MaxId /\ zero \in Nat
        OBVIOUS
      <4> HIDE DEF half, zero
      <4>2. [half EXCEPT !.last = zero, !.total = zero, !.cap = cap, !.pc = pc,
                         !.owes = owes] \in Run
        BY <2>1, <3>1, <4>1 DEF Run
      <4>3. QED
        BY <4>2 DEF zero
    <3>3. QED
      BY <3>2, Zenon
  <2>3. run' = [run EXCEPT ![s] = new]
    BY <1>8 DEF EndNewPass, RefreshFrom
  <2>4. QED
    BY <1>1, <2>2, <2>3
<1>9. CASE EndRefreshPass(s)
  BY <1>0, <1>9 DEF EndRefreshPass, Run, Phase
<1>10. CASE Prune(s)
  BY <1>0, <1>10 DEF Prune, Run, Phase
<1>11. QED
  BY <1>2, <1>3, <1>4, <1>5, <1>6, <1>7, <1>8, <1>9, <1>10 DEF RunStep

\* Every variable of ingestion keeps its type.
LEMMA TypeStep == TypeOK /\ [Next]_vars => TypeOK'
<1> SUFFICES ASSUME TypeOK, [Next]_vars PROVE TypeOK'
  OBVIOUS
<1> USE SyncAssumption DEF TypeOK
<1>1. ASSUME NEW s \in Syncers, RunStep(s) PROVE TypeOK'
  <2>0. run' \in [Syncers -> Run]
    BY <1>1, RunType
  <2>1. run[s] \in Run
    OBVIOUS
  <2>2. ASSUME NEW full \in BOOLEAN, ReadWatermark(s, full) PROVE TypeOK'
    BY <2>0, <2>2 DEF ReadWatermark
  <2>3. CASE MarkRunning(s)
    BY <2>0, <2>1, <2>3 DEF MarkRunning, SaveWatermark, Run
  <2>4. CASE Connect(s)
    BY <2>0, <2>4 DEF Connect
  <2>5. CASE Blocked(s)
    BY <2>0, <2>1, <2>5 DEF Blocked, Fault, SaveWatermark, Run
  <2>6. CASE Fetch(s)
    BY <2>0, <2>6 DEF Fetch
  <2>7. CASE WriteChunk(s)
    <3>1. run[s].buf \in [Ids -> RowState]
      BY <2>1 DEF Run
    <3>2. cache' \in [Ids -> RowState]
      BY <2>7, <3>1 DEF WriteChunk
    <3>3. QED
      BY <2>0, <2>7, <3>2 DEF WriteChunk
  <2>8. CASE EndNewPass(s)
    BY <2>0, <2>1, <2>8 DEF EndNewPass, SaveWatermark, Run
  <2>9. CASE EndRefreshPass(s)
    BY <2>0, <2>9 DEF EndRefreshPass
  <2>10. CASE Prune(s)
    BY <2>0, <2>10 DEF Prune, RowState
  <2>11. CASE Finish(s)
    BY <2>0, <2>1, <2>11 DEF Finish, SaveWatermark, Run
  <2>12. CASE Fail(s)
    BY <2>0, <2>1, <2>12 DEF Fail, Fault, SaveWatermark, Run
  <2>13. QED
    BY <1>1, <2>2, <2>3, <2>4, <2>5, <2>6, <2>7, <2>8, <2>9, <2>10, <2>11,
       <2>12 DEF RunStep
<1>2. ASSUME NEW i \in Ids, Environment(i) PROVE TypeOK'
  <2>1. CASE Appear(i) \/ Flip(i) \/ LeaveLearningWindow(i)
    BY <2>1 DEF Appear, Flip, LeaveLearningWindow, RowState
  <2>2. CASE LeaveRefreshWindow(i)
    <3>1. \A s \in Syncers : [run[s] EXCEPT !.owes = @ \ {i}] \in Run
      BY DEF Run
    <3>2. QED
      BY <2>2, <3>1 DEF LeaveRefreshWindow
  <2>3. QED
    BY <1>2, <2>1, <2>2 DEF Environment
<1>3. CASE UNCHANGED vars
  BY <1>3 DEF vars
<1>4. QED
  BY <1>1, <1>2, <1>3 DEF Next

\* Every variable of ingestion keeps its type: TypeOK.
THEOREM TypeCorrect == Spec => []TypeOK
<1>1. Init => TypeOK
  BY SyncAssumption, IdleType DEF Init, TypeOK, NoRows, RowState
<1>2. QED
  BY <1>1, TypeStep, PTL DEF Spec

-----------------------------------------------------------------------------
(* The inductive invariant.                                                *)

\* Every row up to p that came in order and is to be learnt from is in the cache.
CoveredTo(p) ==
    \A i \in Ids \ late : i <= p /\ prod[i] # "absent" /\ age[i] # "old"
                              => cache[i] # "absent"

\* p is 0 or a visible row, so a row that appears below it is late.
Visible(p) == p = 0 \/ (p \in Ids /\ prod[p] # "absent")

\* The ids a syncer may save as the watermark, now or later.
Points(r) == {r.start, r.newLast, r.committed}
             \cup {p \in {r.last} : r.pass = "new"}

PointsCovered ==
    /\ CoveredTo(watermark) /\ Visible(watermark)
    /\ \A s \in Syncers : \A p \in Points(run[s]) : CoveredTo(p) /\ Visible(p)

\* A fetched chunk has no gap: whatever is visible in order between the pass's
\* last id and any row of the chunk is in the chunk.
ChunkHasNoGap ==
    \A s \in Syncers :
        /\ run[s].pc = "write"
        /\ run[s].pass = "new"
        => \A m \in Fetched(run[s]), i \in Ids \ late :
               /\ run[s].last < i /\ i <= m
               /\ prod[i] # "absent" /\ age[i] # "old"
               => i \in Fetched(run[s])

ChunkIsVisible ==
    \A s \in Syncers : \A i \in Fetched(run[s]) : prod[i] # "absent"

IInv == TypeOK /\ PointsCovered /\ ChunkHasNoGap /\ ChunkIsVisible

\* What any step does to production and the cache: rows stay visible, appear
\* above those already there or are late, grow older, and leave the cache only
\* when old.
Grow ==
    /\ \A i \in Ids : prod[i] # "absent" => prod'[i] # "absent"
    /\ \A i, j \in Ids :
           prod[i] = "absent" /\ prod'[i] # "absent" /\ prod[j] # "absent"
               => j < i \/ i \in late'
    /\ late \subseteq late'
    /\ \A i \in Ids : age[i] = "old" => age'[i] = "old"
    /\ \A i \in Ids : cache[i] # "absent" /\ age'[i] # "old"
                          => cache'[i] # "absent"

\* sync() leaves production and the ages alone and uncovers nothing.
LEMMA RunGrows ==
    ASSUME TypeOK, BadRows = {}, NEW s \in Syncers, RunStep(s)
    PROVE  Grow /\ UNCHANGED <<prod, late, age>>
<1> USE DEF TypeOK
<1>1. UNCHANGED <<prod, late, age>>
  BY DEF RunStep, ReadWatermark, MarkRunning, Connect, Blocked, Fetch,
         WriteChunk, EndNewPass, EndRefreshPass, Prune, Finish, Fail
<1>2. \A i \in Ids : cache[i] # "absent" /\ age[i] # "old"
                         => cache'[i] # "absent"
  <2>1. CASE WriteChunk(s)
    BY <2>1 DEF WriteChunk, Fetched
  <2>2. CASE Prune(s)
    BY <2>2 DEF Prune
  <2>3. CASE UNCHANGED cache
    BY <2>3
  <2>4. QED
    BY <2>1, <2>2, <2>3 DEF RunStep, ReadWatermark, MarkRunning, Connect,
       Blocked, Fetch, EndNewPass, EndRefreshPass, Finish, Fail
<1>3. QED
  BY <1>1, <1>2 DEF Grow

\* Production and the calendar uncover nothing and leave the runs alone, but for
\* what they owe.
LEMMA EnvironmentGrows ==
    ASSUME TypeOK, NEW i \in Ids, Environment(i)
    PROVE  /\ Grow /\ UNCHANGED watermark
           /\ \A s \in Syncers :
                  run'[s] = [run[s] EXCEPT !.owes = run'[s].owes]
<1> USE DEF TypeOK
<1>0. \A s \in Syncers : run'[s] = [run[s] EXCEPT !.owes = run'[s].owes]
  <2>1. \A s \in Syncers : run[s] = [run[s] EXCEPT !.owes = run[s].owes]
    BY DEF Run
  <2>2. ASSUME NEW s \in Syncers, LeaveRefreshWindow(i)
        PROVE  run'[s] = [run[s] EXCEPT !.owes = run'[s].owes]
    BY <2>2 DEF LeaveRefreshWindow, Run
  <2>3. QED
    BY <2>1, <2>2 DEF Environment, Appear, Flip, LeaveLearningWindow
<1>1. Grow
  <2>1. CASE Appear(i)
    <3>1. \A j \in Ids : prod[j] = "absent" /\ prod'[j] # "absent" => j = i
      BY <2>1 DEF Appear
    <3>2. \A j \in Ids : prod[j] # "absent" => j < i \/ i \in late'
      <4>1. \A j \in Ids : j # i => j < i \/ i < j
        BY SyncAssumption DEF Ids
      <4>2. QED
        BY <2>1, <4>1 DEF Appear
    <3>3. late \subseteq late'
      BY <2>1 DEF Appear
    <3>4. QED
      BY <2>1, <3>1, <3>2, <3>3 DEF Appear, Grow
  <2>2. CASE Flip(i)
    BY <2>2 DEF Flip, Grow
  <2>3. CASE LeaveRefreshWindow(i)
    BY <2>3 DEF LeaveRefreshWindow, Grow
  <2>4. CASE LeaveLearningWindow(i)
    BY <2>4 DEF LeaveLearningWindow, Grow
  <2>5. QED
    BY <2>1, <2>2, <2>3, <2>4 DEF Environment
<1>2. UNCHANGED watermark
  BY DEF Environment, Appear, Flip, LeaveRefreshWindow, LeaveLearningWindow
<1>3. QED
  BY <1>0, <1>1, <1>2

\* A covered point stays covered.
LEMMA PointStaysCovered ==
    ASSUME Grow, NEW p \in 0..MaxId, CoveredTo(p), Visible(p)
    PROVE  CoveredTo(p)' /\ Visible(p)'
<1>1. Visible(p)'
  BY DEF Grow, Visible
<1>2. ASSUME NEW i \in Ids \ late', i <= p, prod'[i] # "absent", age'[i] # "old"
      PROVE  cache'[i] # "absent"
  <2>1. prod[i] # "absent"
    <3>1. p \in Ids /\ prod[p] # "absent"
      BY <1>2, SyncAssumption DEF Visible, Ids
    <3>2. QED
      BY <1>2, <3>1, SyncAssumption DEF Grow, Ids
  <2>2. QED
    BY <1>2, <2>1 DEF Grow, CoveredTo
<1>3. QED
  BY <1>1, <1>2 DEF CoveredTo


\* The ids known to be covered before a step.
Old(p) == p = 0 \/ p = watermark \/ \E t \in Syncers : p \in Points(run[t])

\* An id that is known to be covered is an id, with no gap up to it.
LEMMA OldIsCovered ==
    ASSUME TypeOK, PointsCovered, NEW p, Old(p)
    PROVE  p \in 0..MaxId /\ CoveredTo(p) /\ Visible(p)
<1>1. CASE p = 0
  BY <1>1, SyncAssumption DEF CoveredTo, Visible, Ids
<1>2. CASE p = watermark
  BY <1>2 DEF TypeOK, PointsCovered
<1>3. ASSUME NEW t \in Syncers, p \in Points(run[t])
      PROVE  p \in 0..MaxId /\ CoveredTo(p) /\ Visible(p)
  <2>1. run[t] \in Run
    BY DEF TypeOK
  <2>2. p \in 0..MaxId
    BY <1>3, <2>1 DEF Points, Run
  <2>3. QED
    BY <1>3, <2>2 DEF PointsCovered
<1>4. QED
  BY <1>1, <1>2, <1>3 DEF Old

\* A step of a syncer other than a write saves, and will save, only ids that
\* were covered before.
LEMMA PointsAreOld ==
    ASSUME TypeOK, NEW s \in Syncers, RunStep(s), ~WriteChunk(s)
    PROVE  Old(watermark') /\ \A t \in Syncers : \A p \in Points(run'[t]) : Old(p)
<1> USE DEF TypeOK
<1>0. run[s] \in Run /\ run' \in [Syncers -> Run]
  BY RunType
<1>1. \A t \in Syncers \ {s} : run'[t] = run[t]
  BY DEF RunStep, ReadWatermark, MarkRunning, Connect, Blocked, Fetch,
         WriteChunk, EndNewPass, RefreshFrom, EndRefreshPass, Prune, Finish,
         Fail
<1>2. Old(watermark') /\ \A p \in Points(run'[s]) : Old(p)
  <2>0. Points(Idle) = {0}
    BY DEF Points, Idle
  <2>1. ASSUME NEW full \in BOOLEAN, ReadWatermark(s, full)
        PROVE  Old(watermark') /\ \A p \in Points(run'[s]) : Old(p)
    <3> DEFINE start == IF full THEN 0 ELSE watermark
    <3>1. /\ run'[s].start = start /\ run'[s].committed = start
          /\ run'[s].newLast = 0 /\ run'[s].last = 0
      BY <2>1 DEF ReadWatermark, Idle
    <3>2. Old(start) /\ Old(0)
      BY DEF Old
    <3> HIDE DEF start
    <3>3. \A p \in Points(run'[s]) : Old(p)
      BY <3>1, <3>2 DEF Points
    <3>4. QED
      BY <2>1, <3>3 DEF ReadWatermark, Old
  <2>2. CASE MarkRunning(s)
    <3>1. Points(run'[s]) = Points(run[s])
      BY <1>0, <2>2 DEF MarkRunning, Points, Run
    <3>2. watermark' \in Points(run[s])
      BY <2>2 DEF MarkRunning, SaveWatermark, Points
    <3>3. QED
      BY <3>1, <3>2 DEF Old
  <2>3. CASE Connect(s)
    <3>1. Points(run'[s]) \subseteq Points(run[s])
      BY <1>0, <2>3 DEF Connect, Points, Run
    <3>2. QED
      BY <2>3, <3>1 DEF Connect, Old
  <2>4. CASE Blocked(s)
    <3>1. run'[s] = Idle /\ watermark' \in Points(run[s])
      BY <2>4 DEF Blocked, SaveWatermark, Points
    <3>2. QED
      BY <2>0, <3>1 DEF Old
  <2>5. CASE Fetch(s)
    <3>1. Points(run'[s]) = Points(run[s])
      BY <1>0, <2>5 DEF Fetch, Points, Run
    <3>2. QED
      BY <2>5, <3>1 DEF Fetch, Old
  <2>6. CASE EndNewPass(s)
    <3>1. run[s].last \in Points(run[s])
      BY <2>6 DEF EndNewPass, Points
    <3>2. /\ run'[s].start = run[s].start /\ run'[s].newLast = run[s].last
          /\ run'[s].committed \in {run[s].last, run[s].committed}
          /\ run'[s].pass = "refresh"
      BY <1>0, <2>6 DEF EndNewPass, RefreshFrom, Run
    <3>3. Points(run'[s]) \subseteq Points(run[s])
      BY <3>1, <3>2 DEF Points
    <3>4. watermark' \in {watermark, run[s].last}
      BY <2>6 DEF EndNewPass, SaveWatermark
    <3>5. QED
      BY <3>1, <3>3, <3>4 DEF Old
  <2>7. CASE EndRefreshPass(s)
    <3>1. Points(run'[s]) = Points(run[s])
      BY <1>0, <2>7 DEF EndRefreshPass, Points, Run
    <3>2. QED
      BY <2>7, <3>1 DEF EndRefreshPass, Old
  <2>8. CASE Prune(s)
    <3>1. Points(run'[s]) = Points(run[s])
      BY <1>0, <2>8 DEF Prune, Points, Run
    <3>2. QED
      BY <2>8, <3>1 DEF Prune, Old
  <2>9. CASE Finish(s) \/ Fail(s)
    <3>1. run'[s] = Idle /\ watermark' \in Points(run[s]) \cup {watermark}
      BY <2>9 DEF Finish, Fail, SaveWatermark, Points
    <3>2. QED
      BY <2>0, <3>1 DEF Old
  <2>10. QED
    BY <2>1, <2>2, <2>3, <2>4, <2>5, <2>6, <2>7, <2>8, <2>9 DEF RunStep
<1>3. QED
  BY <1>1, <1>2 DEF Old

\* What a write does to its run: the pass moves to the last id of the chunk.
LEMMA PastFields ==
    ASSUME TypeOK, NEW s \in Syncers, WriteChunk(s)
    PROVE  \E m \in Fetched(run[s]) :
               /\ \A i \in Fetched(run[s]) : i <= m
               /\ run'[s].last = m /\ run'[s].buf = NoRows
               /\ run'[s].start = run[s].start
               /\ run'[s].newLast = run[s].newLast
               /\ run'[s].committed = run[s].committed
               /\ run'[s].pass = run[s].pass
               /\ run'[s].pc = IF Cardinality(Fetched(run[s])) < Limit(run[s])
                               THEN "passend" ELSE "fetch"
               /\ run'[s].owes =
                      {i \in run[s].owes : run[s].pass = "refresh" =>
                           \/ Fetched(run[s]) \cap BadRows = {}
                           \/ i \notin Fetched(run[s])}
<1> DEFINE r    == run[s]
           lost == IF Fetched(r) \cap BadRows = {} THEN {} ELSE Fetched(r)
<1>1. r \in Run /\ run \in [Syncers -> Run]
  BY DEF TypeOK
<1>2. PICK m \in Fetched(r) :
          /\ \A i \in Fetched(r) : i <= m
          /\ run' = [run EXCEPT ![s] =
                [r EXCEPT !.last  = m,
                          !.total = r.total + Cardinality(Fetched(r)),
                          !.pc    = IF Cardinality(Fetched(r)) < Limit(r)
                                    THEN "passend" ELSE "fetch",
                          !.buf   = NoRows,
                          !.owes  = {i \in r.owes :
                                       r.pass = "refresh" => i \notin lost}]]
  BY DEF WriteChunk, PastChunk
<1>3. \A i : i \notin lost <=> \/ Fetched(r) \cap BadRows = {}
                              \/ i \notin Fetched(r)
  OBVIOUS
<1> HIDE DEF lost
<1>4. /\ run'[s].last = m /\ run'[s].buf = NoRows
      /\ run'[s].start = r.start /\ run'[s].newLast = r.newLast
      /\ run'[s].committed = r.committed /\ run'[s].pass = r.pass
      /\ run'[s].pc = IF Cardinality(Fetched(r)) < Limit(r)
                      THEN "passend" ELSE "fetch"
      /\ run'[s].owes = {i \in r.owes : r.pass = "refresh" => i \notin lost}
  <2> HIDE DEF r
  <2>1. QED
    BY <1>1, <1>2 DEF Run
<1>5. QED
  BY <1>2, <1>3, <1>4

\* A write takes the pass to the end of a chunk that has no gap.
LEMMA WritePoints ==
    ASSUME IInv, BadRows = {}, NEW s \in Syncers, WriteChunk(s), Grow,
           UNCHANGED <<prod, late, age>>, NEW p \in Points(run'[s])
    PROVE  Old(p) \/ (p \in 0..MaxId /\ CoveredTo(p)' /\ Visible(p)')
<1> DEFINE r == run[s]
<1>1. r \in Run
  BY DEF IInv, TypeOK
<1>2. PICK m \in Fetched(r) :
          /\ \A i \in Fetched(r) : i <= m
          /\ run'[s].last = m
          /\ run'[s].start = r.start /\ run'[s].newLast = r.newLast
          /\ run'[s].committed = r.committed /\ run'[s].pass = r.pass
  BY PastFields DEF IInv
<1>3. /\ run'[s].start = r.start /\ run'[s].newLast = r.newLast
      /\ run'[s].committed = r.committed /\ run'[s].pass = r.pass
      /\ run'[s].last = m
  BY <1>2
<1>4. CASE p \in {r.start, r.newLast, r.committed}
  BY <1>4 DEF Old, Points
<1>5. CASE p = m /\ r.pass = "new"
  <2>1. m \in Ids /\ m \in 0..MaxId
    BY SyncAssumption DEF Fetched, Ids
  <2>2. Visible(m)'
    BY <2>1 DEF IInv, ChunkIsVisible, Visible
  <2>3. ASSUME NEW i \in Ids \ late, i <= m, prod[i] # "absent", age[i] # "old"
        PROVE  cache'[i] # "absent"
    <3>1. CASE i <= r.last
      <4>1. r.last \in Points(r)
        BY <1>5 DEF Points
      <4>2. cache[i] # "absent"
        BY <2>3, <3>1, <4>1 DEF IInv, PointsCovered, CoveredTo
      <4>3. QED
        BY <2>3, <4>2 DEF Grow
    <3>2. CASE r.last < i
      <4>1. i \in Fetched(r)
        BY <1>5, <2>3, <3>2 DEF IInv, ChunkHasNoGap, WriteChunk
      <4>2. QED
        BY <4>1 DEF WriteChunk, Fetched
    <3>3. r.last \in Int /\ i \in Int
      BY <1>1, SyncAssumption DEF Run, Ids
    <3>4. QED
      BY <3>1, <3>2, <3>3
  <2>4. QED
    BY <1>5, <2>1, <2>2, <2>3 DEF CoveredTo
<1>6. QED
  BY <1>3, <1>4, <1>5 DEF Points

\* Every id a run may save as the watermark stays covered.
LEMMA PointsStep ==
    ASSUME IInv, BadRows = {}, [Next]_vars
    PROVE  PointsCovered'
<1>1. ASSUME Grow, NEW p, Old(p)
      PROVE  CoveredTo(p)' /\ Visible(p)'
  BY <1>1, OldIsCovered, PointStaysCovered DEF IInv
<1>2. ASSUME NEW s \in Syncers, RunStep(s) PROVE PointsCovered'
  <2>1. Grow /\ UNCHANGED <<prod, late, age>>
    BY <1>2, RunGrows DEF IInv
  <2>2. CASE ~WriteChunk(s)
    <3>1. /\ Old(watermark')
          /\ \A t \in Syncers : \A p \in Points(run'[t]) : Old(p)
      BY <1>2, <2>2, PointsAreOld DEF IInv
    <3>2. \A p : Old(p) => CoveredTo(p)' /\ Visible(p)'
      BY <1>1, <2>1
    <3>3. QED
      BY <3>1, <3>2 DEF PointsCovered
  <2>3. CASE WriteChunk(s)
    <3>1. watermark' = watermark /\ Old(watermark)
      BY <2>3 DEF WriteChunk, Old
    <3>2. \A t \in Syncers \ {s} : run'[t] = run[t]
      BY <2>3 DEF WriteChunk, PastChunk, IInv, TypeOK
    <3>3. \A p : Old(p) => CoveredTo(p)' /\ Visible(p)'
      BY <1>1, <2>1
    <3>4. \A p \in Points(run'[s]) : CoveredTo(p)' /\ Visible(p)'
      BY <2>1, <2>3, <3>3, WritePoints
    <3>5. \A t \in Syncers \ {s} : \A p \in Points(run[t]) : Old(p)
      BY DEF Old
    <3>6. QED
      BY <3>1, <3>2, <3>3, <3>4, <3>5 DEF PointsCovered
  <2>4. QED
    BY <2>2, <2>3
<1>3. ASSUME NEW i \in Ids, Environment(i) PROVE PointsCovered'
  <2>1. /\ Grow /\ UNCHANGED watermark
        /\ \A t \in Syncers : Points(run'[t]) = Points(run[t])
    <3>1. \A t \in Syncers : run[t] \in Run
      BY DEF IInv, TypeOK
    <3>2. \A t \in Syncers : run'[t] = [run[t] EXCEPT !.owes = run'[t].owes]
      BY <1>3, EnvironmentGrows DEF IInv
    <3>3. ASSUME NEW t \in Syncers
          PROVE  /\ run'[t].start = run[t].start /\ run'[t].newLast = run[t].newLast
                 /\ run'[t].committed = run[t].committed
                 /\ run'[t].pass = run[t].pass /\ run'[t].last = run[t].last
      BY <3>1, <3>2 DEF Run
    <3>4. \A t \in Syncers : Points(run'[t]) = Points(run[t])
      BY <3>3 DEF Points
    <3>5. QED
      BY <1>3, <3>4, EnvironmentGrows DEF IInv
  <2>2. Old(watermark) /\ \A t \in Syncers : \A p \in Points(run[t]) : Old(p)
    BY DEF Old
  <2>3. \A p : Old(p) => CoveredTo(p)' /\ Visible(p)'
    BY <1>1, <2>1
  <2>4. QED
    BY <2>1, <2>2, <2>3 DEF PointsCovered
<1>4. CASE UNCHANGED vars
  BY <1>4 DEF vars, IInv, PointsCovered, CoveredTo, Visible
<1>5. QED
  BY <1>2, <1>3, <1>4 DEF Next

\* A fetched chunk leaves no gap behind it.
LEMMA ChunkStep ==
    ASSUME IInv, [Next]_vars
    PROVE  ChunkHasNoGap' /\ ChunkIsVisible'
<1> USE DEF IInv
<1>0. Fetched(Idle) = {}
  BY DEF Fetched, Idle, NoRows
<1>1. ASSUME NEW s \in Syncers, RunStep(s)
      PROVE  ChunkHasNoGap' /\ ChunkIsVisible'
  <2>1. UNCHANGED <<prod, late, age>> /\ \A t \in Syncers \ {s} : run'[t] = run[t]
    BY <1>1 DEF TypeOK, RunStep, ReadWatermark, MarkRunning, Connect, Blocked,
       Fetch, WriteChunk, PastChunk, EndNewPass, RefreshFrom, EndRefreshPass,
       Prune, Finish, Fail
  <2> DEFINE Good(r) ==
          /\ \A i \in Fetched(r) : prod[i] # "absent"
          /\ r.pc = "write" /\ r.pass = "new"
             => \A m \in Fetched(r), i \in Ids \ late :
                    /\ r.last < i /\ i <= m
                    /\ prod[i] # "absent" /\ age[i] # "old"
                    => i \in Fetched(r)
  <2>2. Good(run'[s])
    <3>0. run \in [Syncers -> Run] /\ run[s] \in Run
      BY DEF TypeOK
    <3>1. CASE Fetch(s)
      <4>1. ASSUME NEW ids \in SUBSET Ids, IsChunk(ids, run[s]),
                   run' = [run EXCEPT
                       ![s].pc  = "write",
                       ![s].buf = [i \in Ids |-> IF i \in ids THEN prod[i]
                                                              ELSE "absent"]]
            PROVE  Good(run'[s])
        <5>1. /\ run'[s].buf = [i \in Ids |-> IF i \in ids THEN prod[i]
                                                           ELSE "absent"]
              /\ run'[s].pass = run[s].pass /\ run'[s].last = run[s].last
          BY <3>0, <4>1 DEF Run
        <5>2. Fetched(run'[s]) = ids
          BY <4>1, <5>1 DEF Fetched, IsChunk, Matching
        <5>3. ASSUME run[s].pass = "new", NEW m \in ids, NEW i \in Ids,
                     run[s].last < i, i <= m, prod[i] # "absent",
                     age[i] # "old"
              PROVE  i \in ids
          <6>1. i \in Matching(run[s])
            BY <5>3 DEF Matching, InWindow
          <6>2. CASE i \notin ids
            <7>1. m < i
              BY <4>1, <6>1, <6>2, <5>3 DEF IsChunk
            <7>2. QED
              BY <5>3, <7>1, SyncAssumption DEF Ids
          <6>3. QED
            BY <6>2
        <5>4. \A i \in ids : prod[i] # "absent"
          BY <4>1 DEF IsChunk, Matching
        <5>5. QED
          BY <5>1, <5>2, <5>3, <5>4
      <4>2. CASE \/ run' = [run EXCEPT ![s].pc = "passend"]
                 \/ run' = [run EXCEPT
                        ![s].pc   = "passend",
                        ![s].owes = {i \in @ : run[s].pass = "refresh"
                                                  => i <= run[s].last}]
        <5>1. run'[s].pc = "passend" /\ run'[s].buf = run[s].buf
          BY <3>0, <4>2 DEF Run
        <5>2. QED
          BY <5>1 DEF ChunkIsVisible, Fetched
      <4> HIDE DEF Good
      <4>3. QED
        BY <3>1, <4>1, <4>2, Zenon DEF Fetch, IsChunk
    <3>2. CASE /\ run'[s].pc # "write"
               /\ run'[s].buf \in {run[s].buf, NoRows}
      BY <3>2 DEF ChunkIsVisible, Fetched, NoRows
    <3>3. CASE WriteChunk(s)
      <4>1. run'[s].pc # "write" /\ run'[s].buf = NoRows
        BY <3>3, PastFields
      <4>2. QED
        BY <3>2, <4>1
    <3>4. CASE EndNewPass(s)
      <4>1. run'[s].pc # "write" /\ run'[s].buf = run[s].buf
        BY <3>0, <3>4 DEF EndNewPass, RefreshFrom, Run
      <4>2. QED
        BY <3>2, <4>1
    <3>5. CASE \/ MarkRunning(s) \/ Connect(s) \/ EndRefreshPass(s) \/ Prune(s)
      <4>1. run'[s].pc # "write" /\ run'[s].buf = run[s].buf
        BY <3>0, <3>5 DEF MarkRunning, Connect, EndRefreshPass, Prune, Run
      <4>2. QED
        BY <3>2, <4>1
    <3>6. CASE \/ \E full \in BOOLEAN : ReadWatermark(s, full)
               \/ Blocked(s) \/ Finish(s) \/ Fail(s)
      <4>0. ASSUME NEW full \in BOOLEAN, ReadWatermark(s, full)
            PROVE  run'[s].pc # "write" /\ run'[s].buf = NoRows
        BY <3>0, <4>0 DEF ReadWatermark, Idle
      <4>1. run'[s].pc # "write" /\ run'[s].buf = NoRows
        <5>1. CASE Blocked(s) \/ Finish(s) \/ Fail(s)
          BY <3>0, <5>1 DEF Blocked, Finish, Fail, Idle
        <5>2. QED
          BY <3>6, <4>0, <5>1
      <4>2. QED
        BY <3>2, <4>1
    <3>7. QED
      BY <1>1, <3>1, <3>3, <3>4, <3>5, <3>6 DEF RunStep
  <2>3. QED
    BY <2>1, <2>2 DEF ChunkHasNoGap, ChunkIsVisible, Fetched
<1>2. ASSUME NEW j \in Ids, Environment(j)
      PROVE  ChunkHasNoGap' /\ ChunkIsVisible'
  <2>1. /\ Grow
        /\ \A s \in Syncers : /\ run'[s].pc = run[s].pc
                              /\ run'[s].pass = run[s].pass
                              /\ run'[s].last = run[s].last
                              /\ run'[s].buf = run[s].buf
    <3>1. \A s \in Syncers : run[s] \in Run
      BY DEF TypeOK
    <3>2. QED
      BY <1>2, <3>1, EnvironmentGrows DEF Run
  <2>2. ChunkIsVisible'
    BY <2>1 DEF ChunkIsVisible, Grow, Fetched
  <2>3. ASSUME NEW s \in Syncers, run[s].pc = "write", run[s].pass = "new",
               NEW m \in Fetched(run[s]), NEW i \in Ids \ late',
               run[s].last < i, i <= m, prod'[i] # "absent", age'[i] # "old"
        PROVE  i \in Fetched(run[s])
    <3>1. m \in Ids /\ prod[m] # "absent"
      BY DEF ChunkIsVisible, Fetched
    <3>2. prod[i] # "absent"
      <4>1. CASE prod[i] = "absent"
        <5>1. m < i
          BY <2>1, <2>3, <3>1, <4>1 DEF Grow
        <5>2. QED
          BY <2>3, <3>1, <5>1, SyncAssumption DEF Ids
      <4>2. QED
        BY <4>1
    <3>3. age[i] # "old"
      BY <2>1, <2>3 DEF Grow
    <3>4. i \in Ids \ late
      BY <2>1 DEF Grow
    <3>5. QED
      BY <2>3, <3>2, <3>3, <3>4 DEF ChunkHasNoGap
  <2>4. ChunkHasNoGap'
    BY <2>1, <2>3 DEF ChunkHasNoGap, Fetched
  <2>5. QED
    BY <2>2, <2>4
<1>3. CASE UNCHANGED vars
  BY <1>3 DEF vars, ChunkHasNoGap, ChunkIsVisible, Fetched
<1>4. QED
  BY <1>1, <1>2, <1>3 DEF Next

\* A row behind the watermark and inside the learning window is in the cache,
\* whatever runs overlap, fail or crash, unless it became visible after a row
\* with a higher id, if the store rejects no row.
THEOREM Covered ==
    ASSUME BadRows = {}
    PROVE  Spec => []WatermarkCovered
<1>1. Init => IInv
  <2> SUFFICES ASSUME Init PROVE IInv
    OBVIOUS
  <2>1. TypeOK
    BY SyncAssumption, IdleType DEF Init, TypeOK, NoRows, RowState
  <2>2. PointsCovered
    BY SyncAssumption
    DEF Init, PointsCovered, Points, Idle, CoveredTo, Visible, Ids
  <2>3. ChunkHasNoGap /\ ChunkIsVisible
    BY DEF Init, ChunkHasNoGap, ChunkIsVisible, Fetched, Idle, NoRows
  <2>4. QED
    BY <2>1, <2>2, <2>3 DEF IInv
<1>2. IInv /\ [Next]_vars => IInv'
  <2> SUFFICES ASSUME IInv, [Next]_vars PROVE IInv'
    OBVIOUS
  <2>1. TypeOK'
    BY TypeStep DEF IInv
  <2>2. PointsCovered'
    BY PointsStep
  <2>3. ChunkHasNoGap' /\ ChunkIsVisible'
    BY ChunkStep
  <2>4. QED
    BY <2>1, <2>2, <2>3 DEF IInv
<1>3. IInv => WatermarkCovered
  BY DEF IInv, PointsCovered, CoveredTo, WatermarkCovered
<1>4. QED
  BY <1>1, <1>2, <1>3, PTL DEF Spec

-----------------------------------------------------------------------------
(* Flips, for any cap, any overlapping runs and any rejected rows.         *)

\* The row is flagged for good and no run will write it as anything else.
Settled(i) == prod[i] = "flagged" /\ \A q \in Syncers : run[q].buf[i] # "clean"

\* What a run has done for the flips it owes: the refresh pass has cached them up
\* to its last id, its chunk leaves none of them out, and all of them are cached
\* once it is through.
Kept(r) ==
    /\ r.pc \in {"begin", "connect"} => r.pass = "new"
    /\ r.pass = "refresh" /\ r.pc \in {"fetch", "write"} =>
           \A i \in r.owes : i <= r.last => cache[i] = "flagged"
    /\ r.pass = "refresh" /\ r.pc = "write" =>
           \A i \in r.owes :
               /\ r.last < i
               /\ \/ Cardinality(Fetched(r)) < Limit(r)
                  \/ \E m \in Fetched(r) : i <= m
               => i \in Fetched(r)
    /\ \/ r.pc \in {"prune", "finish"}
       \/ r.pass = "refresh" /\ r.pc = "passend"
       => \A i \in r.owes : cache[i] = "flagged"

FlipInv ==
    /\ \A i \in served : Settled(i) /\ age[i] # "old" /\ cache[i] = "flagged"
    /\ \A s \in Syncers : \A i \in run[s].owes : Settled(i) /\ age[i] = "recent"
    /\ \A s \in Syncers : Kept(run[s])

\* Every chunk is fetched from production, where a flagged row is never clean
\* again.
LEMMA SettledStep ==
    ASSUME TypeOK, NEW s \in Syncers, RunStep(s), NEW i \in Ids, Settled(i)
    PROVE  Settled(i)'
<1> USE DEF TypeOK
<1>1. prod' = prod /\ \A q \in Syncers \ {s} : run'[q] = run[q]
  BY DEF RunStep, ReadWatermark, MarkRunning, Connect, Blocked, Fetch,
         WriteChunk, PastChunk, EndNewPass, RefreshFrom, EndRefreshPass,
         Prune, Finish, Fail
<1>2. run'[s].buf[i] \in {"absent", run[s].buf[i], prod[i]}
  <2>0. run[s] \in Run /\ NoRows[i] = "absent"
    BY DEF NoRows
  <2>1. CASE WriteChunk(s)
    BY <2>0, <2>1, PastFields
  <2>2. CASE Fetch(s)
    BY <2>0, <2>2 DEF Fetch, Run
  <2>3. CASE \E full \in BOOLEAN : ReadWatermark(s, full)
    BY <2>0, <2>3 DEF ReadWatermark, Idle
  <2>4. CASE Blocked(s) \/ Finish(s) \/ Fail(s)
    BY <2>0, <2>4 DEF Blocked, Finish, Fail, Idle
  <2>5. CASE EndNewPass(s)
    BY <2>0, <2>5 DEF EndNewPass, RefreshFrom, Run
  <2>6. CASE MarkRunning(s) \/ Connect(s) \/ EndRefreshPass(s) \/ Prune(s)
    BY <2>0, <2>6 DEF MarkRunning, Connect, EndRefreshPass, Prune, Run
  <2>7. QED
    BY <2>1, <2>2, <2>3, <2>4, <2>5, <2>6 DEF RunStep
<1>3. QED
  BY <1>1, <1>2 DEF Settled

\* A settled row that is cached as flagged stays so until it is old.
LEMMA CacheKept ==
    ASSUME TypeOK, NEW s \in Syncers, RunStep(s), NEW i \in Ids, Settled(i),
           age[i] # "old", cache[i] = "flagged"
    PROVE  cache'[i] = "flagged"
<1> USE DEF TypeOK
<1>1. CASE WriteChunk(s)
  <2>1. run[s].buf[i] \in {"absent", "flagged"}
    BY DEF Settled, Run, RowState
  <2>2. i \in Fetched(run[s]) => run[s].buf[i] = "flagged"
    BY <2>1 DEF Fetched
  <2>3. QED
    BY <1>1, <2>2 DEF WriteChunk
<1>2. CASE Prune(s)
  BY <1>2 DEF Prune
<1>3. CASE UNCHANGED cache
  BY <1>3
<1>4. QED
  BY <1>1, <1>2, <1>3 DEF RunStep, ReadWatermark, MarkRunning, Connect,
     Blocked, Fetch, EndNewPass, EndRefreshPass, Finish, Fail

\* A refresh chunk leaves out none of the recent flips up to its end: it is
\* everything the query matches, or an initial part of it.
LEMMA ChunkReaches ==
    ASSUME TypeOK, NEW r \in Run, r.pass = "refresh",
           NEW ids \in SUBSET Ids, IsChunk(ids, r),
           NEW i \in Ids, prod[i] = "flagged", age[i] = "recent", r.last < i,
           Cardinality(ids) < Limit(r) \/ \E m \in ids : i <= m
    PROVE  i \in ids
<1>1. i \in Matching(r)
  <2>1. i > r.last
    BY SyncAssumption DEF Run, Ids
  <2>2. QED
    BY <2>1 DEF Matching, InWindow
<1>2. CASE Cardinality(ids) < Limit(r)
  <2>1. Cardinality(ids) \in Nat /\ Limit(r) \in Int
    BY ChunkLength, SyncAssumption DEF Limit, Run
  <2>2. Cardinality(ids) # Limit(r)
    BY <1>2, <2>1
  <2>3. QED
    BY <1>1, <2>2 DEF IsChunk
<1>3. CASE \E m \in ids : i <= m
  <2>1. PICK m \in ids : i <= m
    BY <1>3
  <2>2. i \notin ids => m < i
    BY <1>1 DEF IsChunk
  <2>3. m \in Nat /\ i \in Nat
    BY SyncAssumption DEF Ids
  <2>4. QED
    BY <2>1, <2>2, <2>3
<1>4. QED
  BY <1>2, <1>3

\* A step of sync() keeps what its own run has done for the flips it owes.
LEMMA KeptStep ==
    ASSUME TypeOK, TypeOK', FlipInv, NEW s \in Syncers, RunStep(s)
    PROVE  Kept(run[s])'
<1> USE DEF TypeOK
<1> DEFINE r == run[s]
           n == run'[s]
           Done(x) ==
               /\ x.pc \in {"begin", "connect"} => x.pass = "new"
               /\ x.pass = "refresh" /\ x.pc \in {"fetch", "write"} =>
                      \A i \in x.owes : i <= x.last => cache'[i] = "flagged"
               /\ x.pass = "refresh" /\ x.pc = "write" =>
                      \A i \in x.owes :
                          /\ x.last < i
                          /\ \/ Cardinality(Fetched(x)) < Limit(x)
                             \/ \E m \in Fetched(x) : i <= m
                          => i \in Fetched(x)
               /\ \/ x.pc \in {"prune", "finish"}
                  \/ x.pass = "refresh" /\ x.pc = "passend"
                  => \A i \in x.owes : cache'[i] = "flagged"
<1>0. r \in Run /\ Kept(r) /\ n \in Run
  BY DEF FlipInv
<1>k. ASSUME Done(n) PROVE Kept(run[s])'
  BY <1>k DEF Kept, Fetched, Limit
<1>o. \A i \in r.owes : /\ i \in Ids /\ Settled(i) /\ age[i] = "recent"
                        /\ prod[i] = "flagged"
  BY <1>0 DEF FlipInv, Run, Settled
<1>c. \A i \in r.owes : cache[i] = "flagged" => cache'[i] = "flagged"
  BY <1>o, CacheKept
<1>i. \A i \in r.owes : i \in Int /\ r.last \in Int
  BY <1>0, <1>o, SyncAssumption DEF Run, Ids
<1>1. CASE \/ \E full \in BOOLEAN : ReadWatermark(s, full)
           \/ Blocked(s) \/ Finish(s) \/ Fail(s)
  <2>1. n.pc \in {"idle", "begin"} /\ n.pass = "new"
    <3>1. CASE \E full \in BOOLEAN : ReadWatermark(s, full)
      BY <3>1 DEF ReadWatermark, Idle
    <3>2. CASE Blocked(s) \/ Finish(s) \/ Fail(s)
      BY <3>2 DEF Blocked, Finish, Fail, Idle
    <3>3. QED
      BY <1>1, <3>1, <3>2
  <2>2. Done(n)
    <3> HIDE DEF n
    <3>1. QED
      BY <2>1
  <2>3. QED
    BY <1>k, <2>2
<1>2. CASE MarkRunning(s) \/ Connect(s)
  <2>1. n.pc \in {"connect", "fetch"} /\ n.pass = "new"
    <3>1. r.pc \in {"begin", "connect"}
      BY <1>2 DEF MarkRunning, Connect
    <3>2. r.pass = "new"
      BY <1>0, <3>1 DEF Kept
    <3>3. QED
      BY <1>0, <1>2, <3>2 DEF MarkRunning, Connect, Run
  <2>2. Done(n)
    <3> HIDE DEF n
    <3>1. QED
      BY <2>1
  <2>3. QED
    BY <1>k, <2>2
<1>3. CASE Fetch(s)
  <2>0. cache' = cache /\ r.pc = "fetch"
    BY <1>3 DEF Fetch
  <2>1. ASSUME NEW ids \in SUBSET Ids, IsChunk(ids, r),
               run' = [run EXCEPT
                   ![s].pc  = "write",
                   ![s].buf = [i \in Ids |-> IF i \in ids THEN prod[i]
                                                          ELSE "absent"]]
        PROVE  Done(n)
    <3>1. /\ n.pc = "write" /\ n.pass = r.pass /\ n.last = r.last
          /\ n.cap = r.cap /\ n.total = r.total /\ n.owes = r.owes
          /\ n.buf = [i \in Ids |-> IF i \in ids THEN prod[i] ELSE "absent"]
      BY <1>0, <2>1 DEF Run
    <3>2. Fetched(n) = ids /\ Limit(n) = Limit(r)
      <4>1. \A i \in ids : prod[i] # "absent"
        BY <2>1 DEF IsChunk, Matching
      <4> HIDE DEF n
      <4>2. QED
        BY <3>1, <4>1 DEF Fetched, Limit
    <3>3. ASSUME r.pass = "refresh", NEW i \in r.owes, r.last < i,
                 Cardinality(ids) < Limit(r) \/ \E m \in ids : i <= m
          PROVE  i \in ids
      BY <1>0, <1>o, <2>1, <3>3, ChunkReaches
    <3> HIDE DEF n, r
    <3>4. QED
      BY <1>0, <2>0, <3>1, <3>2, <3>3 DEF Kept
  <2>2. ASSUME run' = [run EXCEPT
                   ![s].pc   = "passend",
                   ![s].owes = {i \in @ : r.pass = "refresh" => i <= r.last}]
        PROVE  Done(n)
    <3>1. /\ n.pc = "passend" /\ n.pass = r.pass
          /\ n.owes = {i \in r.owes : r.pass = "refresh" => i <= r.last}
      BY <1>0, <2>2 DEF Run
    <3> HIDE DEF n, r
    <3>2. QED
      BY <1>0, <2>0, <3>1 DEF Kept
  <2>3. ASSUME Matching(r) = {}, run' = [run EXCEPT ![s].pc = "passend"]
        PROVE  Done(n)
    <3>1. n.pc = "passend" /\ n.pass = r.pass /\ n.owes = r.owes
      BY <1>0, <2>3 DEF Run
    <3>2. r.pass = "refresh" => \A i \in r.owes : i <= r.last
      BY <1>o, <1>i, <2>3 DEF Matching, InWindow
    <3> HIDE DEF n, r
    <3>3. QED
      BY <1>0, <2>0, <3>1, <3>2 DEF Kept
  <2>4. QED
    BY <1>3, <1>k, <2>1, <2>2, <2>3 DEF Fetch
<1>4. CASE WriteChunk(s)
  <2>1. PICK m \in Fetched(r) :
            /\ \A i \in Fetched(r) : i <= m
            /\ n.last = m /\ n.pass = r.pass
            /\ n.pc = IF Cardinality(Fetched(r)) < Limit(r)
                      THEN "passend" ELSE "fetch"
            /\ n.owes = {i \in r.owes : r.pass = "refresh" =>
                             \/ Fetched(r) \cap BadRows = {}
                             \/ i \notin Fetched(r)}
    BY <1>4, PastFields
  <2>2. ASSUME r.pass = "refresh", NEW i \in n.owes,
               i <= m \/ Cardinality(Fetched(r)) < Limit(r)
        PROVE  cache'[i] = "flagged"
    <3>1. i \in r.owes /\ r.pc = "write"
      BY <1>4, <2>1 DEF WriteChunk
    <3>2. CASE i <= r.last
      BY <1>0, <1>c, <2>2, <3>1, <3>2 DEF Kept
    <3>3. CASE r.last < i
      <4>1. i \in Fetched(r)
        BY <1>0, <2>2, <3>1, <3>3 DEF Kept
      <4>2. Fetched(r) \cap BadRows = {}
        BY <2>1, <2>2, <4>1
      <4>3. r.buf[i] = "flagged"
        BY <1>0, <1>o, <3>1, <4>1 DEF Settled, Fetched, Run, RowState
      <4>4. QED
        BY <1>4, <1>o, <3>1, <4>1, <4>2, <4>3 DEF WriteChunk
    <3>4. QED
      BY <1>i, <3>1, <3>2, <3>3
  <2>3. Done(n)
    <3> HIDE DEF n, r
    <3>1. QED
      BY <2>1, <2>2
  <2>4. QED
    BY <1>k, <2>3
<1>5. CASE EndNewPass(s)
  <2>1. /\ n.pass = "refresh" /\ n.last = 0
        /\ \/ n.pc = "fetch" /\ n.owes = r.owes
           \/ n.pc = "prune" /\ n.owes = {}
    BY <1>0, <1>5 DEF EndNewPass, RefreshFrom, Run
  <2>2. \A i \in r.owes : ~(i <= 0)
    BY <1>o, SyncAssumption DEF Ids
  <2>3. Done(n)
    <3> HIDE DEF n, r
    <3>1. QED
      BY <2>1, <2>2
  <2>4. QED
    BY <1>k, <2>3
<1>6. CASE EndRefreshPass(s) \/ Prune(s)
  <2>1. n.pc \in {"prune", "finish"} /\ n.owes = r.owes
    BY <1>0, <1>6 DEF EndRefreshPass, Prune, Run
  <2>2. \A i \in r.owes : cache'[i] = "flagged"
    BY <1>0, <1>6, <1>c DEF EndRefreshPass, Prune, Kept
  <2>3. Done(n)
    <3> HIDE DEF n, r
    <3>1. QED
      BY <2>1, <2>2
  <2>4. QED
    BY <1>k, <2>3
<1>7. QED
  BY <1>1, <1>2, <1>3, <1>4, <1>5, <1>6 DEF RunStep

\* A step of sync() keeps the flips served and owed.
LEMMA RunFlips ==
    ASSUME TypeOK, TypeOK', FlipInv, NEW s \in Syncers, RunStep(s)
    PROVE  FlipInv'
<1> USE DEF TypeOK
<1>1. /\ age' = age
      /\ \A t \in Syncers \ {s} : run'[t] = run[t]
  BY DEF RunStep, ReadWatermark, MarkRunning, Connect, Blocked, Fetch,
         WriteChunk, PastChunk, EndNewPass, RefreshFrom, EndRefreshPass,
         Prune, Finish, Fail
<1>2. run'[s].owes \subseteq run[s].owes \cup Flips
  <2>0. run[s] \in Run
    OBVIOUS
  <2>1. CASE \E full \in BOOLEAN : ReadWatermark(s, full)
    BY <2>1 DEF ReadWatermark, Idle
  <2>2. CASE Blocked(s) \/ Finish(s) \/ Fail(s)
    BY <2>2 DEF Blocked, Finish, Fail, Idle
  <2>3. CASE Fetch(s)
    BY <2>0, <2>3 DEF Fetch, Run
  <2>4. CASE WriteChunk(s)
    BY <2>4, PastFields
  <2>5. CASE EndNewPass(s)
    BY <2>0, <2>5 DEF EndNewPass, RefreshFrom, Run
  <2>6. CASE MarkRunning(s) \/ Connect(s) \/ EndRefreshPass(s) \/ Prune(s)
    <3>1. run'[s].owes = run[s].owes
      BY <2>0, <2>6 DEF MarkRunning, Connect, EndRefreshPass, Prune, Run
    <3>2. QED
      BY <3>1
  <2>7. QED
    BY <2>1, <2>2, <2>3, <2>4, <2>5, <2>6 DEF RunStep
<1>3. ASSUME NEW t \in Syncers, NEW i \in run'[t].owes
      PROVE  Settled(i)' /\ age'[i] = "recent"
  <2>1. i \in Ids /\ Settled(i) /\ age[i] = "recent"
    <3>1. run[t] \in Run /\ run[s] \in Run
      OBVIOUS
    <3>2. i \in run[t].owes \/ i \in Flips
      BY <1>1, <1>2
    <3>3. QED
      BY <3>1, <3>2 DEF FlipInv, Flips, Settled, Run
  <2>2. QED
    BY <1>1, <2>1, SettledStep
<1>4. ASSUME NEW i \in served'
      PROVE  Settled(i)' /\ age'[i] # "old" /\ cache'[i] = "flagged"
  <2>1. \/ i \in served
        \/ Finish(s) /\ i \in run[s].owes
    BY <1>4 DEF RunStep, ReadWatermark, MarkRunning, Connect, Blocked, Fetch,
       WriteChunk, EndNewPass, EndRefreshPass, Prune, Finish, Fail
  <2>2. i \in Ids /\ Settled(i) /\ age[i] # "old" /\ cache[i] = "flagged"
    <3>1. CASE i \in served
      BY <3>1 DEF FlipInv
    <3>2. CASE Finish(s) /\ i \in run[s].owes
      BY <3>2 DEF Finish, FlipInv, Kept, Run
    <3>3. QED
      BY <2>1, <3>1, <3>2
  <2>3. QED
    BY <1>1, <2>2, SettledStep, CacheKept
<1>5. ASSUME NEW t \in Syncers PROVE Kept(run[t])'
  <2>1. CASE t = s
    BY <2>1, KeptStep
  <2>2. CASE t # s
    <3>1. run'[t] = run[t] /\ run[t] \in Run /\ Kept(run[t])
      BY <1>1, <2>2 DEF FlipInv
    <3>2. \A i \in run[t].owes : cache[i] = "flagged" => cache'[i] = "flagged"
      BY <3>1, CacheKept DEF FlipInv, Run
    <3>3. QED
      BY <3>1, <3>2 DEF Kept, Fetched, Limit
  <2>3. QED
    BY <2>1, <2>2
<1>6. QED
  BY <1>3, <1>4, <1>5 DEF FlipInv

\* Production and the calendar keep the flips served and owed.
LEMMA EnvironmentFlips ==
    ASSUME TypeOK, FlipInv, NEW j \in Ids, Environment(j)
    PROVE  FlipInv'
<1> USE DEF TypeOK
<1>0. \A t \in Syncers : run[t] \in Run
  OBVIOUS
<1>1. /\ cache' = cache
      /\ \A i \in Ids : prod[i] = "flagged" => prod'[i] = "flagged"
      /\ served' \subseteq served
      /\ \A i \in Ids : age[i] # "old" /\ age'[i] = "old" => i \notin served'
  BY DEF Environment, Appear, Flip, LeaveRefreshWindow, LeaveLearningWindow
<1>2. ASSUME NEW t \in Syncers
      PROVE  /\ run'[t].owes \subseteq run[t].owes
             /\ \A i \in run'[t].owes : i \in Ids /\ age'[i] = age[i]
             /\ run'[t].pc = run[t].pc /\ run'[t].pass = run[t].pass
             /\ run'[t].last = run[t].last /\ run'[t].buf = run[t].buf
             /\ run'[t].cap = run[t].cap /\ run'[t].total = run[t].total
  <2>1. CASE LeaveRefreshWindow(j)
    BY <1>0, <2>1 DEF LeaveRefreshWindow, Run
  <2>2. CASE Appear(j) \/ Flip(j)
    BY <1>0, <2>2 DEF Appear, Flip, Run
  <2>3. CASE LeaveLearningWindow(j)
    <3>1. j \notin run[t].owes
      BY <2>3 DEF LeaveLearningWindow, FlipInv
    <3>2. QED
      BY <1>0, <2>3, <3>1 DEF LeaveLearningWindow, Run
  <2>4. QED
    BY <2>1, <2>2, <2>3 DEF Environment
<1>3. \A i \in Ids : Settled(i) => Settled(i)'
  BY <1>1, <1>2 DEF Settled
<1>4. \A i \in served' : Settled(i)' /\ age'[i] # "old" /\ cache'[i] = "flagged"
  BY <1>1, <1>3 DEF FlipInv
<1>5. \A t \in Syncers : \A i \in run'[t].owes : Settled(i)' /\ age'[i] = "recent"
  BY <1>2, <1>3 DEF FlipInv
<1>6. ASSUME NEW t \in Syncers PROVE Kept(run[t])'
  <2>1. Fetched(run[t])' = Fetched(run[t]) /\ Limit(run[t])' = Limit(run[t])
    BY <1>2 DEF Fetched, Limit
  <2>2. Kept(run[t])
    BY DEF FlipInv
  <2>3. QED
    BY <1>1, <1>2, <2>1, <2>2 DEF Kept
<1>7. QED
  BY <1>4, <1>5, <1>6 DEF FlipInv

\* A transaction that was blocked or blacklisted is not learnt from as clean once
\* a run that began after that has refreshed it (sync_manager.py, the REFRESH
\* pass), for any cap, any chunk size, any number of overlapping, failing or
\* --full runs and any rejected rows; it is so until it leaves the learning window.
THEOREM Caught == Spec => []FlipsCaught
<1>1. Init => FlipInv
  BY DEF Init, FlipInv, Kept, Idle
<1>2. TypeOK /\ TypeOK' /\ FlipInv /\ [Next]_vars => FlipInv'
  <2> SUFFICES ASSUME TypeOK, TypeOK', FlipInv, [Next]_vars PROVE FlipInv'
    OBVIOUS
  <2>1. CASE UNCHANGED vars
    <3>1. \A i : Settled(i)' <=> Settled(i)
      BY <2>1 DEF vars, Settled
    <3>2. ASSUME NEW s \in Syncers PROVE Kept(run[s])' <=> Kept(run[s])
      BY <2>1 DEF vars, Kept, Fetched, Limit
    <3>3. QED
      BY <2>1, <3>1, <3>2 DEF vars, FlipInv
  <2>2. QED
    BY <2>1, RunFlips, EnvironmentFlips DEF Next
<1>3. FlipInv => FlipsCaught
  BY DEF FlipInv, FlipsCaught
<1>4. QED
  BY <1>1, <1>2, <1>3, TypeCorrect, PTL DEF Spec

=============================================================================
