------------------------ MODULE WebhookOutbox_proofs -----------------------
(***************************************************************************)
(* Proofs about the webhook outbox, for any number of decisions, relays,   *)
(* attempts and faults: its invariants, and last that it keeps the promise *)
(* of DeliveryPromise while inline deliveries end within the grace period. *)
(***************************************************************************)
EXTENDS OutboxRefinement, TLAPS

-----------------------------------------------------------------------------
(* Type correctness.                                                       *)

RowType == [status: RowStatus, attempts: Nat, next: {"null", "later", "due"}]

\* apply_outcome writes a well-formed row and keeps the delivery log's type.
LEMMA ApplyOutcomeType ==
    ASSUME TypeOK, NEW d \in Decisions, NEW prev \in Nat,
           NEW rec \in Record, ApplyOutcome(d, prev, rec)
    PROVE  /\ row' \in [Decisions -> RowType]
           /\ delivery' \in [Decisions -> [Delivered -> Nat]]
<1>1. Outcome(prev, rec) \in RowType
  BY OutboxAssumption DEF Outcome, RowStatus, RowType
<1>2. row' \in [Decisions -> RowType]
  BY <1>1 DEF ApplyOutcome, TypeOK, RowType
<1>3. delivery[d] \in [Delivered -> Nat]
  BY DEF TypeOK
<1>4. [delivery[d] EXCEPT ![rec] = @ + 1] \in [Delivered -> Nat]
  <2> DEFINE log == delivery[d]
  <2>1. log \in [Delivered -> Nat]
    BY <1>3
  <2>2. [log EXCEPT ![rec] = log[rec] + 1] \in [Delivered -> Nat]
    <3> HIDE DEF log
    <3>1. \A s \in Delivered : log[s] \in Nat
      BY <2>1
    <3>2. \A s \in Delivered :
             [log EXCEPT ![rec] = log[rec] + 1][s] \in Nat
      BY <2>1, <3>1
    <3>3. QED
      BY <2>1, <3>2
  <2>3. QED
    BY <2>2
<1>5. delivery' = [delivery EXCEPT ![d] = [delivery[d] EXCEPT ![rec] = @ + 1]]
  BY DEF ApplyOutcome
<1>6. QED
  BY <1>2, <1>4, <1>5 DEF TypeOK

\* Every variable of the outbox keeps its type, whatever the interleaving.
THEOREM TypeCorrect == Spec => []TypeOK
<1>1. Init => TypeOK
  BY DEF Init, TypeOK, RowStatus, HandlerState, Record, Delivered
<1>2. TypeOK /\ [Next]_vars => TypeOK'
  <2> SUFFICES ASSUME TypeOK, [Next]_vars PROVE TypeOK'
    OBVIOUS
  <2> USE DEF apiVars, relayVars
  <2>1. ASSUME NEW d \in Decisions, ApiStep(d) PROVE TypeOK'
    <3>1. CASE Insert(d)
      BY <3>1 DEF TypeOK, Insert, HandlerState
    <3>2. CASE PersistFails(d)
      BY <3>2, OutboxAssumption DEF TypeOK, PersistFails, Fault, HandlerState
    <3>3. CASE LogEvent(d)
      BY <3>3, OutboxAssumption DEF TypeOK, LogEvent, Fault, HandlerState
    <3>4. CASE Commit(d)
      <4>1. FreshRow \in RowType
        BY DEF FreshRow, RowType, RowStatus
      <4>2. row' \in [Decisions -> RowType]
        BY <3>4, <4>1 DEF TypeOK, Commit, RowType
      <4>3. faults' \in Nat
        BY <3>4 DEF TypeOK, Commit, Fault
      <4>4. handler' \in [Decisions -> HandlerState]
        BY <3>4 DEF TypeOK, Commit, HandlerState
      <4>5. QED
        BY <3>4, <4>2, <4>3, <4>4 DEF TypeOK, Commit, RowType
    <3>5. CASE InlinePost(d)
      <4>1. PICK rec \in Delivered : /\ Deliver(d, rec)
                                    /\ inlineRec' = [inlineRec EXCEPT ![d] = rec]
        BY <3>5 DEF InlinePost
      <4>2. received' \in [Decisions -> Nat]
        BY <4>1 DEF TypeOK, Deliver
      <4>3. inlineRec' \in [Decisions -> Record]
        BY <4>1 DEF TypeOK, Record
      <4>4. handler' \in [Decisions -> HandlerState]
        BY <3>5 DEF TypeOK, InlinePost, HandlerState
      <4>5. QED
        BY <3>5, <4>2, <4>3, <4>4 DEF TypeOK, InlinePost
    <3>6. CASE InlineRecord(d)
      <4>1. /\ row' \in [Decisions -> RowType]
            /\ delivery' \in [Decisions -> [Delivered -> Nat]]
        <5>1. inlineRec[d] \in Record /\ row[d].attempts \in Nat
          BY DEF TypeOK
        <5>2. CASE row[d].status = "none"
          BY <3>6, <5>2 DEF InlineRecord, TypeOK, RowType
        <5>3. CASE row[d].status # "none"
          BY <3>6, <5>1, <5>3, ApplyOutcomeType DEF InlineRecord
        <5>4. QED
          BY <5>2, <5>3
      <4>2. QED
        BY <3>6, <4>1 DEF TypeOK, InlineRecord, RowType, HandlerState, Record
    <3>7. CASE InlineRecordFails(d)
      BY <3>7, OutboxAssumption
      DEF TypeOK, InlineRecordFails, Fault, HandlerState, Record
    <3>8. CASE ApiCrash(d)
      BY <3>8, OutboxAssumption
      DEF TypeOK, ApiCrash, Fault, HandlerState, Record
    <3>9. QED
      BY <2>1, <3>1, <3>2, <3>3, <3>4, <3>5, <3>6, <3>7, <3>8 DEF ApiStep
  <2>2. ASSUME NEW d \in Decisions, BecomesDue(d) PROVE TypeOK'
    <3>1. row' \in [Decisions -> RowType]
      BY <2>2 DEF TypeOK, BecomesDue, RowType
    <3>2. QED
      BY <2>2, <3>1 DEF TypeOK, BecomesDue, RowType
  <2>3. ASSUME NEW r \in Relays, RelayStep(r) PROVE TypeOK'
    <3>1. CASE RelayList(r)
      BY <3>1 DEF TypeOK, RelayList
    <3>2. ASSUME NEW d \in Decisions, RelayTake(r, d) PROVE TypeOK'
      BY <3>2 DEF TypeOK, RelayTake
    <3>3. ASSUME NEW d \in Decisions, RelaySkip(r, d) PROVE TypeOK'
      BY <3>3 DEF TypeOK, RelaySkip
    <3>4. CASE RelayPost(r)
      <4>1. received' \in [Decisions -> Nat]
        <5>1. holding[r] \in Decisions
          BY <3>4 DEF TypeOK, RelayPost
        <5>2. QED
          BY <3>4, <5>1 DEF TypeOK, RelayPost, Deliver
      <4>2. relayRec' \in [Relays -> Record]
        BY <3>4 DEF TypeOK, RelayPost, Record
      <4>3. QED
        BY <3>4, <4>1, <4>2 DEF TypeOK, RelayPost
    <3>5. CASE RelayCommit(r)
      <4>1. /\ row' \in [Decisions -> RowType]
            /\ delivery' \in [Decisions -> [Delivered -> Nat]]
        <5>1. /\ holding[r] \in Decisions
              /\ prevAttempts[r] \in Nat
              /\ relayRec[r] \in Record
          BY <3>5 DEF TypeOK, RelayCommit
        <5>2. QED
          BY <3>5, <5>1, ApplyOutcomeType DEF RelayCommit
      <4>2. QED
        BY <3>5, <4>1 DEF TypeOK, RelayCommit, Release, RowType, Record
    <3>6. CASE RelayRollback(r)
      BY <3>6, OutboxAssumption DEF TypeOK, RelayRollback, Release, Fault, Record
    <3>7. CASE RelayCrash(r)
      BY <3>7, OutboxAssumption DEF TypeOK, RelayCrash, Release, Fault, Record
    <3>8. QED
      BY <2>3, <3>1, <3>2, <3>3, <3>4, <3>5, <3>6, <3>7 DEF RelayStep
  <2>4. CASE UNCHANGED vars
    BY <2>4 DEF TypeOK, vars
  <2>5. QED
    BY <2>1, <2>2, <2>3, <2>4 DEF Next
<1>3. QED
  BY <1>1, <1>2, PTL DEF Spec

-----------------------------------------------------------------------------
(* The row lock and the attempt count.                                     *)

\* Until the handler commits there is no row and nobody has delivered; a row
\* the handler never inserted stays untouched.  This is what lets Commit write
\* a fresh row without losing a counted attempt.
NothingBeforeCommit ==
    \A d \in Decisions :
        /\ handler[d] \in {"idle", "inserted", "logged", "aborted"} =>
               row[d].status = "none"
        /\ row[d].status = "none" => row[d].attempts = 0

\* A task that has posted has an outcome to record.
PostedHasRecord ==
    \A d \in Decisions : handler[d] = "posted" => inlineRec[d] \in Delivered

\* The inductive invariant: the lock protocol and the counter it protects.
LockInv == /\ TypeOK
           /\ NothingBeforeCommit
           /\ PostedHasRecord
           /\ HeldRowIsStable
           /\ AttemptsAreLogged

\* One recorded attempt adds one to the counter and one to the log.
LEMMA OneMoreAttempt ==
    ASSUME TypeOK, NEW d \in Decisions, NEW rec \in Delivered,
           ApplyOutcome(d, row[d].attempts, rec), AttemptsAreLogged
    PROVE  AttemptsAreLogged'
<1>1. /\ delivery[d] \in [Delivered -> Nat]
      /\ delivery[d]["sent"] \in Nat /\ delivery[d]["failed"] \in Nat
      /\ row[d].attempts \in Nat
  BY DEF TypeOK, Delivered
<1>2. row'[d].attempts = row[d].attempts + 1
  BY DEF ApplyOutcome, Outcome, TypeOK
<1>3. delivery'[d] = [delivery[d] EXCEPT ![rec] = @ + 1]
  BY DEF ApplyOutcome, TypeOK
<1>4. delivery'[d]["sent"] + delivery'[d]["failed"]
        = delivery[d]["sent"] + delivery[d]["failed"] + 1
  <2>1. CASE rec = "sent"
    BY <1>1, <1>3, <2>1 DEF Delivered
  <2>2. CASE rec = "failed"
    BY <1>1, <1>3, <2>2 DEF Delivered
  <2>3. QED
    BY <2>1, <2>2 DEF Delivered
<1>5. \A e \in Decisions \ {d} :
          row'[e] = row[e] /\ delivery'[e] = delivery[e]
  BY DEF ApplyOutcome, TypeOK
<1>6. QED
  BY <1>2, <1>4, <1>5 DEF AttemptsAreLogged, Attempted

\* A row nobody holds can be written without disturbing a relay.
LEMMA UnheldWrite ==
    ASSUME HeldRowIsStable, NEW d \in Decisions, ~Locked(d),
           \A e \in Decisions \ {d} : row'[e] = row[e],
           holding \in [Relays -> Decisions \cup {NoDecision}],
           UNCHANGED <<holding, prevAttempts>>
    PROVE  HeldRowIsStable'
BY DEF HeldRowIsStable, Locked, Due

\* A relay that lets its row go leaves the others undisturbed.
LEMMA ReleaseKeepsHeld ==
    ASSUME TypeOK, HeldRowIsStable, NEW r \in Relays,
           \A e \in Decisions \ {holding[r]} : row'[e] = row[e],
           Release(r)
    PROVE  HeldRowIsStable'
BY OutboxAssumption DEF HeldRowIsStable, Release, Due, TypeOK

\* What the row lock gives, in every state: LockInv.
THEOREM LockInvariant == Spec => []LockInv
<1>1. Init => LockInv
  <2> SUFFICES ASSUME Init PROVE LockInv
    OBVIOUS
  <2>1. TypeOK
    BY DEF Init, TypeOK, RowStatus, HandlerState, Record, Delivered
  <2>2. NothingBeforeCommit /\ PostedHasRecord /\ HeldRowIsStable
    BY DEF Init, NothingBeforeCommit, PostedHasRecord, HeldRowIsStable
  <2>3. AttemptsAreLogged
    BY DEF Init, AttemptsAreLogged, Attempted, Delivered
  <2>4. QED
    BY <2>1, <2>2, <2>3 DEF LockInv
<1>2. LockInv /\ TypeOK' /\ [Next]_vars => LockInv'
  <2> SUFFICES ASSUME LockInv, TypeOK', [Next]_vars PROVE LockInv'
    OBVIOUS
  <2> USE DEF apiVars, relayVars
  <2>0. /\ TypeOK /\ NothingBeforeCommit /\ PostedHasRecord
        /\ HeldRowIsStable /\ AttemptsAreLogged
    BY DEF LockInv
  <2>1. ASSUME NEW d \in Decisions, UNCHANGED <<row, delivery, relayVars>>,
               UNCHANGED inlineRec \/ inlineRec' = [inlineRec EXCEPT ![d] = "none"],
               handler' = [handler EXCEPT ![d] = "closed"]
        PROVE  LockInv'
    BY <2>0, <2>1 DEF LockInv, TypeOK, NothingBeforeCommit, PostedHasRecord,
                      HeldRowIsStable, AttemptsAreLogged, Attempted, Due
  <2>2. ASSUME NEW d \in Decisions, Insert(d) \/ LogEvent(d) PROVE LockInv'
    BY <2>0, <2>2 DEF Insert, LogEvent, LockInv, TypeOK, NothingBeforeCommit,
        PostedHasRecord, HeldRowIsStable, AttemptsAreLogged, Attempted, Due
  <2>3. ASSUME NEW d \in Decisions, Commit(d) PROVE LockInv'
    <3>1. row[d].status = "none" /\ row[d].attempts = 0
      BY <2>0, <2>3 DEF Commit, NothingBeforeCommit
    <3>2. ~Locked(d)
      BY <2>0, <3>1, OutboxAssumption DEF HeldRowIsStable, Locked, Due
    <3>3. /\ row'[d] = FreshRow \/ row'[d] = row[d]
          /\ \A e \in Decisions \ {d} : row'[e] = row[e]
      BY <2>0, <2>3 DEF Commit, TypeOK
    <3>4. FreshRow.attempts = 0 /\ FreshRow.status # "none"
      BY DEF FreshRow
    <3>5. HeldRowIsStable'
      BY <2>0, <2>3, <3>2, <3>3, UnheldWrite DEF Commit, TypeOK
    <3>6. NothingBeforeCommit'
      BY <2>0, <2>3, <3>1, <3>3, <3>4 DEF Commit, NothingBeforeCommit, TypeOK
    <3>7. PostedHasRecord'
      BY <2>0, <2>3 DEF Commit, PostedHasRecord, TypeOK
    <3>8. AttemptsAreLogged'
      BY <2>0, <2>3, <3>1, <3>3, <3>4 DEF Commit, AttemptsAreLogged, Attempted
    <3>9. QED
      BY <3>5, <3>6, <3>7, <3>8 DEF LockInv
  <2>4. ASSUME NEW d \in Decisions, InlinePost(d) PROVE LockInv'
    BY <2>0, <2>4 DEF InlinePost, LockInv, TypeOK, NothingBeforeCommit,
        PostedHasRecord, HeldRowIsStable, AttemptsAreLogged, Attempted, Due
  <2>5. ASSUME NEW d \in Decisions, InlineRecord(d) PROVE LockInv'
    <3>1. CASE row[d].status = "none"
      BY <2>1, <2>5, <3>1 DEF InlineRecord
    <3>2. CASE row[d].status # "none"
      <4>1. /\ ApplyOutcome(d, row[d].attempts, inlineRec[d])
            /\ inlineRec[d] \in Delivered
            /\ ~Locked(d)
        BY <2>0, <2>5, <3>2 DEF InlineRecord, PostedHasRecord
      <4>2. /\ row'[d].status # "none"
            /\ \A e \in Decisions \ {d} : row'[e] = row[e]
        BY <2>0, <4>1 DEF ApplyOutcome, Outcome, TypeOK
      <4>3. AttemptsAreLogged'
        BY <2>0, <4>1, OneMoreAttempt
      <4>4. HeldRowIsStable'
        BY <2>0, <2>5, <4>1, <4>2, UnheldWrite DEF InlineRecord, TypeOK
      <4>5. NothingBeforeCommit'
        BY <2>0, <2>5, <4>2 DEF InlineRecord, NothingBeforeCommit, TypeOK
      <4>6. PostedHasRecord'
        BY <2>0, <2>5 DEF InlineRecord, PostedHasRecord, TypeOK
      <4>7. QED
        BY <4>3, <4>4, <4>5, <4>6 DEF LockInv
    <3>3. QED
      BY <3>1, <3>2
  <2>6. ASSUME NEW d \in Decisions, BecomesDue(d) PROVE LockInv'
    <3>1. /\ row'[d] = [row[d] EXCEPT !.next = "due"]
          /\ \A e \in Decisions \ {d} : row'[e] = row[e]
      BY <2>0, <2>6 DEF BecomesDue, TypeOK
    <3>2. row'[d].status = row[d].status /\ row'[d].attempts = row[d].attempts
      BY <2>0, <3>1 DEF TypeOK
    <3>3. ~Locked(d)
      BY <2>0, <2>6, OutboxAssumption DEF BecomesDue, HeldRowIsStable, Locked, Due
    <3>4. HeldRowIsStable'
      BY <2>0, <2>6, <3>1, <3>3, UnheldWrite DEF BecomesDue, TypeOK
    <3>5. /\ NothingBeforeCommit' /\ PostedHasRecord' /\ AttemptsAreLogged'
      BY <2>0, <2>6, <3>1, <3>2 DEF BecomesDue, NothingBeforeCommit,
          PostedHasRecord, AttemptsAreLogged, Attempted
    <3>6. QED
      BY <3>4, <3>5 DEF LockInv
  <2>7. ASSUME NEW d \in Decisions, ApiStep(d) PROVE LockInv'
    <3>1. CASE PersistFails(d)
      BY <2>1, <3>1 DEF PersistFails
    <3>2. CASE InlineRecordFails(d)
      BY <2>1, <3>2 DEF InlineRecordFails
    <3>3. CASE ApiCrash(d)
      BY <2>1, <3>3 DEF ApiCrash
    <3>4. QED
      BY <2>2, <2>3, <2>4, <2>5, <2>7, <3>1, <3>2, <3>3 DEF ApiStep
  <2>8. ASSUME NEW r \in Relays, RelayStep(r) PROVE LockInv'
    <3>1. ASSUME NEW d \in Decisions, RelayTake(r, d) PROVE LockInv'
      <4>1. HeldRowIsStable'
        BY <2>0, <3>1, OutboxAssumption
        DEF RelayTake, HeldRowIsStable, Locked, Due, TypeOK
      <4>2. QED
        BY <2>0, <3>1, <4>1 DEF RelayTake, LockInv, NothingBeforeCommit,
            PostedHasRecord, AttemptsAreLogged, Attempted
    <3>2. ASSUME RelayList(r) \/ RelayPost(r)
                   \/ \E d \in Decisions : RelaySkip(r, d)
          PROVE  LockInv'
      BY <2>0, <3>2 DEF RelayList, RelayPost, RelaySkip, LockInv,
          NothingBeforeCommit, PostedHasRecord, AttemptsAreLogged, Attempted,
          HeldRowIsStable, Due
    <3>3. CASE RelayCommit(r)
      <4>1. /\ holding[r] \in Decisions
            /\ relayRec[r] \in Delivered
            /\ prevAttempts[r] = row[holding[r]].attempts
            /\ row[holding[r]].status = "pending"
        BY <2>0, <3>3
        DEF RelayCommit, TypeOK, HeldRowIsStable, Due, Record, Delivered
      <4>2. ApplyOutcome(holding[r], row[holding[r]].attempts, relayRec[r])
        BY <3>3, <4>1 DEF RelayCommit
      <4>3. /\ row'[holding[r]].status # "none"
            /\ \A e \in Decisions \ {holding[r]} : row'[e] = row[e]
        BY <2>0, <4>1, <4>2 DEF ApplyOutcome, Outcome, TypeOK
      <4>4. AttemptsAreLogged'
        BY <2>0, <4>1, <4>2, OneMoreAttempt
      <4>5. HeldRowIsStable'
        BY <2>0, <3>3, <4>3, ReleaseKeepsHeld DEF RelayCommit
      <4>6. NothingBeforeCommit' /\ PostedHasRecord'
        <5>1. UNCHANGED <<handler, inlineRec>>
          BY <3>3 DEF RelayCommit
        <5>2. handler[holding[r]] \notin {"idle", "inserted", "logged", "aborted"}
          BY <2>0, <4>1 DEF NothingBeforeCommit
        <5>3. QED
          BY <2>0, <4>3, <5>1, <5>2 DEF NothingBeforeCommit, PostedHasRecord
      <4>7. QED
        BY <4>4, <4>5, <4>6 DEF LockInv
    <3>4. CASE RelayRollback(r) \/ RelayCrash(r)
      <4>1. UNCHANGED <<row, delivery, apiVars>> /\ Release(r)
        BY <3>4 DEF RelayRollback, RelayCrash
      <4>2. HeldRowIsStable'
        BY <2>0, <4>1, ReleaseKeepsHeld
      <4>3. QED
        BY <2>0, <4>1, <4>2 DEF LockInv, NothingBeforeCommit, PostedHasRecord,
            AttemptsAreLogged, Attempted
    <3>5. QED
      BY <2>8, <3>1, <3>2, <3>3, <3>4 DEF RelayStep
  <2>9. CASE UNCHANGED vars
    BY <2>0, <2>9 DEF vars, LockInv, NothingBeforeCommit, PostedHasRecord,
        HeldRowIsStable, Due, AttemptsAreLogged, Attempted
  <2>10. QED
    BY <2>6, <2>7, <2>8, <2>9 DEF Next
<1>3. QED
  BY <1>1, <1>2, TypeCorrect, PTL DEF Spec

\* webhook_attempts always equals the number of logged deliveries: no
\* interleaving of the inline task and any number of relays, and no crash,
\* loses or repeats a count (webhooks.py, apply_outcome under FOR UPDATE).
THEOREM AttemptsLogged == Spec => []AttemptsAreLogged
<1>1. LockInv => AttemptsAreLogged
  BY DEF LockInv
<1>2. QED
  BY <1>1, LockInvariant, PTL

\* No two relays ever post the same decision at once, and what a relay read
\* under its lock is still true when it writes (webhook_relay.py, SKIP LOCKED).
THEOREM HeldStable == Spec => []HeldRowIsStable
<1>1. LockInv => HeldRowIsStable
  BY DEF LockInv
<1>2. QED
  BY <1>1, LockInvariant, PTL

-----------------------------------------------------------------------------
(* The documented lifecycle, under the grace period's assumption.          *)

\* While a decision's handler or inline task is still running, no relay can
\* have come near its row.
GraceInv ==
    \A d \in Decisions : handler[d] # "closed" =>
        row[d].status \in {"none", "pending"} /\ row[d].next # "due"

\* If inline deliveries end within the grace period, a row the inline task may
\* still write is not yet due, so no relay takes it.
LEMMA GraceInvariant ==
    ASSUME GraceCoversInline PROVE Spec => []GraceInv
<1>1. Init => GraceInv
  BY DEF Init, GraceInv
<1>2. GraceInv /\ LockInv /\ [Next]_vars => GraceInv'
  <2> SUFFICES ASSUME GraceInv, LockInv, [Next]_vars PROVE GraceInv'
    OBVIOUS
  <2> USE DEF apiVars, relayVars
  <2>0. TypeOK /\ NothingBeforeCommit /\ HeldRowIsStable
    BY DEF LockInv
  <2>1. ASSUME NEW d \in Decisions,
               \/ Insert(d) \/ PersistFails(d) \/ LogEvent(d) \/ InlinePost(d)
               \/ InlineRecordFails(d) \/ ApiCrash(d)
        PROVE  GraceInv'
    BY <2>0, <2>1 DEF Insert, PersistFails, LogEvent, InlinePost,
        InlineRecordFails, ApiCrash, GraceInv, TypeOK
  <2>2. ASSUME NEW d \in Decisions, Commit(d) PROVE GraceInv'
    <3>1. /\ row'[d] = FreshRow \/ row'[d] = row[d]
          /\ \A e \in Decisions \ {d} : row'[e] = row[e]
      BY <2>0, <2>2 DEF Commit, TypeOK
    <3>2. urlSet => FreshRow.status = "pending" /\ FreshRow.next = "later"
      BY DEF FreshRow
    <3>3. QED
      BY <2>0, <2>2, <3>1, <3>2 DEF Commit, GraceInv, TypeOK
  <2>3. ASSUME NEW d \in Decisions, InlineRecord(d) PROVE GraceInv'
    <3>1. \A e \in Decisions \ {d} : row'[e] = row[e]
      BY <2>0, <2>3 DEF InlineRecord, ApplyOutcome, TypeOK
    <3>2. QED
      BY <2>0, <2>3, <3>1 DEF InlineRecord, GraceInv, TypeOK
  <2>4. ASSUME NEW d \in Decisions, BecomesDue(d) PROVE GraceInv'
    <3>1. handler[d] = "closed"
      BY <2>0, <2>4, GraceCoversInline
      DEF BecomesDue, NothingBeforeCommit, TypeOK, HandlerState
    <3>2. QED
      BY <2>0, <2>4, <3>1 DEF BecomesDue, GraceInv, TypeOK
  <2>5. ASSUME NEW r \in Relays, RelayCommit(r) PROVE GraceInv'
    <3>1. holding[r] \in Decisions /\ handler[holding[r]] = "closed"
      BY <2>0, <2>5 DEF RelayCommit, HeldRowIsStable, Due, GraceInv, TypeOK
    <3>2. \A e \in Decisions \ {holding[r]} : row'[e] = row[e]
      BY <2>0, <2>5 DEF RelayCommit, ApplyOutcome, TypeOK
    <3>3. QED
      BY <2>5, <3>1, <3>2 DEF RelayCommit, GraceInv
  <2>6. ASSUME UNCHANGED <<row, handler>> PROVE GraceInv'
    BY <2>6 DEF GraceInv
  <2>7. ASSUME NEW r \in Relays, RelayStep(r) PROVE GraceInv'
    BY <2>5, <2>6, <2>7 DEF RelayStep, RelayList, RelayTake, RelaySkip,
        RelayPost, RelayRollback, RelayCrash
  <2>8. QED
    BY <2>1, <2>2, <2>3, <2>4, <2>6, <2>7 DEF Next, ApiStep, vars
<1>3. QED
  BY <1>1, <1>2, LockInvariant, PTL DEF Spec

\* If inline deliveries end within the grace period, the lifecycle of
\* schema_pg.sql holds for any number of decisions and relays: a row that is
\* sent, dead or disabled is never written again.
THEOREM Lifecycle ==
    ASSUME GraceCoversInline PROVE Spec => LifecycleForward
<1> DEFINE Kept == \A d \in Decisions :
               row[d].status \in {"disabled", "sent", "dead"} => row'[d] = row[d]
<1>1. GraceInv /\ LockInv /\ [Next]_vars => [Kept]_row
  <2> SUFFICES ASSUME GraceInv, LockInv, [Next]_vars, row' # row PROVE Kept
    OBVIOUS
  <2> USE DEF apiVars, relayVars
  <2>0. TypeOK /\ NothingBeforeCommit /\ HeldRowIsStable
    BY DEF LockInv
  <2>1. ASSUME NEW d \in Decisions, row[d].status \in {"none", "pending"},
               \A e \in Decisions \ {d} : row'[e] = row[e]
        PROVE  Kept
    BY <2>1
  <2> HIDE DEF Kept
  <2>2. ASSUME NEW d \in Decisions, Commit(d) PROVE Kept
    BY <2>0, <2>1, <2>2 DEF Commit, NothingBeforeCommit, TypeOK
  <2>3. ASSUME NEW d \in Decisions, InlineRecord(d) PROVE Kept
    BY <2>0, <2>1, <2>3 DEF InlineRecord, ApplyOutcome, GraceInv, TypeOK
  <2>4. ASSUME NEW d \in Decisions, BecomesDue(d) PROVE Kept
    BY <2>0, <2>1, <2>4 DEF BecomesDue, TypeOK
  <2>5. ASSUME NEW r \in Relays, RelayCommit(r) PROVE Kept
    BY <2>0, <2>1, <2>5 DEF RelayCommit, ApplyOutcome, HeldRowIsStable, Due, TypeOK
  <2>6. \/ \E d \in Decisions : Commit(d) \/ InlineRecord(d) \/ BecomesDue(d)
        \/ \E r \in Relays : RelayCommit(r)
    BY DEF Next, vars, ApiStep, Insert, PersistFails, LogEvent, InlinePost,
        InlineRecordFails, ApiCrash, RelayStep, RelayList, RelayTake,
        RelaySkip, RelayPost, RelayRollback, RelayCrash
  <2>7. QED
    BY <2>2, <2>3, <2>4, <2>5, <2>6
<1>2. QED
  BY <1>1, GraceInvariant, LockInvariant, PTL DEF Spec, LifecycleForward

\* Until a row is settled by a success, its log holds no success; once it is,
\* exactly one.  The lifecycle never moves a row back out of 'sent', so the
\* two agree in every state.
OneAck ==
    \A d \in Decisions :
        delivery[d]["sent"] = (IF row[d].status = "sent" THEN 1 ELSE 0)

\* What one recorded attempt does to a row that is pending: its log holds a
\* success afterwards exactly if the row is sent.
LEMMA AckOfPending ==
    ASSUME TypeOK, OneAck, NEW d \in Decisions, row[d].status = "pending",
           NEW prev \in Nat, NEW rec \in Delivered, ApplyOutcome(d, prev, rec)
    PROVE  OneAck'
<1>1. delivery[d] \in [Delivered -> Nat] /\ delivery[d]["sent"] = 0
  BY DEF TypeOK, OneAck
<1>2. delivery'[d] = [delivery[d] EXCEPT ![rec] = @ + 1]
  BY DEF ApplyOutcome, TypeOK
<1>3. row'[d].status = "sent" <=> rec = "sent"
  BY DEF ApplyOutcome, Outcome, TypeOK
<1>4. delivery'[d]["sent"] = (IF rec = "sent" THEN 1 ELSE 0)
  BY <1>1, <1>2 DEF Delivered
<1>5. \A e \in Decisions \ {d} :
          row'[e] = row[e] /\ delivery'[e] = delivery[e]
  BY DEF ApplyOutcome, TypeOK
<1>6. QED
  BY <1>3, <1>4, <1>5 DEF OneAck

\* If inline deliveries end within the grace period, an acknowledged decision
\* is settled for good: one success in its log, the row 'sent', and no relay
\* on it (webhooks.py, apply_outcome; webhook_relay.py, relay_once).
THEOREM AckedFinal ==
    ASSUME GraceCoversInline PROVE Spec => []AckedIsFinal
<1>1. Init => OneAck
  BY DEF Init, OneAck, Delivered
<1>2. OneAck /\ GraceInv /\ LockInv /\ [Next]_vars => OneAck'
  <2> SUFFICES ASSUME OneAck, GraceInv, LockInv, [Next]_vars PROVE OneAck'
    OBVIOUS
  <2> USE DEF apiVars, relayVars
  <2>0. /\ TypeOK /\ NothingBeforeCommit /\ PostedHasRecord
        /\ HeldRowIsStable
    BY DEF LockInv
  <2>1. ASSUME UNCHANGED <<row, delivery>> PROVE OneAck'
    BY <2>1 DEF OneAck
  <2>2. ASSUME NEW d \in Decisions, Commit(d) PROVE OneAck'
    <3>1. row[d].status = "none" /\ FreshRow.status # "sent"
      BY <2>0, <2>2 DEF Commit, NothingBeforeCommit, FreshRow
    <3>2. /\ row'[d] = FreshRow \/ row'[d] = row[d]
          /\ \A e \in Decisions \ {d} : row'[e] = row[e]
          /\ delivery' = delivery
      BY <2>0, <2>2 DEF Commit, TypeOK
    <3>3. QED
      BY <3>1, <3>2 DEF OneAck
  <2>3. ASSUME NEW d \in Decisions, InlineRecord(d) PROVE OneAck'
    <3>1. CASE row[d].status = "none"
      BY <2>1, <2>3, <3>1 DEF InlineRecord
    <3>2. CASE row[d].status # "none"
      <4>1. row[d].status = "pending"
        BY <2>3, <3>2 DEF InlineRecord, GraceInv
      <4>2. inlineRec[d] \in Delivered /\ row[d].attempts \in Nat
        BY <2>0, <2>3 DEF InlineRecord, PostedHasRecord, TypeOK
      <4>3. ApplyOutcome(d, row[d].attempts, inlineRec[d])
        BY <2>3, <3>2 DEF InlineRecord
      <4>4. QED
        BY <2>0, <4>1, <4>2, <4>3, AckOfPending
    <3>3. QED
      BY <3>1, <3>2
  <2>4. ASSUME NEW d \in Decisions, BecomesDue(d) PROVE OneAck'
    BY <2>0, <2>4 DEF BecomesDue, OneAck, TypeOK
  <2>5. ASSUME NEW r \in Relays, RelayCommit(r) PROVE OneAck'
    <3>1. /\ holding[r] \in Decisions
          /\ relayRec[r] \in Delivered
          /\ prevAttempts[r] \in Nat
          /\ row[holding[r]].status = "pending"
      BY <2>0, <2>5
      DEF RelayCommit, TypeOK, HeldRowIsStable, Due, Record, Delivered
    <3>2. ApplyOutcome(holding[r], prevAttempts[r], relayRec[r])
      BY <2>5 DEF RelayCommit
    <3>3. QED
      BY <2>0, <3>1, <3>2, AckOfPending
  <2>6. \/ UNCHANGED <<row, delivery>>
        \/ \E d \in Decisions : Commit(d) \/ InlineRecord(d) \/ BecomesDue(d)
        \/ \E r \in Relays : RelayCommit(r)
    BY DEF Next, vars, ApiStep, Insert, PersistFails, LogEvent, InlinePost,
        InlineRecordFails, ApiCrash, RelayStep, RelayList, RelayTake,
        RelaySkip, RelayPost, RelayRollback, RelayCrash
  <2>7. QED
    BY <2>1, <2>2, <2>3, <2>4, <2>5, <2>6
<1>3. OneAck /\ LockInv => AckedIsFinal
  <2> SUFFICES ASSUME OneAck, LockInv, NEW d \in Decisions,
                      delivery[d]["sent"] > 0
               PROVE  /\ delivery[d]["sent"] = 1
                      /\ row[d].status = "sent"
                      /\ ~Locked(d)
    BY DEF AckedIsFinal
  <2>1. delivery[d]["sent"] = 1 /\ row[d].status = "sent"
    BY DEF OneAck
  <2>2. ~Locked(d)
    BY <2>1, OutboxAssumption DEF LockInv, HeldRowIsStable, Due, Locked
  <2>3. QED
    BY <2>1, <2>2
<1>4. QED
  BY <1>1, <1>2, <1>3, GraceInvariant, LockInvariant, PTL DEF Spec

-----------------------------------------------------------------------------
(* What a settled row says of the receiver and of the retry budget.        *)

\* A success somebody is about to record was received.
SuccessIsReal ==
    /\ \A d \in Decisions : inlineRec[d] = "sent" => received[d] > 0
    /\ \A r \in Relays : relayRec[r] = "sent" =>
           holding[r] # NoDecision /\ received[holding[r]] > 0

\* The budget, by what can still be written: a pending row has an attempt
\* left; before the inline record no row is past the budget, and after it by
\* one at most.
BudgetInv ==
    \A d \in Decisions :
        /\ row[d].status = "sent" => received[d] > 0
        /\ row[d].status = "dead" => row[d].attempts >= MaxAttempts
        /\ row[d].status = "pending" => row[d].attempts < MaxAttempts
        /\ row[d].attempts <= MaxAttempts
               + (IF GraceCoversInline \/ handler[d] # "closed" THEN 0 ELSE 1)

EarnedInv == SuccessIsReal /\ BudgetInv

\* One recorded attempt: a success needs a POST received, a dead letter the
\* whole budget, and a row put back to pending has an attempt left.
LEMMA OutcomeEarned ==
    ASSUME NEW prev \in Nat, NEW rec \in Delivered
    PROVE  LET new == Outcome(prev, rec)
           IN  /\ new.attempts = prev + 1
               /\ new.status = "sent" => rec = "sent"
               /\ new.status = "dead" => new.attempts >= MaxAttempts
               /\ new.status = "pending" => new.attempts < MaxAttempts
BY OutboxAssumption DEF Outcome, Delivered

\* The budget survives whatever leaves each row's status and count alone, or
\* writes a fresh row, and reopens no handler.
LEMMA BudgetKept ==
    ASSUME TypeOK, BudgetInv,
           \A e \in Decisions :
               /\ \/ /\ row'[e].status = row[e].status
                     /\ row'[e].attempts = row[e].attempts
                  \/ /\ row'[e].status \in {"pending", "disabled"}
                     /\ row'[e].attempts = 0
               /\ handler[e] = "closed" => handler'[e] = "closed"
               /\ received'[e] >= received[e]
               /\ received'[e] \in Nat
    PROVE  BudgetInv'
<1>1. SUFFICES
        ASSUME NEW e \in Decisions
        PROVE  /\ row'[e].status = "sent" => received'[e] > 0
               /\ row'[e].status = "dead" => row'[e].attempts >= MaxAttempts
               /\ row'[e].status = "pending" => row'[e].attempts < MaxAttempts
               /\ row'[e].attempts <= MaxAttempts
                    + (IF GraceCoversInline \/ handler'[e] # "closed"
                       THEN 0 ELSE 1)
  BY DEF BudgetInv
<1>2. row[e].attempts \in Nat /\ received[e] \in Nat
  BY DEF TypeOK
<1>3. CASE /\ row'[e].status = row[e].status
           /\ row'[e].attempts = row[e].attempts
  BY <1>2, <1>3, OutboxAssumption DEF BudgetInv
<1>4. CASE /\ row'[e].status \in {"pending", "disabled"}
           /\ row'[e].attempts = 0
  BY <1>4, OutboxAssumption
<1>5. QED
  BY <1>3, <1>4

\* GraceInv, as an invariant under either setting of the grace period.
LEMMA GraceIfCovered == Spec => [](GraceCoversInline => GraceInv)
<1>1. CASE GraceCoversInline
  <2>1. GraceInv => (GraceCoversInline => GraceInv)
    OBVIOUS
  <2>2. Spec => []GraceInv
    BY <1>1, GraceInvariant
  <2>3. QED
    BY <2>1, <2>2, PTL
<1>2. CASE ~GraceCoversInline
  <2>1. GraceCoversInline => GraceInv
    BY <1>2
  <2>2. QED
    BY <2>1, PTL
<1>3. QED
  BY <1>1, <1>2

\* Every step keeps successes real and the budget.
LEMMA EarnedInvariant == Spec => []EarnedInv
<1>1. Init => EarnedInv
  BY OutboxAssumption DEF Init, EarnedInv, SuccessIsReal, BudgetInv
<1>2. /\ EarnedInv /\ LockInv /\ (GraceCoversInline => GraceInv) /\ TypeOK'
      /\ [Next]_vars
      => EarnedInv'
  <2> SUFFICES ASSUME EarnedInv, LockInv, GraceCoversInline => GraceInv,
                      TypeOK', [Next]_vars
               PROVE  EarnedInv'
    OBVIOUS
  <2> USE DEF apiVars, relayVars
  <2>0. /\ TypeOK /\ NothingBeforeCommit /\ PostedHasRecord
        /\ HeldRowIsStable /\ SuccessIsReal /\ BudgetInv
    BY DEF LockInv, EarnedInv
  <2>1. ASSUME NEW d \in Decisions,
               \/ Insert(d) \/ PersistFails(d) \/ LogEvent(d)
               \/ InlineRecordFails(d) \/ ApiCrash(d)
        PROVE  EarnedInv'
    <3>1. /\ UNCHANGED <<row, received, relayVars>>
          /\ \A e \in Decisions : handler[e] = "closed" => handler'[e] = "closed"
          /\ \A e \in Decisions : inlineRec'[e] = "sent" => inlineRec[e] = "sent"
      BY <2>0, <2>1 DEF Insert, PersistFails, LogEvent, InlineRecordFails,
          ApiCrash, TypeOK
    <3>2. SuccessIsReal'
      BY <2>0, <3>1 DEF SuccessIsReal
    <3>3. BudgetInv'
      BY <2>0, <3>1, BudgetKept DEF TypeOK
    <3>4. QED
      BY <3>2, <3>3 DEF EarnedInv
  <2>2. ASSUME NEW d \in Decisions, Commit(d) PROVE EarnedInv'
    <3>1. /\ FreshRow.attempts = 0
          /\ FreshRow.status \in {"pending", "disabled"}
      BY DEF FreshRow
    <3>2. /\ row'[d] = FreshRow \/ row'[d] = row[d]
          /\ \A e \in Decisions \ {d} : row'[e] = row[e]
          /\ \A e \in Decisions : handler[e] = "closed" => handler'[e] = "closed"
          /\ UNCHANGED <<inlineRec, relayVars, received>>
      BY <2>0, <2>2 DEF Commit, TypeOK
    <3>3. BudgetInv'
      <4>1. \A e \in Decisions :
                /\ \/ /\ row'[e].status = row[e].status
                      /\ row'[e].attempts = row[e].attempts
                   \/ /\ row'[e].status \in {"pending", "disabled"}
                      /\ row'[e].attempts = 0
                /\ received'[e] = received[e] /\ received[e] \in Nat
        BY <2>0, <3>1, <3>2 DEF TypeOK
      <4>2. QED
        BY <2>0, <3>2, <4>1, BudgetKept
    <3>4. SuccessIsReal'
      BY <2>0, <3>2 DEF SuccessIsReal
    <3>5. QED
      BY <3>3, <3>4 DEF EarnedInv
  <2>3. ASSUME NEW d \in Decisions, InlinePost(d) PROVE EarnedInv'
    <3>1. /\ UNCHANGED <<row, relayVars>>
          /\ handler[d] # "closed" /\ handler'[d] # "closed"
          /\ \A e \in Decisions \ {d} :
                 handler'[e] = handler[e] /\ inlineRec'[e] = inlineRec[e]
          /\ \A e \in Decisions : received'[e] >= received[e]
          /\ inlineRec'[d] = "sent" => received'[d] = received[d] + 1
      BY <2>0, <2>3 DEF InlinePost, Deliver, Delivered, TypeOK
    <3>2. BudgetInv'
      BY <2>0, <3>1, BudgetKept DEF TypeOK
    <3>3. SuccessIsReal'
      BY <2>0, <3>1, OutboxAssumption DEF SuccessIsReal, TypeOK
    <3>4. QED
      BY <3>2, <3>3 DEF EarnedInv
  <2>4. ASSUME NEW d \in Decisions, InlineRecord(d) PROVE EarnedInv'
    <3>1. /\ UNCHANGED <<received, relayVars>>
          /\ handler[d] = "posted" /\ handler'[d] = "closed"
          /\ \A e \in Decisions \ {d} :
                 /\ row'[e] = row[e] /\ handler'[e] = handler[e]
          /\ \A e \in Decisions : inlineRec'[e] = "sent" => inlineRec[e] = "sent"
      BY <2>0, <2>4 DEF InlineRecord, ApplyOutcome, TypeOK
    <3>2. SuccessIsReal'
      BY <2>0, <3>1 DEF SuccessIsReal
    <3>3. CASE row[d].status = "none"
      <4>1. row' = row
        BY <2>4, <3>3 DEF InlineRecord
      <4>2. BudgetInv'
        BY <2>0, <3>1, <4>1, BudgetKept DEF TypeOK
      <4>3. QED
        BY <3>2, <4>2 DEF EarnedInv
    <3>4. CASE row[d].status # "none"
      <4>1. /\ row'[d] = Outcome(row[d].attempts, inlineRec[d])
            /\ row[d].attempts \in Nat /\ inlineRec[d] \in Delivered
        BY <2>0, <2>4, <3>4
        DEF InlineRecord, ApplyOutcome, PostedHasRecord, TypeOK
      <4>2. /\ row'[d].attempts = row[d].attempts + 1
            /\ row'[d].status = "sent" => inlineRec[d] = "sent"
            /\ row'[d].status = "dead" => row'[d].attempts >= MaxAttempts
            /\ row'[d].status = "pending" => row'[d].attempts < MaxAttempts
        BY <4>1, OutcomeEarned
      <4>3. /\ GraceCoversInline => row[d].attempts < MaxAttempts
            /\ ~GraceCoversInline => row[d].attempts <= MaxAttempts
        BY <2>0, <3>1, <3>4, OutboxAssumption DEF GraceInv, BudgetInv, TypeOK
      <4>4. row'[d].attempts <= MaxAttempts
                + (IF GraceCoversInline \/ handler'[d] # "closed" THEN 0 ELSE 1)
        BY <3>1, <4>1, <4>2, <4>3, OutboxAssumption
      <4>5. row'[d].status = "sent" => received'[d] > 0
        BY <2>0, <3>1, <4>2 DEF SuccessIsReal
      <4>6. BudgetInv'
        BY <2>0, <3>1, <4>2, <4>4, <4>5 DEF BudgetInv
      <4>7. QED
        BY <3>2, <4>6 DEF EarnedInv
    <3>5. QED
      BY <3>3, <3>4
  <2>5. ASSUME NEW d \in Decisions, BecomesDue(d) PROVE EarnedInv'
    <3>1. /\ UNCHANGED <<apiVars, relayVars, received>>
          /\ \A e \in Decisions : /\ row'[e].status = row[e].status
                                  /\ row'[e].attempts = row[e].attempts
      BY <2>0, <2>5 DEF BecomesDue, TypeOK
    <3>2. QED
      BY <2>0, <3>1 DEF EarnedInv, SuccessIsReal, BudgetInv
  <2>6. ASSUME NEW r \in Relays, RelayPost(r) PROVE EarnedInv'
    <3>1. holding[r] \in Decisions
      BY <2>0, <2>6 DEF RelayPost, TypeOK
    <3>2. /\ UNCHANGED <<row, apiVars, holding>>
          /\ \A s \in Relays \ {r} : relayRec'[s] = relayRec[s]
          /\ \A e \in Decisions : received'[e] >= received[e]
          /\ relayRec'[r] = "sent" =>
                 received'[holding[r]] = received[holding[r]] + 1
      <4>1. PICK rec \in Delivered :
                /\ Deliver(holding[r], rec)
                /\ relayRec' = [relayRec EXCEPT ![r] = rec]
        BY <2>6 DEF RelayPost
      <4>2. /\ \A e \in Decisions : received'[e] >= received[e]
            /\ rec = "sent" =>
                   received'[holding[r]] = received[holding[r]] + 1
        <5>1. CASE received' = [received EXCEPT ![holding[r]] = @ + 1]
          BY <2>0, <3>1, <5>1 DEF TypeOK
        <5>2. CASE rec = "failed" /\ received' = received
          BY <2>0, <5>2 DEF TypeOK
        <5>3. QED
          BY <4>1, <5>1, <5>2 DEF Deliver
      <4>3. /\ \A s \in Relays \ {r} : relayRec'[s] = relayRec[s]
            /\ relayRec'[r] = rec
        BY <2>0, <4>1 DEF TypeOK
      <4>4. QED
        BY <2>6, <4>2, <4>3 DEF RelayPost
    <3>3. BudgetInv'
      BY <2>0, <3>2, BudgetKept DEF TypeOK
    <3>4. SuccessIsReal'
      BY <2>0, <3>1, <3>2, OutboxAssumption DEF SuccessIsReal, TypeOK
    <3>5. QED
      BY <3>3, <3>4 DEF EarnedInv
  <2>7. ASSUME NEW r \in Relays, RelayCommit(r) PROVE EarnedInv'
    <3>1. /\ holding[r] \in Decisions
          /\ relayRec[r] \in Delivered
          /\ prevAttempts[r] = row[holding[r]].attempts
          /\ prevAttempts[r] \in Nat
          /\ row[holding[r]].status = "pending"
      BY <2>0, <2>7
      DEF RelayCommit, TypeOK, HeldRowIsStable, Due, Record, Delivered
    <3> DEFINE d == holding[r]
    <3>2. /\ row'[d] = Outcome(prevAttempts[r], relayRec[r])
          /\ \A e \in Decisions \ {d} : row'[e] = row[e]
          /\ UNCHANGED <<apiVars, received>>
      BY <2>0, <2>7, <3>1 DEF RelayCommit, ApplyOutcome, TypeOK
    <3>3. SuccessIsReal'
      BY <2>0, <2>7, <3>2 DEF RelayCommit, Release, SuccessIsReal, TypeOK
    <3>4. /\ row'[d].attempts = row[d].attempts + 1
          /\ row'[d].status = "sent" => relayRec[r] = "sent"
          /\ row'[d].status = "dead" => row'[d].attempts >= MaxAttempts
          /\ row'[d].status = "pending" => row'[d].attempts < MaxAttempts
      BY <3>1, <3>2, OutcomeEarned
    <3>5. row[d].attempts < MaxAttempts /\ row[d].attempts \in Nat
      BY <2>0, <3>1 DEF BudgetInv
    <3>6. row'[d].attempts <= MaxAttempts
              + (IF GraceCoversInline \/ handler'[d] # "closed" THEN 0 ELSE 1)
      BY <3>4, <3>5, OutboxAssumption
    <3>7. row'[d].status = "sent" => received'[d] > 0
      BY <2>0, <3>2, <3>4 DEF SuccessIsReal
    <3>8. BudgetInv'
      <4> HIDE DEF d
      <4>1. handler' = handler /\ received' = received
        BY <3>2
      <4>2. QED
        BY <2>0, <3>2, <3>4, <3>6, <3>7, <4>1 DEF BudgetInv
    <3>9. QED
      BY <3>3, <3>8 DEF EarnedInv
  <2>8. ASSUME NEW r \in Relays,
               RelayList(r) \/ (\E d \in Decisions : RelaySkip(r, d))
        PROVE  EarnedInv'
    BY <2>0, <2>8
    DEF RelayList, RelaySkip, EarnedInv, SuccessIsReal, BudgetInv
  <2>9. ASSUME NEW r \in Relays, NEW d \in Decisions, RelayTake(r, d)
        PROVE  EarnedInv'
    <3>1. relayRec[r] # "sent"
      BY <2>0, <2>9 DEF RelayTake, SuccessIsReal
    <3>2. SuccessIsReal'
      BY <2>0, <2>9, <3>1 DEF RelayTake, SuccessIsReal, TypeOK
    <3>3. QED
      BY <2>0, <2>9, <3>2 DEF RelayTake, EarnedInv, BudgetInv
  <2>10. ASSUME NEW r \in Relays, RelayRollback(r) \/ RelayCrash(r)
         PROVE  EarnedInv'
    <3>1. UNCHANGED <<row, apiVars, received>> /\ Release(r)
      BY <2>10 DEF RelayRollback, RelayCrash
    <3>2. QED
      BY <2>0, <3>1 DEF Release, EarnedInv, SuccessIsReal, BudgetInv, TypeOK
  <2>11. CASE UNCHANGED vars
    BY <2>0, <2>11 DEF vars, EarnedInv, SuccessIsReal, BudgetInv
  <2>12. QED
    BY <2>1, <2>2, <2>3, <2>4, <2>5, <2>6, <2>7, <2>8, <2>9, <2>10, <2>11
    DEF Next, ApiStep, RelayStep
<1>3. QED
  BY <1>1, <1>2, GraceIfCovered, LockInvariant, TypeCorrect, PTL DEF Spec

\* 'sent' only if received, 'dead' only after the budget, and the budget
\* exceeded by one late inline record at most (webhooks.py, apply_outcome).
THEOREM TerminalEarned == Spec => []TerminalIsEarned
<1>1. EarnedInv /\ TypeOK => TerminalIsEarned
  BY OutboxAssumption DEF EarnedInv, BudgetInv, TerminalIsEarned, TypeOK
<1>2. QED
  BY <1>1, EarnedInvariant, TypeCorrect, PTL

-----------------------------------------------------------------------------
(* POSTs and the delivery log.                                             *)

InlineFlight(d) == IF handler[d] = "posted" THEN 1 ELSE 0
RelayFlight(d)  ==
    IF \E r \in Relays : holding[r] = d /\ relayRec[r] # "none" THEN 1 ELSE 0

\* A decision without a row was posted by its inline task at most, once, and
\* only because a fault lost the row: when that task finds nothing to record,
\* the fault pays for the POST.
LostRow ==
    \A d \in Decisions : row[d].status = "none" =>
        /\ handler[d] = "posted" => received[d] <= 1
        /\ handler[d] \notin {"posted", "closed"} => received[d] = 0
        /\ handler[d] \in {"aborted", "queued", "posted"} => faults >= 1

AccountInv == LostRow /\ PostsAreAccounted

LEMMA Sizes ==
    ASSUME TypeOK, NEW d \in Decisions
    PROVE  /\ Attempted(d) \in Nat /\ received[d] \in Nat /\ faults \in Nat
           /\ InlineFlight(d) \in Nat /\ RelayFlight(d) \in Nat
           /\ InFlight(d) = InlineFlight(d) + RelayFlight(d)
<1>1. delivery[d]["sent"] \in Nat /\ delivery[d]["failed"] \in Nat
  BY DEF TypeOK, Delivered
<1>2. Attempted(d) \in Nat
  BY <1>1 DEF Attempted
<1>3. InlineFlight(d) \in Nat /\ RelayFlight(d) \in Nat
  BY DEF InlineFlight, RelayFlight
<1>4. InFlight(d) = InlineFlight(d) + RelayFlight(d)
  BY DEF InFlight, InlineFlight, RelayFlight
<1>5. QED
  BY <1>2, <1>3, <1>4 DEF TypeOK

\* The balance of one decision: what a step adds to its POSTs it adds to the
\* log, to what is in flight or to the faults.
Credit(d) == Attempted(d) + InlineFlight(d) + RelayFlight(d) + faults

LEMMA Balance ==
    ASSUME TypeOK, TypeOK', PostsAreAccounted,
           \A d \in Decisions :
               \/ received'[d] + Credit(d) <= received[d] + Credit(d)'
               \/ received'[d] <= faults'
    PROVE  PostsAreAccounted'
<1> SUFFICES ASSUME NEW d \in Decisions
             PROVE  received'[d] <= Attempted(d)' + InFlight(d)' + faults'
  BY DEF PostsAreAccounted
<1>1. /\ Attempted(d) \in Nat /\ received[d] \in Nat /\ faults \in Nat
      /\ InlineFlight(d) \in Nat /\ RelayFlight(d) \in Nat
      /\ InFlight(d) = InlineFlight(d) + RelayFlight(d)
  BY Sizes
<1>2. /\ Attempted(d)' \in Nat /\ received'[d] \in Nat /\ faults' \in Nat
      /\ InlineFlight(d)' \in Nat /\ RelayFlight(d)' \in Nat
      /\ InFlight(d)' = InlineFlight(d)' + RelayFlight(d)'
  <2>1. delivery'[d]["sent"] \in Nat /\ delivery'[d]["failed"] \in Nat
    BY DEF TypeOK, Delivered
  <2>2. Attempted(d)' \in Nat
    BY <2>1 DEF Attempted
  <2>3. InlineFlight(d)' \in Nat /\ RelayFlight(d)' \in Nat
    BY DEF InlineFlight, RelayFlight
  <2>4. InFlight(d)' = InlineFlight(d)' + RelayFlight(d)'
    BY DEF InFlight, InlineFlight, RelayFlight
  <2>5. QED
    BY <2>2, <2>3, <2>4 DEF TypeOK
<1>3. received[d] <= Attempted(d) + InFlight(d) + faults
  BY DEF PostsAreAccounted
<1>4. QED
  BY <1>1, <1>2, <1>3 DEF Credit

\* One recorded attempt of d adds one to d's log, and touches no other.
LEMMA OneMoreLogged ==
    ASSUME TypeOK, NEW d \in Decisions, NEW prev \in Nat,
           NEW rec \in Delivered, ApplyOutcome(d, prev, rec)
    PROVE  /\ Attempted(d)' = Attempted(d) + 1
           /\ \A e \in Decisions \ {d} : /\ Attempted(e)' = Attempted(e)
                                         /\ row'[e] = row[e]
           /\ row'[d].status # "none"
<1>1. /\ delivery[d] \in [Delivered -> Nat]
      /\ delivery[d]["sent"] \in Nat /\ delivery[d]["failed"] \in Nat
  BY DEF TypeOK, Delivered
<1>2. delivery'[d] = [delivery[d] EXCEPT ![rec] = @ + 1]
  BY DEF ApplyOutcome, TypeOK
<1>3. delivery'[d]["sent"] + delivery'[d]["failed"]
        = delivery[d]["sent"] + delivery[d]["failed"] + 1
  <2>1. CASE rec = "sent"
    BY <1>1, <1>2, <2>1 DEF Delivered
  <2>2. CASE rec = "failed"
    BY <1>1, <1>2, <2>2 DEF Delivered
  <2>3. QED
    BY <2>1, <2>2 DEF Delivered
<1>4. \A e \in Decisions \ {d} :
          row'[e] = row[e] /\ delivery'[e] = delivery[e]
  BY DEF ApplyOutcome, TypeOK
<1>5. row'[d].status # "none"
  BY DEF ApplyOutcome, Outcome, TypeOK
<1>6. QED
  BY <1>3, <1>4, <1>5 DEF Attempted

\* What a relay that lets its row go takes from the decisions in flight.
LEMMA ReleaseFlight ==
    ASSUME TypeOK, NEW r \in Relays, Release(r), NEW d \in Decisions
    PROVE  /\ RelayFlight(d) <= RelayFlight(d)' + 1
           /\ d # holding[r] => RelayFlight(d)' = RelayFlight(d)
<1>1. /\ holding'[r] = NoDecision /\ relayRec'[r] = "none"
      /\ \A s \in Relays \ {r} :
             holding'[s] = holding[s] /\ relayRec'[s] = relayRec[s]
  BY DEF Release, TypeOK
<1>2. RelayFlight(d) \in {0, 1} /\ RelayFlight(d)' \in {0, 1}
  BY DEF RelayFlight
<1>3. ASSUME d # holding[r] PROVE RelayFlight(d)' = RelayFlight(d)
  BY <1>1, <1>3 DEF RelayFlight
<1>4. QED
  BY <1>2, <1>3

\* Every step keeps each decision's balance.
LEMMA AccountInvariant == Spec => []AccountInv
<1>1. Init => AccountInv
  <2> SUFFICES ASSUME Init PROVE AccountInv
    OBVIOUS
  <2>1. LostRow
    BY DEF Init, LostRow
  <2>2. PostsAreAccounted
    BY DEF Init, PostsAreAccounted, Attempted, InFlight, Delivered
  <2>3. QED
    BY <2>1, <2>2 DEF AccountInv
<1>2. AccountInv /\ LockInv /\ TypeOK' /\ [Next]_vars => AccountInv'
  <2> SUFFICES ASSUME AccountInv, LockInv, TypeOK', [Next]_vars
               PROVE  AccountInv'
    OBVIOUS
  <2> USE DEF apiVars, relayVars
  <2>0. /\ TypeOK /\ NothingBeforeCommit /\ PostedHasRecord
        /\ HeldRowIsStable /\ LostRow /\ PostsAreAccounted
    BY DEF LockInv, AccountInv
  <2>s. \A d \in Decisions :
            /\ Attempted(d) \in Nat /\ received[d] \in Nat /\ faults \in Nat
            /\ InlineFlight(d) \in Nat /\ RelayFlight(d) \in Nat
    BY <2>0, Sizes
  <2>1. ASSUME NEW d \in Decisions,
               \/ Insert(d) \/ PersistFails(d) \/ LogEvent(d) \/ Commit(d)
               \/ InlineRecordFails(d) \/ ApiCrash(d)
        PROVE  AccountInv'
    <3>1. /\ UNCHANGED <<delivery, received, relayVars>>
          /\ \A e \in Decisions \ {d} :
                 handler'[e] = handler[e] /\ row'[e] = row[e]
          /\ faults' \in Nat /\ faults' >= faults
      BY <2>0, <2>1 DEF Insert, PersistFails, LogEvent, Commit,
          InlineRecordFails, ApiCrash, Fault, TypeOK
    <3>2. \/ faults' = faults + 1 /\ handler'[d] # "posted"
          \/ handler[d] # "posted" /\ handler'[d] # "posted"
      BY <2>0, <2>1 DEF Insert, PersistFails, LogEvent, Commit,
          InlineRecordFails, ApiCrash, Fault, TypeOK
    <3>3. PostsAreAccounted'
      <4> SUFFICES ASSUME NEW e \in Decisions
                   PROVE  received'[e] + Credit(e) <= received[e] + Credit(e)'
        BY <2>0, Balance
      <4>1. Attempted(e)' = Attempted(e) /\ RelayFlight(e)' = RelayFlight(e)
        BY <3>1 DEF Attempted, RelayFlight
      <4>2. InlineFlight(e) + faults <= InlineFlight(e)' + faults'
        BY <2>s, <3>1, <3>2 DEF InlineFlight
      <4>3. InlineFlight(e)' \in Nat
        BY DEF InlineFlight
      <4>4. QED
        BY <2>s, <3>1, <4>1, <4>2, <4>3 DEF Credit
    <3>4. LostRow'
      <4>1. /\ row'[d].status = "none" => row[d].status = "none"
            /\ handler'[d] # "closed" =>
                   /\ handler'[d] # "posted"
                   /\ handler[d] \notin {"posted", "closed"}
            /\ handler'[d] \in {"aborted", "queued"} =>
                   \/ row'[d].status # "none"
                   \/ handler[d] = "aborted" /\ row[d].status = "none"
                   \/ faults' = faults + 1
        BY <2>0, <2>1 DEF Insert, PersistFails, LogEvent, Commit,
            InlineRecordFails, ApiCrash, Fault, TypeOK, NothingBeforeCommit,
            FreshRow
      <4>2. QED
        BY <2>0, <2>s, <3>1, <4>1 DEF LostRow
    <3>5. QED
      BY <3>3, <3>4 DEF AccountInv
  <2>2. ASSUME NEW d \in Decisions, InlinePost(d) PROVE AccountInv'
    <3>1. /\ UNCHANGED <<row, delivery, relayVars, faults>>
          /\ handler[d] = "queued" /\ handler'[d] = "posted"
          /\ \A e \in Decisions \ {d} :
                 handler'[e] = handler[e] /\ received'[e] = received[e]
          /\ received'[d] \in Nat /\ received'[d] <= received[d] + 1
      BY <2>0, <2>2 DEF InlinePost, Deliver, TypeOK
    <3>2. PostsAreAccounted'
      <4> SUFFICES ASSUME NEW e \in Decisions
                   PROVE  received'[e] + Credit(e) <= received[e] + Credit(e)'
        BY <2>0, Balance
      <4>1. Attempted(e)' = Attempted(e) /\ RelayFlight(e)' = RelayFlight(e)
        BY <3>1 DEF Attempted, RelayFlight
      <4>2. received'[e] + InlineFlight(e) <= received[e] + InlineFlight(e)'
        BY <2>s, <3>1 DEF InlineFlight
      <4>3. InlineFlight(e)' \in Nat /\ received'[e] \in Nat
        BY DEF InlineFlight, TypeOK
      <4>4. QED
        BY <2>s, <3>1, <4>1, <4>2, <4>3 DEF Credit
    <3>3. LostRow'
      BY <2>0, <2>s, <3>1 DEF LostRow
    <3>4. QED
      BY <3>2, <3>3 DEF AccountInv
  <2>3. ASSUME NEW d \in Decisions, InlineRecord(d) PROVE AccountInv'
    <3>1. /\ UNCHANGED <<received, relayVars, faults>>
          /\ handler[d] = "posted" /\ handler'[d] = "closed"
          /\ \A e \in Decisions \ {d} : handler'[e] = handler[e]
      BY <2>0, <2>3 DEF InlineRecord, TypeOK
    <3>2. \A e \in Decisions : RelayFlight(e)' = RelayFlight(e)
      BY <3>1 DEF RelayFlight
    <3>3. \A e \in Decisions \ {d} :
              /\ InlineFlight(e)' = InlineFlight(e)
              /\ Attempted(e)' = Attempted(e)
              /\ row'[e] = row[e]
      BY <2>0, <2>3, <3>1
      DEF InlineFlight, InlineRecord, ApplyOutcome, Attempted, TypeOK
    <3>4. InlineFlight(d) = 1 /\ InlineFlight(d)' = 0
      BY <3>1 DEF InlineFlight
    <3>5. LostRow'
      <4>1. \A e \in Decisions \ {d} : row'[e] = row[e]
        BY <3>3
      <4>2. QED
        BY <2>0, <3>1, <4>1 DEF LostRow
    <3>6. \A e \in Decisions \ {d} :
              received'[e] + Credit(e) <= received[e] + Credit(e)'
      BY <2>s, <3>1, <3>2, <3>3 DEF Credit
    <3>7. CASE row[d].status = "none"
      <4>1. received'[d] <= faults'
        BY <2>0, <2>s, <3>1, <3>7 DEF LostRow
      <4>2. PostsAreAccounted'
        BY <2>0, <3>6, <4>1, Balance
      <4>3. QED
        BY <3>5, <4>2 DEF AccountInv
    <3>8. CASE row[d].status # "none"
      <4>1. Attempted(d)' = Attempted(d) + 1
        <5>1. inlineRec[d] \in Delivered /\ row[d].attempts \in Nat
          BY <2>0, <3>1 DEF PostedHasRecord, TypeOK
        <5>2. ApplyOutcome(d, row[d].attempts, inlineRec[d])
          BY <2>3, <3>8 DEF InlineRecord
        <5>3. QED
          BY <2>0, <5>1, <5>2, OneMoreLogged
      <4>2. received'[d] + Credit(d) <= received[d] + Credit(d)'
        BY <2>s, <3>1, <3>2, <3>4, <4>1 DEF Credit
      <4>3. PostsAreAccounted'
        BY <2>0, <3>6, <4>2, Balance
      <4>4. QED
        BY <3>5, <4>3 DEF AccountInv
    <3>9. QED
      BY <3>7, <3>8
  <2>4. ASSUME NEW d \in Decisions, BecomesDue(d) PROVE AccountInv'
    <3>1. /\ UNCHANGED <<delivery, apiVars, relayVars, received, faults>>
          /\ \A e \in Decisions : row'[e].status = row[e].status
      BY <2>0, <2>4 DEF BecomesDue, TypeOK
    <3>2. LostRow'
      BY <2>0, <3>1 DEF LostRow
    <3>3. PostsAreAccounted'
      BY <2>0, <3>1 DEF PostsAreAccounted, Attempted, InFlight
    <3>4. QED
      BY <3>2, <3>3 DEF AccountInv
  <2>5. ASSUME NEW r \in Relays, RelayPost(r) PROVE AccountInv'
    <3> DEFINE h == holding[r]
    <3>1. h \in Decisions /\ row[h].status = "pending" /\ relayRec[r] = "none"
      BY <2>0, <2>5 DEF RelayPost, HeldRowIsStable, Due, TypeOK
    <3>2. /\ UNCHANGED <<row, delivery, apiVars, holding, faults>>
          /\ relayRec'[r] \in Delivered
          /\ \A s \in Relays \ {r} : relayRec'[s] = relayRec[s]
      BY <2>0, <2>5 DEF RelayPost, TypeOK
    <3>3. /\ \A e \in Decisions \ {h} : received'[e] = received[e]
          /\ received'[h] <= received[h] + 1
      <4>1. \/ received' = [received EXCEPT ![h] = @ + 1]
            \/ received' = received
        BY <2>5 DEF RelayPost, Deliver
      <4>2. QED
        BY <2>0, <3>1, <4>1 DEF TypeOK
    <3>4. RelayFlight(h) = 0 /\ RelayFlight(h)' = 1
      <4>1. \A s \in Relays : holding[s] = h => s = r
        BY <2>0, <3>1, OutboxAssumption DEF HeldRowIsStable
      <4>2. RelayFlight(h) = 0
        BY <3>1, <4>1 DEF RelayFlight
      <4>3. holding'[r] = h' /\ relayRec'[r] # "none" /\ h' = h
        BY <3>2 DEF Delivered
      <4>4. \E s \in Relays : holding'[s] = h /\ relayRec'[s] # "none"
        BY <4>3
      <4>5. RelayFlight(h)' = 1
        BY <4>3, <4>4 DEF RelayFlight
      <4>6. QED
        BY <4>2, <4>5
    <3>5. \A e \in Decisions \ {h} : RelayFlight(e)' = RelayFlight(e)
      <4> SUFFICES ASSUME NEW e \in Decisions \ {h}
                   PROVE  RelayFlight(e)' = RelayFlight(e)
        OBVIOUS
      <4>1. \A s \in Relays : holding[s] = e =>
                holding'[s] = holding[s] /\ relayRec'[s] = relayRec[s]
        BY <3>2
      <4>2. \A s \in Relays : holding'[s] = e => holding[s] = e
        BY <3>2
      <4>3. QED
        BY <4>1, <4>2 DEF RelayFlight
    <3>6. \A e \in Decisions : /\ Attempted(e)' = Attempted(e)
                               /\ InlineFlight(e)' = InlineFlight(e)
      BY <3>2 DEF Attempted, InlineFlight
    <3>7. h' = h
      BY <3>2
    <3> HIDE DEF h
    <3>8. PostsAreAccounted'
      <4>1. \A e \in Decisions :
                received'[e] + Credit(e) <= received[e] + Credit(e)'
        <5> SUFFICES ASSUME NEW e \in Decisions
                     PROVE  received'[e] + Credit(e) <= received[e] + Credit(e)'
          OBVIOUS
        <5>1. received'[e] \in Nat
          BY DEF TypeOK
        <5>2. CASE e = h
          <6>1. RelayFlight(e) = 0 /\ RelayFlight(e)' = 1
            BY <3>4, <3>7, <5>2
          <6>2. QED
            BY <2>s, <3>2, <3>3, <3>6, <5>1, <5>2, <6>1 DEF Credit
        <5>3. CASE e # h
          BY <2>s, <3>2, <3>3, <3>5, <3>6, <5>3 DEF Credit
        <5>4. QED
          BY <5>2, <5>3
      <4>2. QED
        BY <2>0, <4>1, Balance
    <3>9. LostRow'
      BY <2>0, <3>1, <3>2, <3>3 DEF LostRow
    <3>10. QED
      BY <3>8, <3>9 DEF AccountInv
  <2>6. ASSUME NEW r \in Relays, RelayCommit(r) PROVE AccountInv'
    <3> DEFINE h == holding[r]
    <3>1. /\ h \in Decisions /\ row[h].status = "pending"
          /\ relayRec[r] \in Delivered /\ prevAttempts[r] \in Nat
      BY <2>0, <2>6
      DEF RelayCommit, HeldRowIsStable, Due, TypeOK, Record, Delivered
    <3>2. UNCHANGED <<apiVars, received, faults>> /\ Release(r)
      BY <2>6 DEF RelayCommit
    <3> HIDE DEF h
    <3>3. ApplyOutcome(h, prevAttempts[r], relayRec[r])
      BY <2>6 DEF RelayCommit, h
    <3>4. /\ delivery'[h]["sent"] + delivery'[h]["failed"]
                = Attempted(h) + 1
          /\ \A e \in Decisions \ {h} : /\ Attempted(e)' = Attempted(e)
                                        /\ row'[e] = row[e]
          /\ row'[h].status # "none"
      BY <2>0, <3>1, <3>3, OneMoreLogged DEF Attempted
    <3>5. \A e \in Decisions :
              /\ RelayFlight(e) <= RelayFlight(e)' + 1
              /\ e # h => RelayFlight(e)' = RelayFlight(e)
      BY <2>0, <3>2, ReleaseFlight DEF h
    <3>6. \A e \in Decisions :
              received'[e] + Credit(e) <= received[e] + Credit(e)'
      <4> SUFFICES ASSUME NEW e \in Decisions
                   PROVE  received'[e] + Credit(e) <= received[e] + Credit(e)'
        OBVIOUS
      <4>1. InlineFlight(e)' = InlineFlight(e) /\ RelayFlight(e)' \in Nat
        BY <3>2 DEF InlineFlight, RelayFlight
      <4>2. CASE e = h
        <5>1. Attempted(e)' = Attempted(e) + 1
          BY <3>4, <4>2 DEF Attempted
        <5>2. QED
          BY <2>s, <3>2, <3>5, <4>1, <5>1 DEF Credit
      <4>3. CASE e # h
        BY <2>s, <3>2, <3>4, <3>5, <4>1, <4>3 DEF Credit
      <4>4. QED
        BY <4>2, <4>3
    <3>7. PostsAreAccounted'
      BY <2>0, <3>6, Balance
    <3>8. LostRow'
      BY <2>0, <3>1, <3>2, <3>4 DEF LostRow
    <3>9. QED
      BY <3>7, <3>8 DEF AccountInv
  <2>7. ASSUME NEW r \in Relays, RelayRollback(r) \/ RelayCrash(r)
        PROVE  AccountInv'
    <3>1. /\ UNCHANGED <<row, delivery, apiVars, received>> /\ Release(r)
          /\ faults' = faults + 1
      BY <2>7 DEF RelayRollback, RelayCrash, Fault
    <3>2. LostRow'
      BY <2>0, <2>s, <3>1 DEF LostRow
    <3>3. \A e \in Decisions : RelayFlight(e) <= RelayFlight(e)' + 1
      BY DEF RelayFlight
    <3>4. \A e \in Decisions :
              received'[e] + Credit(e) <= received[e] + Credit(e)'
      <4> SUFFICES ASSUME NEW e \in Decisions
                   PROVE  received'[e] + Credit(e) <= received[e] + Credit(e)'
        OBVIOUS
      <4>1. /\ InlineFlight(e)' = InlineFlight(e)
            /\ Attempted(e)' = Attempted(e)
            /\ RelayFlight(e)' \in Nat
        BY <3>1 DEF InlineFlight, Attempted, RelayFlight
      <4>2. QED
        BY <2>s, <3>1, <3>3, <4>1 DEF Credit
    <3>5. PostsAreAccounted'
      BY <2>0, <3>4, Balance
    <3>6. QED
      BY <3>2, <3>5 DEF AccountInv
  <2>8. ASSUME NEW r \in Relays,
               RelayList(r) \/ (\E d \in Decisions : RelaySkip(r, d))
        PROVE  AccountInv'
    <3>1. UNCHANGED <<row, delivery, apiVars, holding, relayRec, received,
                      faults>>
      BY <2>8 DEF RelayList, RelaySkip
    <3>2. QED
      BY <2>0, <3>1
      DEF AccountInv, LostRow, PostsAreAccounted, Attempted, InFlight
  <2>9. ASSUME NEW r \in Relays, NEW d \in Decisions, RelayTake(r, d)
        PROVE  AccountInv'
    <3>1. /\ UNCHANGED <<row, delivery, apiVars, relayRec, received, faults>>
          /\ holding[r] = NoDecision
          /\ \A s \in Relays \ {r} : holding'[s] = holding[s]
      BY <2>0, <2>9 DEF RelayTake, TypeOK
    <3>2. LostRow'
      BY <2>0, <3>1 DEF LostRow
    <3>3. \A e \in Decisions : RelayFlight(e) <= RelayFlight(e)'
      <4> SUFFICES ASSUME NEW e \in Decisions
                   PROVE  RelayFlight(e) <= RelayFlight(e)'
        OBVIOUS
      <4>1. \A s \in Relays : holding[s] = e => holding'[s] = e
        BY <3>1, OutboxAssumption
      <4>2. QED
        BY <3>1, <4>1 DEF RelayFlight
    <3>4. \A e \in Decisions :
              received'[e] + Credit(e) <= received[e] + Credit(e)'
      <4> SUFFICES ASSUME NEW e \in Decisions
                   PROVE  received'[e] + Credit(e) <= received[e] + Credit(e)'
        OBVIOUS
      <4>1. /\ InlineFlight(e)' = InlineFlight(e)
            /\ Attempted(e)' = Attempted(e)
            /\ RelayFlight(e)' \in Nat
        BY <3>1 DEF InlineFlight, Attempted, RelayFlight
      <4>2. QED
        BY <2>s, <3>1, <3>3, <4>1 DEF Credit
    <3>5. PostsAreAccounted'
      BY <2>0, <3>4, Balance
    <3>6. QED
      BY <3>2, <3>5 DEF AccountInv
  <2>10. CASE UNCHANGED vars
    BY <2>0, <2>10
    DEF vars, AccountInv, LostRow, PostsAreAccounted, Attempted, InFlight
  <2>11. QED
    BY <2>1, <2>2, <2>3, <2>4, <2>5, <2>6, <2>7, <2>8, <2>9, <2>10
    DEF Next, ApiStep, RelayStep
<1>3. QED
  BY <1>1, <1>2, LockInvariant, TypeCorrect, PTL DEF Spec

\* No POST is unaccounted for, but for those in flight and at most one per
\* fault (webhooks.py, deliver_and_record; webhook_relay.py, relay_once).
THEOREM PostsAccounted == Spec => []PostsAreAccounted
<1>1. AccountInv => PostsAreAccounted
  BY DEF AccountInv
<1>2. QED
  BY <1>1, AccountInvariant, PTL

-----------------------------------------------------------------------------
(* The safety part of the refinement.                                      *)

\* The values DeliveryPromise's variables have in a state of the outbox.
phase == [d \in Decisions |-> PhaseOf(row[d].status)]
has   == [d \in Decisions |-> received[d] > 0]

\* What the steps are matched with: the invariants of the outbox.
RefInv == LockInv /\ GraceInv /\ EarnedInv /\ AccountInv

\* A step that changes one decision's phase changes no other's.
LEMMA PhaseMoves ==
    ASSUME NEW d \in Decisions, \A e \in Decisions \ {d} : row'[e] = row[e]
    PROVE  phase' = [phase EXCEPT ![d] = PhaseOf(row'[d].status)]
BY DEF phase

\* A POST of one decision reaches the consumer of no other.
LEMMA Arrives ==
    ASSUME TypeOK, NEW d \in Decisions,
           received' = [received EXCEPT ![d] = @ + 1]
    PROVE  has' = [has EXCEPT ![d] = TRUE]
<1>1. \A e \in Decisions : received'[e] = IF e = d THEN received[e] + 1
                                                   ELSE received[e]
  BY DEF TypeOK
<1>2. received[d] + 1 > 0
  BY DEF TypeOK
<1>3. ASSUME NEW e \in Decisions
      PROVE  (received'[e] > 0) = (IF e = d THEN TRUE ELSE received[e] > 0)
  <2>1. CASE e = d
    <3>1. (received'[e] > 0) = TRUE
      BY <1>1, <1>2, <2>1
    <3>2. QED
      BY <2>1, <3>1, Zenon
  <2>2. CASE e # d
    BY <1>1, <2>2
  <2>3. QED
    BY <2>1, <2>2
<1>4. [e \in Decisions |-> received'[e] > 0]
        = [e \in Decisions |-> IF e = d THEN TRUE ELSE received[e] > 0]
  BY <1>3
<1>5. [e \in Decisions |-> IF e = d THEN TRUE ELSE received[e] > 0]
        = [[e \in Decisions |-> received[e] > 0] EXCEPT ![d] = TRUE]
  BY Zenon
<1>6. QED
  BY <1>4, <1>5 DEF has

\* What a step of the promise looks like in the outbox's terms.
LEMMA PromiseSteps ==
    ASSUME NEW d \in Decisions
    PROVE  /\ /\ phase[d] = "unknown" /\ ~has[d]
              /\ \E p \in {"owed", "unowed"} : phase' = [phase EXCEPT ![d] = p]
              /\ has' = has
              => Promise!Accept(d)
           /\ /\ phase[d] \in {"unknown", "owed"} /\ ~has[d]
              /\ has' = [has EXCEPT ![d] = TRUE]
              /\ phase' = phase
              => Promise!Arrive(d)
           /\ /\ phase[d] = "owed"
              /\ \/ has[d] /\ phase' = [phase EXCEPT ![d] = "delivered"]
                 \/ phase' = [phase EXCEPT ![d] = "abandoned"]
              /\ has' = has
              => Promise!Settle(d)
BY DEF Promise!Accept, Promise!Arrive, Promise!Settle, phase, has

\* A recorded attempt settles an owed decision, or leaves it owed.
LEMMA RecordRefines ==
    ASSUME TypeOK, NEW d \in Decisions, row[d].status = "pending",
           NEW prev \in Nat, NEW rec \in Delivered,
           ApplyOutcome(d, prev, rec), rec = "sent" => received[d] > 0,
           received' = received
    PROVE  Promise!Settle(d) \/ UNCHANGED <<phase, has>>
<1>1. /\ row'[d] = Outcome(prev, rec)
      /\ \A e \in Decisions \ {d} : row'[e] = row[e]
  BY DEF ApplyOutcome, TypeOK
<1>2. /\ phase' = [phase EXCEPT ![d] = PhaseOf(row'[d].status)]
      /\ phase[d] = "owed" /\ has' = has
  BY <1>1, PhaseMoves DEF phase, has, PhaseOf
<1>3. \/ row'[d].status = "sent" /\ rec = "sent"
      \/ row'[d].status = "dead"
      \/ row'[d].status = "pending"
  BY <1>1 DEF Outcome
<1>4. CASE row'[d].status = "sent" /\ rec = "sent"
  <2>1. PhaseOf(row'[d].status) = "delivered" /\ has[d]
    BY <1>4 DEF PhaseOf, has
  <2>2. QED
    BY <1>2, <2>1, PromiseSteps
<1>5. CASE row'[d].status = "dead"
  <2>1. PhaseOf(row'[d].status) = "abandoned"
    BY <1>5 DEF PhaseOf
  <2>2. QED
    BY <1>2, <2>1, PromiseSteps
<1>6. CASE row'[d].status = "pending"
  <2>1. PhaseOf(row'[d].status) = phase[d]
    BY <1>2, <1>6 DEF PhaseOf
  <2>2. phase' = phase
    BY <1>2, <2>1 DEF phase
  <2>3. QED
    BY <1>2, <2>2
<1>7. QED
  BY <1>3, <1>4, <1>5, <1>6

\* A POST of an owed decision, or of one whose row was lost, arrives or not.
LEMMA PostRefines ==
    ASSUME TypeOK, NEW d \in Decisions, row[d].status \in {"none", "pending"},
           NEW rec \in Delivered, Deliver(d, rec), row' = row
    PROVE  Promise!Arrive(d) \/ UNCHANGED <<phase, has>>
<1>1. phase' = phase /\ phase[d] \in {"unknown", "owed"}
  BY DEF phase, PhaseOf
<1>2. CASE received' = received
  BY <1>1, <1>2 DEF has
<1>3. CASE received' = [received EXCEPT ![d] = @ + 1]
  <2>1. has' = [has EXCEPT ![d] = TRUE]
    BY <1>3, Arrives
  <2>2. CASE has[d]
    <3>1. has' = has
      <4>1. has[d] = TRUE
        BY <2>2 DEF has
      <4>2. has = [e \in Decisions |-> has[e]]
        BY DEF has
      <4>3. QED
        BY <2>1, <4>1, <4>2
    <3>2. QED
      BY <1>1, <3>1
  <2>3. CASE ~has[d]
    BY <1>1, <2>1, <2>3, PromiseSteps
  <2>4. QED
    BY <2>2, <2>3
<1>4. QED
  BY <1>2, <1>3 DEF Deliver

\* Every step of the handler, the inline task and the relays is a step of the
\* promise or none: what the consumer is told is settled stays so, and nothing
\* is called delivered that the consumer does not have (service.py, webhooks.py
\* and webhook_relay.py together).
THEOREM PromiseKept ==
    ASSUME GraceCoversInline PROVE Spec => KeepsPromise
<1>1. Init => Promise!Init
  <2> SUFFICES ASSUME Init PROVE Promise!Init
    OBVIOUS
  <2>1. \A d \in Decisions : PhaseOf(row[d].status) = "unknown"
    BY DEF Init, PhaseOf
  <2>2. \A d \in Decisions : (received[d] > 0) = FALSE
    BY DEF Init
  <2>3. [d \in Decisions |-> received[d] > 0] = [d \in Decisions |-> FALSE]
    BY <2>2, Zenon
  <2>4. QED
    BY <2>1, <2>3 DEF Promise!Init
<1>2. RefInv /\ [Next]_vars => Promise!Next \/ UNCHANGED <<phase, has>>
  <2> SUFFICES ASSUME RefInv, [Next]_vars
               PROVE  Promise!Next \/ UNCHANGED <<phase, has>>
    OBVIOUS
  <2> USE DEF apiVars, relayVars
  <2>0. /\ TypeOK /\ NothingBeforeCommit /\ PostedHasRecord
        /\ HeldRowIsStable /\ GraceInv /\ SuccessIsReal /\ LostRow
    BY DEF RefInv, LockInv, EarnedInv, AccountInv
  <2>1. ASSUME UNCHANGED <<row, received>> PROVE UNCHANGED <<phase, has>>
    BY <2>1 DEF phase, has
  <2>2. ASSUME NEW d \in Decisions,
               Promise!Accept(d) \/ Promise!Arrive(d) \/ Promise!Settle(d)
        PROVE  Promise!Next
    BY <2>2 DEF Promise!Next
  <2>3. ASSUME NEW d \in Decisions, Commit(d)
        PROVE  Promise!Accept(d) \/ UNCHANGED <<phase, has>>
    <3>1. row[d].status = "none" /\ received[d] = 0
      BY <2>0, <2>3 DEF Commit, NothingBeforeCommit, LostRow
    <3>2. /\ row' = row \/ row' = [row EXCEPT ![d] = FreshRow]
          /\ received' = received
      BY <2>3 DEF Commit
    <3>3. CASE row' = [row EXCEPT ![d] = FreshRow]
      <4>1. /\ row'[d] = FreshRow
            /\ \A e \in Decisions \ {d} : row'[e] = row[e]
        BY <2>0, <3>3 DEF TypeOK
      <4>2. PhaseOf(row'[d].status) \in {"owed", "unowed"}
        BY <4>1 DEF FreshRow, PhaseOf
      <4>3. phase' = [phase EXCEPT ![d] = PhaseOf(row'[d].status)]
        BY <4>1, PhaseMoves
      <4>4. phase[d] = "unknown" /\ ~has[d] /\ has' = has
        <5>1. phase[d] = "unknown"
          BY <3>1 DEF phase, PhaseOf
        <5>2. ~(received[d] > 0)
          BY <3>1
        <5>3. ~has[d] /\ has' = has
          BY <3>2, <5>2 DEF has
        <5>4. QED
          BY <5>1, <5>3
      <4>5. QED
        BY <4>2, <4>3, <4>4, PromiseSteps
    <3>4. QED
      BY <2>1, <3>2, <3>3
  <2>4. ASSUME NEW d \in Decisions, InlinePost(d)
        PROVE  Promise!Arrive(d) \/ UNCHANGED <<phase, has>>
    <3>1. row[d].status \in {"none", "pending"} /\ row' = row
      BY <2>0, <2>4 DEF InlinePost, GraceInv
    <3>2. PICK rec \in Delivered : Deliver(d, rec)
      BY <2>4 DEF InlinePost
    <3>3. QED
      BY <2>0, <3>1, <3>2, PostRefines
  <2>5. ASSUME NEW d \in Decisions, InlineRecord(d)
        PROVE  Promise!Settle(d) \/ UNCHANGED <<phase, has>>
    <3>1. CASE row[d].status = "none"
      BY <2>1, <2>5, <3>1 DEF InlineRecord
    <3>2. CASE row[d].status # "none"
      <4>1. row[d].status = "pending"
        BY <2>0, <2>5, <3>2 DEF InlineRecord, GraceInv
      <4>2. inlineRec[d] \in Delivered /\ row[d].attempts \in Nat
        BY <2>0, <2>5 DEF InlineRecord, PostedHasRecord, TypeOK
      <4>3. /\ ApplyOutcome(d, row[d].attempts, inlineRec[d])
            /\ received' = received
        BY <2>5, <3>2 DEF InlineRecord
      <4>4. inlineRec[d] = "sent" => received[d] > 0
        BY <2>0 DEF SuccessIsReal
      <4>5. QED
        BY <2>0, <4>1, <4>2, <4>3, <4>4, RecordRefines
    <3>3. QED
      BY <3>1, <3>2
  <2>6. ASSUME NEW d \in Decisions, BecomesDue(d)
        PROVE  UNCHANGED <<phase, has>>
    <3>1. received' = received /\ row' = [row EXCEPT ![d].next = "due"]
      BY <2>6 DEF BecomesDue
    <3>2. \A e \in Decisions : row'[e].status = row[e].status
      BY <2>0, <3>1 DEF TypeOK
    <3>3. phase' = phase
      <4>1. \A e \in Decisions :
                PhaseOf(row'[e].status) = PhaseOf(row[e].status)
        BY <3>2
      <4>2. QED
        BY <4>1 DEF phase
    <3>4. has' = has
      BY <3>1 DEF has
    <3>5. QED
      BY <3>3, <3>4
  <2>7. ASSUME NEW r \in Relays, RelayPost(r)
        PROVE  Promise!Next \/ UNCHANGED <<phase, has>>
    <3>1. holding[r] \in Decisions /\ row[holding[r]].status = "pending"
      BY <2>0, <2>7 DEF RelayPost, HeldRowIsStable, Due, TypeOK
    <3>2. PICK d \in Decisions : d = holding[r]
      BY <3>1
    <3>3. PICK rec \in Delivered : Deliver(d, rec)
      BY <2>7, <3>2 DEF RelayPost
    <3>4. row' = row
      BY <2>7 DEF RelayPost
    <3>5. Promise!Arrive(d) \/ UNCHANGED <<phase, has>>
      BY <2>0, <3>1, <3>2, <3>3, <3>4, PostRefines
    <3>6. QED
      BY <2>2, <3>5
  <2>8. ASSUME NEW r \in Relays, RelayCommit(r)
        PROVE  Promise!Next \/ UNCHANGED <<phase, has>>
    <3>1. /\ holding[r] \in Decisions
          /\ relayRec[r] \in Delivered
          /\ prevAttempts[r] \in Nat
          /\ row[holding[r]].status = "pending"
      BY <2>0, <2>8
      DEF RelayCommit, TypeOK, HeldRowIsStable, Due, Record, Delivered
    <3>2. PICK d \in Decisions, prev \in Nat, rec \in Delivered :
              d = holding[r] /\ prev = prevAttempts[r] /\ rec = relayRec[r]
      BY <3>1
    <3>3. ApplyOutcome(d, prev, rec) /\ received' = received
      BY <2>8, <3>2 DEF RelayCommit
    <3>4. rec = "sent" => received[d] > 0
      BY <2>0, <3>2 DEF SuccessIsReal
    <3>5. Promise!Settle(d) \/ UNCHANGED <<phase, has>>
      BY <2>0, <3>1, <3>2, <3>3, <3>4, RecordRefines
    <3>6. QED
      BY <2>2, <3>5
  <2>9. \/ UNCHANGED <<row, received>>
        \/ \E d \in Decisions : \/ Commit(d) \/ InlinePost(d)
                                \/ InlineRecord(d) \/ BecomesDue(d)
        \/ \E r \in Relays : RelayPost(r) \/ RelayCommit(r)
    BY DEF Next, vars, ApiStep, Insert, PersistFails, LogEvent,
        InlineRecordFails, ApiCrash, RelayStep, RelayList, RelayTake,
        RelaySkip, RelayRollback, RelayCrash
  <2>10. QED
    BY <2>1, <2>2, <2>3, <2>4, <2>5, <2>6, <2>7, <2>8, <2>9
<1>3. Spec => []RefInv
  BY LockInvariant, GraceInvariant, EarnedInvariant, AccountInvariant, PTL
  DEF RefInv
<1>4. QED
  BY <1>1, <1>2, <1>3, PTL DEF Spec, KeepsPromise, Promise!Spec, phase, has
=============================================================================
