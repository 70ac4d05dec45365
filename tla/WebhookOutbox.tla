--------------------------- MODULE WebhookOutbox ---------------------------
(***************************************************************************)
(* The transactional outbox of POST /score: the request handler that       *)
(* persists a decision with webhook_status='pending' (service.py), the     *)
(* inline delivery that runs after the response (webhooks.py), and the     *)
(* relay sweeps that redeliver what is due (webhook_relay.py).             *)
(*                                                                         *)
(* Time is abstracted to what the guards read: webhook_next_attempt_at is  *)
(* "later" (a time still to come), "due" (a time that has passed) or       *)
(* "null".  A decision, its payload and the HTTP exchange are abstracted   *)
(* to an identity and an outcome.                                          *)
(***************************************************************************)
EXTENDS Naturals, FiniteSets

CONSTANTS
    Decisions,          \* the scored transactions, one bp_decision id each
    Relays,             \* relay processes sweeping the outbox
    NoDecision,         \* "this relay holds no row"
    MaxAttempts,        \* config.WEBHOOK_MAX_ATTEMPTS
    Batch,              \* config.WEBHOOK_RELAY_BATCH
    GraceCoversInline,  \* TRUE: an inline delivery always ends, POST and
                        \* record, within config.WEBHOOK_RELAY_GRACE_SECONDS
    MaxFaults           \* bound of the model: crashes and failed statements

ASSUME OutboxAssumption ==
    /\ NoDecision \notin Decisions
    /\ MaxAttempts \in Nat \ {0}
    /\ Batch \in Nat \ {0}
    /\ GraceCoversInline \in BOOLEAN
    /\ MaxFaults \in Nat

VARIABLES
    urlSet,        \* config.SCORE_WEBHOOK_URL is not empty
    row,           \* bp_decision, the webhook_* columns
    delivery,      \* bp_webhook_delivery: how many rows of each status
    handler,       \* where the /score handler and its background task are
    inlineRec,     \* the record deliver() returned to the inline task
    todo,          \* ids a relay listed and has not handled yet
    holding,       \* the row a relay holds FOR UPDATE
    prevAttempts,  \* webhook_attempts as that relay read it
    relayRec,      \* the record deliver() returned to that relay
    received,      \* POSTs that reached the receiver, per decision
    faults         \* faults so far

apiVars   == <<handler, inlineRec>>
relayVars == <<todo, holding, prevAttempts, relayRec>>
vars == <<urlSet, row, delivery, apiVars, relayVars, received, faults>>

-----------------------------------------------------------------------------
(* Types and shared helpers.                                               *)

RowStatus    == {"none", "disabled", "pending", "sent", "dead"}
HandlerState == {"idle", "inserted", "logged", "aborted",
                 "queued", "posted", "closed"}
Delivered    == {"sent", "failed"}           \* statuses of a delivery row
Record       == Delivered \cup {"none"}

TypeOK ==
    /\ urlSet \in BOOLEAN
    /\ row \in [Decisions -> [status: RowStatus, attempts: Nat,
                              next: {"null", "later", "due"}]]
    /\ delivery \in [Decisions -> [Delivered -> Nat]]
    /\ handler \in [Decisions -> HandlerState]
    /\ inlineRec \in [Decisions -> Record]
    /\ todo \in [Relays -> SUBSET Decisions]
    /\ holding \in [Relays -> Decisions \cup {NoDecision}]
    /\ prevAttempts \in [Relays -> Nat]
    /\ relayRec \in [Relays -> Record]
    /\ received \in [Decisions -> Nat]
    /\ faults \in Nat

\* Mutant: the relay retries only what the inline task attempted first.
Due_OnlyRetries(d) ==
    row[d].status = "pending" /\ row[d].next = "due" /\ row[d].attempts > 0

Due(d)    == row[d].status = "pending" /\ row[d].next = "due"
Locked(d) == \E r \in Relays : holding[r] = d

\* The columns the INSERT of /score writes.
FreshRow == [status   |-> IF urlSet THEN "pending" ELSE "disabled",
             attempts |-> 0,
             next     |-> IF urlSet THEN "later" ELSE "null"]

\* Mutants: the delivery record's status is written as the row's; the row is
\* dead-lettered one attempt early.
Outcome_RawStatus(prev, rec) ==
    [status |-> rec, attempts |-> prev + 1, next |-> "null"]
Outcome_EarlyDead(prev, rec) ==
    LET retry == rec # "sent" /\ prev + 1 < MaxAttempts - 1
    IN  [status   |-> IF rec = "sent" THEN "sent"
                      ELSE IF retry THEN "pending" ELSE "dead",
         attempts |-> prev + 1,
         next     |-> IF retry THEN "later" ELSE "null"]

\* apply_outcome: the columns after one recorded attempt, given the number of
\* attempts the caller read; the backoff is a time still to come.
Outcome(prev, rec) ==
    LET attempts == prev + 1
        retry    == rec # "sent" /\ attempts < MaxAttempts
    IN  [status   |-> IF rec = "sent" THEN "sent"
                      ELSE IF retry THEN "pending" ELSE "dead",
         attempts |-> attempts,
         next     |-> IF retry THEN "later" ELSE "null"]

\* Mutant: only deliveries that succeeded are logged.
ApplyOutcome_LogsSuccess(d, prev, rec) ==
    /\ row' = [row EXCEPT ![d] = Outcome(prev, rec)]
    /\ delivery' = IF rec = "sent" THEN [delivery EXCEPT ![d][rec] = @ + 1]
                                    ELSE delivery

\* apply_outcome, both statements: the row moves on and the attempt is logged.
ApplyOutcome(d, prev, rec) ==
    /\ row' = [row EXCEPT ![d] = Outcome(prev, rec)]
    /\ delivery' = [delivery EXCEPT ![d][rec] = @ + 1]

\* deliver(): 2xx is "sent"; every other answer, and every exception, is
\* "failed", whether or not the receiver had processed the POST.
Deliver(d, rec) ==
    \/ received' = [received EXCEPT ![d] = @ + 1]
    \/ rec = "failed" /\ UNCHANGED received

Fault == faults < MaxFaults /\ faults' = faults + 1

-----------------------------------------------------------------------------
(* The /score handler, up to the response.                                 *)

Insert(d) ==
    /\ handler[d] = "idle"
    /\ handler' = [handler EXCEPT ![d] = "inserted"]
    /\ UNCHANGED <<urlSet, row, delivery, inlineRec, relayVars, received, faults>>

\* The store is unreachable or the INSERT fails: the decision is returned,
\* decision_id stays None and nothing is scheduled.
PersistFails(d) ==
    /\ handler[d] = "idle"
    /\ Fault
    /\ handler' = [handler EXCEPT ![d] = "closed"]
    /\ UNCHANGED <<urlSet, row, delivery, inlineRec, relayVars, received>>

\* audit.log_event on the handler's own transaction.  It swallows an SQL
\* error, which leaves the transaction aborted.
LogEvent(d) ==
    /\ handler[d] = "inserted"
    /\ \/ handler' = [handler EXCEPT ![d] = "logged"] /\ UNCHANGED faults
       \/ handler' = [handler EXCEPT ![d] = "aborted"] /\ Fault
    /\ UNCHANGED <<urlSet, row, delivery, inlineRec, relayVars, received>>

\* conn.commit(), the response, and background.add_task.  COMMIT of an aborted
\* transaction rolls back without an error; a COMMIT that raises may or may not
\* have taken effect.  decision_id is set in every case.
Commit(d) ==
    /\ handler[d] \in {"logged", "aborted"}
    /\ \/ /\ handler[d] = "logged"
          /\ row' = [row EXCEPT ![d] = FreshRow]
          /\ UNCHANGED faults
       \/ /\ handler[d] = "logged"
          /\ Fault
          /\ UNCHANGED row
       \/ /\ handler[d] = "aborted"
          /\ UNCHANGED <<row, faults>>
    /\ handler' = [handler EXCEPT ![d] = IF urlSet THEN "queued" ELSE "closed"]
    /\ UNCHANGED <<urlSet, delivery, inlineRec, relayVars, received>>

-----------------------------------------------------------------------------
(* The inline delivery, after the response (deliver_and_record).           *)

InlinePost(d) ==
    /\ handler[d] = "queued"
    /\ \E rec \in Delivered :
           /\ Deliver(d, rec)
           /\ inlineRec' = [inlineRec EXCEPT ![d] = rec]
    /\ handler' = [handler EXCEPT ![d] = "posted"]
    /\ UNCHANGED <<urlSet, row, delivery, relayVars, faults>>

\* Mutant: the inline task does not take the row lock.
InlineRecord_NoLock(d) ==
    /\ handler[d] = "posted"
    /\ IF row[d].status = "none"
       THEN UNCHANGED <<row, delivery>>
       ELSE ApplyOutcome(d, row[d].attempts, inlineRec[d])
    /\ handler' = [handler EXCEPT ![d] = "closed"]
    /\ inlineRec' = [inlineRec EXCEPT ![d] = "none"]
    /\ UNCHANGED <<urlSet, relayVars, received, faults>>

\* SELECT .. FOR UPDATE (waits for a relay that holds the row), apply_outcome,
\* commit.  The row's current status is not looked at.
InlineRecord(d) ==
    /\ handler[d] = "posted"
    /\ ~Locked(d)
    /\ IF row[d].status = "none"
       THEN UNCHANGED <<row, delivery>>
       ELSE ApplyOutcome(d, row[d].attempts, inlineRec[d])
    /\ handler' = [handler EXCEPT ![d] = "closed"]
    /\ inlineRec' = [inlineRec EXCEPT ![d] = "none"]
    /\ UNCHANGED <<urlSet, relayVars, received, faults>>

\* connect, SELECT, apply_outcome or commit raises: logged and forgotten.
InlineRecordFails(d) ==
    /\ handler[d] = "posted"
    /\ Fault
    /\ handler' = [handler EXCEPT ![d] = "closed"]
    /\ inlineRec' = [inlineRec EXCEPT ![d] = "none"]
    /\ UNCHANGED <<urlSet, row, delivery, relayVars, received>>

\* The API process dies: an open transaction rolls back, the background task
\* is lost.
ApiCrash(d) ==
    /\ handler[d] \in HandlerState \ {"idle", "closed"}
    /\ Fault
    /\ handler' = [handler EXCEPT ![d] = "closed"]
    /\ inlineRec' = [inlineRec EXCEPT ![d] = "none"]
    /\ UNCHANGED <<urlSet, row, delivery, relayVars, received>>

-----------------------------------------------------------------------------
(* Time and the relay.                                                     *)

\* The clock passes webhook_next_attempt_at.
BecomesDue(d) ==
    /\ row[d].status = "pending" /\ row[d].next = "later"
    /\ GraceCoversInline => handler[d] \notin {"queued", "posted"}
    /\ row' = [row EXCEPT ![d].next = "due"]
    /\ UNCHANGED <<urlSet, delivery, apiVars, relayVars, received, faults>>

\* The candidates of one sweep: at most Batch of the rows that are due.  Which
\* of them come first (ORDER BY next_attempt_at) is left open.
RelayList(r) ==
    /\ urlSet
    /\ holding[r] = NoDecision /\ todo[r] = {}
    /\ LET due == {d \in Decisions : Due(d)}
       IN  \E ids \in SUBSET due :
               /\ ids # {} /\ Cardinality(ids) <= Batch
               /\ ids = due \/ Cardinality(ids) = Batch
               /\ todo' = [todo EXCEPT ![r] = ids]
    /\ UNCHANGED <<urlSet, row, delivery, apiVars, holding, prevAttempts,
                   relayRec, received, faults>>

\* Mutant: the listed id is not re-checked once its row is locked.
RelayTake_NoRecheck(r, d) ==
    /\ holding[r] = NoDecision /\ d \in todo[r]
    /\ ~Locked(d)
    /\ todo' = [todo EXCEPT ![r] = @ \ {d}]
    /\ holding' = [holding EXCEPT ![r] = d]
    /\ prevAttempts' = [prevAttempts EXCEPT ![r] = row[d].attempts]
    /\ UNCHANGED <<urlSet, row, delivery, apiVars, relayRec, received, faults>>

\* The re-check under FOR UPDATE SKIP LOCKED finds the row.
RelayTake(r, d) ==
    /\ holding[r] = NoDecision /\ d \in todo[r]
    /\ Due(d) /\ ~Locked(d)
    /\ todo' = [todo EXCEPT ![r] = @ \ {d}]
    /\ holding' = [holding EXCEPT ![r] = d]
    /\ prevAttempts' = [prevAttempts EXCEPT ![r] = row[d].attempts]
    /\ UNCHANGED <<urlSet, row, delivery, apiVars, relayRec, received, faults>>

\* The re-check finds nothing: no longer due, or locked by another relay.
RelaySkip(r, d) ==
    /\ holding[r] = NoDecision /\ d \in todo[r]
    /\ ~Due(d) \/ Locked(d)
    /\ todo' = [todo EXCEPT ![r] = @ \ {d}]
    /\ UNCHANGED <<urlSet, row, delivery, apiVars, holding, prevAttempts,
                   relayRec, received, faults>>

\* The POST, made while the row lock is held.
RelayPost(r) ==
    /\ holding[r] # NoDecision /\ relayRec[r] = "none"
    /\ \E rec \in Delivered :
           /\ Deliver(holding[r], rec)
           /\ relayRec' = [relayRec EXCEPT ![r] = rec]
    /\ UNCHANGED <<urlSet, row, delivery, apiVars, todo, holding,
                   prevAttempts, faults>>

Release(r) ==
    /\ holding' = [holding EXCEPT ![r] = NoDecision]
    /\ prevAttempts' = [prevAttempts EXCEPT ![r] = 0]
    /\ relayRec' = [relayRec EXCEPT ![r] = "none"]

RelayCommit(r) ==
    /\ holding[r] # NoDecision /\ relayRec[r] # "none"
    /\ ApplyOutcome(holding[r], prevAttempts[r], relayRec[r])
    /\ Release(r)
    /\ UNCHANGED <<urlSet, apiVars, todo, received, faults>>

\* A statement or the commit raises: the row's transaction is rolled back and
\* the sweep goes on with the next id.
RelayRollback(r) ==
    /\ holding[r] # NoDecision
    /\ Fault
    /\ Release(r)
    /\ UNCHANGED <<urlSet, row, delivery, apiVars, todo, received>>

\* The relay process dies: its transaction rolls back, its sweep is forgotten.
RelayCrash(r) ==
    /\ holding[r] # NoDecision \/ todo[r] # {}
    /\ Fault
    /\ Release(r)
    /\ todo' = [todo EXCEPT ![r] = {}]
    /\ UNCHANGED <<urlSet, row, delivery, apiVars, received>>

-----------------------------------------------------------------------------
Init ==
    /\ urlSet \in BOOLEAN
    /\ row = [d \in Decisions |->
                 [status |-> "none", attempts |-> 0, next |-> "null"]]
    /\ delivery = [d \in Decisions |-> [s \in Delivered |-> 0]]
    /\ handler = [d \in Decisions |-> "idle"]
    /\ inlineRec = [d \in Decisions |-> "none"]
    /\ todo = [r \in Relays |-> {}]
    /\ holding = [r \in Relays |-> NoDecision]
    /\ prevAttempts = [r \in Relays |-> 0]
    /\ relayRec = [r \in Relays |-> "none"]
    /\ received = [d \in Decisions |-> 0]
    /\ faults = 0

ApiStep(d) ==
    \/ Insert(d) \/ PersistFails(d) \/ LogEvent(d) \/ Commit(d)
    \/ InlinePost(d) \/ InlineRecord(d) \/ InlineRecordFails(d) \/ ApiCrash(d)

RelayStep(r) ==
    \/ RelayList(r)
    \/ \E d \in Decisions : RelayTake(r, d) \/ RelaySkip(r, d)
    \/ RelayPost(r) \/ RelayCommit(r) \/ RelayRollback(r) \/ RelayCrash(r)

Next ==
    \/ \E d \in Decisions : ApiStep(d) \/ BecomesDue(d)
    \/ \E r \in Relays : RelayStep(r)

Spec == Init /\ [][Next]_vars

\* A background task that has started runs to its end (or the process dies),
\* the clock advances, and the relay loop keeps sweeping: run_forever catches
\* every error.  Nothing makes a client call /score.
Fairness ==
    /\ \A d \in Decisions : /\ WF_vars(BecomesDue(d))
                            /\ WF_vars(InlinePost(d) \/ InlineRecord(d))
    /\ \A r \in Relays : WF_vars(RelayStep(r))

FairSpec == Spec /\ Fairness
-----------------------------------------------------------------------------
(* What the outbox must keep.                                              *)

Attempted(d) == delivery[d]["sent"] + delivery[d]["failed"]

\* POSTs made whose outcome is not written down yet.
InFlight(d) ==
    (IF handler[d] = "posted" THEN 1 ELSE 0)
  + (IF \E r \in Relays : holding[r] = d /\ relayRec[r] # "none" THEN 1 ELSE 0)

\* webhook_attempts, which decides the backoff and the dead letter, is the
\* number of rows in the delivery log, whoever made the attempts and however
\* the inline task and the relays interleave: apply_outcome is always given
\* the count read under the row lock.
AttemptsAreLogged == \A d \in Decisions : row[d].attempts = Attempted(d)

\* While a relay is talking to the receiver, the row it holds stays as it was
\* read: still pending and due, with the attempt count it will write back, and
\* no other relay is posting the same decision.
HeldRowIsStable ==
    \A r \in Relays : holding[r] # NoDecision =>
        /\ Due(holding[r])
        /\ prevAttempts[r] = row[holding[r]].attempts
        /\ \A s \in Relays \ {r} : holding[s] # holding[r]

\* The receiver never sees more POSTs of a decision than the log accounts for,
\* but for those in flight and at most one per fault: what duplicates a
\* delivery, or loses its record, is a crash or a failed commit.
PostsAreAccounted ==
    \A d \in Decisions : received[d] <= Attempted(d) + InFlight(d) + faults

\* A decision is 'sent' only if the receiver got it, and 'dead' only after the
\* whole retry budget, whichever of the inline task and the relay wrote last; a
\* late inline record can add one attempt to the budget, no more.
TerminalIsEarned ==
    \A d \in Decisions :
        /\ row[d].status = "sent" => received[d] > 0
        /\ row[d].status = "dead" => row[d].attempts >= MaxAttempts
        /\ row[d].attempts <= MaxAttempts + (IF GraceCoversInline THEN 0 ELSE 1)

\* A decision the receiver acknowledged, in a committed attempt, is not posted
\* again by a relay, is not dead-lettered, and has one acknowledgement.
AckedIsFinal ==
    \A d \in Decisions : delivery[d]["sent"] > 0 =>
        /\ delivery[d]["sent"] = 1
        /\ row[d].status = "sent"
        /\ ~Locked(d)

\* The lifecycle schema_pg.sql documents, pending -> sent | dead: a row in a
\* terminal state is never written again.
LifecycleForward ==
    [][\A d \in Decisions :
          row[d].status \in {"disabled", "sent", "dead"} => row'[d] = row[d]]_row

\* At-least-once delivery: the decisions that were committed with their outbox
\* marker end as sent or dead, through crashes of either process, and although
\* late inline records reopen rows the outbox drains for good.
OutboxDrains == <>[](\A d \in Decisions : row[d].status # "pending")
=============================================================================
