------------------------------ MODULE ErrorRelay -----------------------------
(***************************************************************************)
(* The forwarding of errors to Slack (audit.py: _SlackErrorHandler and     *)
(* _slack_worker): a throttle by message, that forgets everything when it  *)
(* grows too large, and a bounded queue that a daemon thread drains.  The  *)
(* handler's lock makes emit one step.                                     *)
(***************************************************************************)
EXTENDS Integers, Sequences, FiniteSets

CONSTANTS
    Messages,       \* the signatures of log records
    Cooldown,       \* _SLACK_COOLDOWN
    QueueSize,      \* of _SLACK_Q: 200
    MapSize,        \* how many signatures are remembered before all are forgotten: 1000
    MaxErrors, MaxClock     \* bounds of the model

ASSUME RelayAssumption ==
    Cooldown \in Nat /\ QueueSize \in Nat /\ MapSize \in Nat

VARIABLES
    clock,
    seen,           \* _SLACK_LAST
    queue,          \* _SLACK_Q
    fates           \* ghost: what became of each error since the start

relayVars == <<clock, seen, queue, fates>>

-----------------------------------------------------------------------------
\* forgot: the throttle was emptied for this error.
Report == [msg: Messages, at: Nat, fate: {"throttled", "queued", "dropped"}, forgot: BOOLEAN]

RelayTypeOK ==
    /\ clock \in Nat /\ fates \in Seq(Report)
    /\ seen \subseteq [msg: Messages, at: Nat] /\ queue \in Seq(Messages)

Throttled(msg) == \E e \in seen : e.msg = msg /\ clock - e.at < Cooldown

Crowded == Cardinality(seen) > MapSize

\* Mutant: a repeated message starts the cooldown again.
Remember_Always(msg) == seen' = {e \in seen : e.msg # msg} \cup {[msg |-> msg, at |-> clock]}

\* Before it is known whether the message can be queued.
Remember(msg) ==
    IF Throttled(msg) THEN UNCHANGED seen
    ELSE seen' = {e \in seen : e.msg # msg /\ ~Crowded} \cup {[msg |-> msg, at |-> clock]}

\* put_nowait: what a full queue cannot take is dropped.
Fate(msg) ==
    CASE Throttled(msg) -> "throttled"
      [] ~Throttled(msg) /\ Len(queue) >= QueueSize -> "dropped"
      [] ~Throttled(msg) /\ Len(queue) < QueueSize -> "queued"

Emit(msg) ==
    /\ Len(fates) < MaxErrors
    /\ Remember(msg)
    /\ queue' = IF Fate(msg) = "queued" THEN Append(queue, msg) ELSE queue
    /\ fates' = Append(fates, [msg |-> msg, at |-> clock, fate |-> Fate(msg),
                               forgot |-> ~Throttled(msg) /\ Crowded])
    /\ UNCHANGED clock

\* _slack_worker takes a message, whatever becomes of the post.
Take == queue # <<>> /\ queue' = Tail(queue) /\ UNCHANGED <<clock, seen, fates>>

Tick == clock < MaxClock /\ clock' = clock + 1 /\ UNCHANGED <<seen, queue, fates>>

RelayInit == clock = 0 /\ seen = {} /\ queue = <<>> /\ fates = <<>>

\* The process restarts: nothing of this is stored.
Restart == fates # <<>> /\ clock' = 0 /\ seen' = {} /\ queue' = <<>> /\ fates' = <<>>

RelayNext == (\E msg \in Messages : Emit(msg)) \/ Take \/ Tick \/ Restart

RelaySpec == RelayInit /\ [][RelayNext]_relayVars

-----------------------------------------------------------------------------
(* Properties                                                              *)

Accepted(i) == fates[i].fate \in {"queued", "dropped"}

\* The errors before the j-th that were accepted and not forgotten since.
Window(j) == {i \in 1..(j - 1) : /\ Accepted(i)
                                 /\ \A k \in (i + 1)..(j - 1) : ~fates[k].forgot}

\* A message is throttled exactly when it was accepted, queued or dropped, less
\* than a cooldown ago: an error that goes on is forwarded again and again, and one
\* that is dropped is silent for a cooldown and no longer.  All are forgotten only
\* when more than MapSize different ones came since the last time, and neither the
\* throttle nor the queue grows without bound (audit.py:47, 52, 94).
ErrorsKeepComing ==
    /\ \A j \in DOMAIN fates :
         LET recent == {i \in Window(j) : /\ fates[i].msg = fates[j].msg
                                          /\ fates[j].at - fates[i].at < Cooldown}
         IN  /\ ~Accepted(j) <=> recent # {}
             /\ fates[j].forgot =>
                  Cardinality({fates[i].msg : i \in Window(j)}) > MapSize
    /\ Cardinality(seen) <= MapSize + 1 /\ Len(queue) <= QueueSize
=============================================================================
