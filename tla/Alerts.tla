-------------------------------- MODULE Alerts -------------------------------
(***************************************************************************)
(* The watch the scheduler keeps after every pull (sync_manager.py): is a  *)
(* retrain due (ml/retrain_trigger.py), is the live model healthy          *)
(* (ml/monitor.py), and one Slack message per change of state.  Analysts   *)
(* give their verdicts meanwhile (service.feedback).                       *)
(*                                                                         *)
(* The scheduler is one process and the only one that calls _alert_once.   *)
(* A signature is a set of problems, each with the number its text shows,  *)
(* a percentage or a count; the empty set is healthy and not due.  The age *)
(* of the model and the drift of its amounts are left out of the triggers. *)
(***************************************************************************)
EXTENDS Integers, Sequences, FiniteSets

CONSTANTS
    Txns,
    MinSample, MinLabels,       \* config.LIVE_MIN_SAMPLE, LIVE_MIN_LABELS
    FlagMin, FlagMax, Floor,    \* percentages: the band, MIN_ACCEPTABLE_PRECISION
    MinNew,                     \* config.RETRAIN_MIN_NEW_TXNS
    MaxLog, MaxNew, MaxFaults   \* bounds of the model

ASSUME AlertsAssumption ==
    /\ MinSample \in Nat \ {0} /\ MinLabels \in Nat \ {0} /\ MinNew \in Nat \ {0}
    /\ FlagMin \in Nat /\ FlagMax \in Nat /\ Floor \in Nat
    /\ MaxLog \in Nat /\ MaxNew \in Nat /\ MaxFaults \in Nat

VARIABLES
    log,         \* bp_decision, in the order of scored_at
    gone,        \* how many of them have left the window of LIVE_WINDOW_HOURS
    verdict,     \* bp_decision_feedback
    old,         \* the verdicts whose created_at has left the precision window
    fresh,       \* cached transactions newer than the active model's data
    saved,       \* bp_alert_state: the signature of each alert
    run,         \* the scheduler
    faults,
    told,        \* ghost: what Slack got since the signature last changed
    lost         \* ghost: a message failed, or died with the scheduler, since

world == <<log, gone, verdict, old, fresh>>
vars  == <<world, saved, run, faults, told, lost>>

-----------------------------------------------------------------------------
Keys == {"retrain_due", "live_drift"}

Problem == {"over-flagging", "under-flagging", "precision", "new-transactions"} \X Nat

Run == [pc: {"pull", "check", "precision", "save", "post"}, key: Keys, sig: SUBSET Problem]

TypeOK ==
    /\ log \in Seq([txn: Txns, flagged: BOOLEAN]) /\ gone \in 0..Len(log)
    /\ verdict \in [Txns -> {"none", "genuine", "fraud"}] /\ old \subseteq Txns
    /\ fresh \in 0..MaxNew /\ faults \in 0..MaxFaults
    /\ run \in Run
    /\ saved \in [Keys -> SUBSET Problem] /\ told \in [Keys -> SUBSET SUBSET Problem]
    /\ lost \subseteq Keys

-----------------------------------------------------------------------------
(* ml/retrain_trigger.evaluate and ml/monitor.check_live                   *)

Due == IF fresh >= MinNew THEN {<<"new-transactions", fresh>>} ELSE {}

Percent(n, d) == (100 * n) \div d

\* The flagged rate of the decisions in the window.
RateProblems ==
    LET window == (gone + 1)..Len(log)
        total  == Cardinality(window)
        flags  == Cardinality({i \in window : log[i].flagged})
    IN  IF total < MinSample THEN {}
        ELSE (IF 100 * flags > FlagMax * total
              THEN {<<"over-flagging", Percent(flags, total)>>} ELSE {})
             \cup (IF 100 * flags < FlagMin * total
                   THEN {<<"under-flagging", Percent(flags, total)>>} ELSE {})

Decided == {log[i].txn : i \in 1..Len(log)}
LatestFlagged(x) ==
    \E i \in 1..Len(log) : /\ log[i].txn = x /\ log[i].flagged
                           /\ \A j \in (i + 1)..Len(log) : log[j].txn # x

\* live_precision: each transaction's latest decision, of all there are, against
\* its verdict.
PrecisionProblems ==
    LET labelled == {x \in Txns \ old : verdict[x] # "none" /\ x \in Decided}
        flagged  == {x \in labelled : LatestFlagged(x)}
        right    == {x \in flagged : verdict[x] = "fraud"}
    IN  IF /\ Cardinality(labelled) >= MinLabels /\ flagged # {}
           /\ 100 * Cardinality(right) < Floor * Cardinality(flagged)
        THEN {<<"precision", Percent(Cardinality(right), Cardinality(flagged))>>}
        ELSE {}

-----------------------------------------------------------------------------
(* The scheduler                                                           *)

Fault == faults < MaxFaults /\ faults' = faults + 1
Fine  == UNCHANGED faults

At(pc, key, sig) == run' = [pc |-> pc, key |-> key, sig |-> sig]

\* After an alert: the next check, or the next pull.
Onward == IF run.key = "retrain_due" THEN At("check", "live_drift", {})
          ELSE At("pull", "retrain_due", {})

\* _run_one_sync: the pull, and the checks unless it raises.
Pull ==
    /\ run.pc = "pull"
    /\ \/ /\ Fine /\ At("check", "retrain_due", {})
          /\ fresh' \in fresh..MaxNew
       \/ /\ Fault /\ UNCHANGED <<run, fresh>>
    /\ UNCHANGED <<log, gone, verdict, old, saved, told, lost>>

\* _check_retrain_due: a trigger that cannot be evaluated changes nothing.
CheckDue ==
    /\ run.pc = "check" /\ run.key = "retrain_due"
    /\ \/ Fine /\ At("save", run.key, Due)
       \/ Fault /\ Onward
    /\ UNCHANGED <<world, saved, told, lost>>

\* check_live: the decisions, and in a query of its own the verdicts.  Decisions
\* that cannot be read are an error and no problem; _check_live_drift takes that
\* for healthy.
CheckRate ==
    /\ run.pc = "check" /\ run.key = "live_drift"
    /\ \/ Fine /\ At("precision", run.key, RateProblems)
       \/ Fault /\ At("save", run.key, {})
    /\ UNCHANGED <<world, saved, told, lost>>

\* Verdicts that cannot be read are left out; live_health.json that cannot be
\* written ends the check.
CheckPrecision ==
    /\ run.pc = "precision"
    /\ \/ Fine /\ At("save", run.key, run.sig \cup PrecisionProblems)
       \/ Fault /\ At("save", run.key, run.sig)
       \/ Fault /\ Onward
    /\ UNCHANGED <<world, saved, told, lost>>

\* Mutant: a problem that changes is the same problem.
Known_Unhealthy(key, sig) == saved[key] = sig \/ (saved[key] # {} /\ sig # {})

\* _alert_once: the row of the alert has this signature already.
Known(key, sig) == saved[key] = sig

\* Mutant: without the commit.
Commit_Missing == UNCHANGED saved

Commit == saved' = [saved EXCEPT ![run.key] = run.sig]

\* A cleared state is saved without a text.
Spoken(key, sig) == sig # {}

\* _alert_once: save and commit; a failure is logged and forgotten.
Save ==
    /\ run.pc = "save"
    /\ \/ /\ Known(run.key, run.sig) /\ Fine /\ Onward
          /\ UNCHANGED <<saved, told, lost>>
       \/ /\ ~Known(run.key, run.sig) /\ Fine /\ Commit
          /\ IF Spoken(run.key, run.sig) THEN At("post", run.key, run.sig) ELSE Onward
          /\ told' = IF saved' = saved THEN told ELSE [told EXCEPT ![run.key] = {}]
          /\ lost' = IF saved' = saved THEN lost ELSE lost \ {run.key}
       \/ /\ Fault /\ Onward
          /\ UNCHANGED <<saved, told, lost>>
    /\ UNCHANGED world

\* _post_slack, after the commit.
Post ==
    /\ run.pc = "post"
    /\ \/ Fine /\ told' = [told EXCEPT ![run.key] = @ \cup {run.sig}] /\ UNCHANGED lost
       \/ Fault /\ lost' = lost \cup {run.key} /\ UNCHANGED told
    /\ Onward
    /\ UNCHANGED <<world, saved>>

\* The container restarts.
Die ==
    /\ run.pc # "pull" /\ Fault /\ At("pull", "retrain_due", {})
    /\ lost' = IF run.pc = "post" THEN lost \cup {run.key} ELSE lost
    /\ UNCHANGED <<world, saved, told>>

-----------------------------------------------------------------------------
(* What it watches                                                         *)

Decide(x, flagged) ==
    /\ Len(log) < MaxLog
    /\ log' = Append(log, [txn |-> x, flagged |-> flagged])
    /\ UNCHANGED <<gone, verdict, old, fresh>>

\* POST /feedback: the latest verdict wins; created_at stays the first one's.
Feedback(x, v) ==
    /\ verdict' = [verdict EXCEPT ![x] = v]
    /\ UNCHANGED <<log, gone, old, fresh>>

TimePasses ==
    \/ gone < Len(log) /\ gone' = gone + 1 /\ UNCHANGED <<log, verdict, old, fresh>>
    \/ \E x \in Txns \ old : /\ verdict[x] # "none" /\ old' = old \cup {x}
                             /\ UNCHANGED <<log, gone, verdict, fresh>>

\* A model trained on everything becomes the active one.
Promoted == fresh # 0 /\ fresh' = 0 /\ UNCHANGED <<log, gone, verdict, old>>

World ==
    /\ \/ \E x \in Txns : \/ \E flagged \in BOOLEAN : Decide(x, flagged)
                          \/ \E v \in {"genuine", "fraud"} : Feedback(x, v)
       \/ TimePasses \/ Promoted
    /\ UNCHANGED <<saved, run, faults, told, lost>>

Init ==
    /\ log = <<>> /\ gone = 0 /\ fresh = 0
    /\ verdict = [x \in Txns |-> "none"] /\ old = {}
    /\ saved = [k \in Keys |-> {}] /\ told = [k \in Keys |-> {}] /\ lost = {}
    /\ run = [pc |-> "pull", key |-> "retrain_due", sig |-> {}] /\ faults = 0

Scheduler == Pull \/ CheckDue \/ CheckRate \/ CheckPrecision \/ Save \/ Post

Next == Scheduler \/ Die \/ World

Spec == Init /\ [][Next]_vars

\* run_forever goes on with the next pull whatever happened.
Fairness == WF_vars(Scheduler)

FairSpec == Spec /\ Fairness

-----------------------------------------------------------------------------
(* Properties                                                              *)

\* A state is announced once (sync_manager.py:583-585): what Slack got is not
\* posted to it again before another state of that alert was saved; and a check
\* that finds a problem and stays quiet, without a fault of its own, has told
\* Slack of this very state before, or lost that message, which is posted after
\* the commit and never again (599-601).
AnnouncedOnce ==
    [][run' # run /\ faults' = faults =>
          /\ run.pc = "post" => run.sig \notin told[run.key]
          /\ run.pc = "save" /\ run'.pc # "post" /\ run.sig # {} =>
                 run.sig \in told[run.key] \/ run.key \in lost]_vars

\* Once the decisions, the verdicts and the data stay as they are, the saved
\* signatures come to say what they say, so that a condition that ends is
\* cleared and announced again when it returns.
Current(key) == IF key = "retrain_due" THEN Due ELSE RateProblems \cup PrecisionProblems
AlertsSettle ==
    \A key \in Keys : <>[][FALSE]_world => <>[](saved[key] = Current(key))
=============================================================================
