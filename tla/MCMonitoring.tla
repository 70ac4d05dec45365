----------------------------- MODULE MCMonitoring ----------------------------
\* The alerts on a small instance, what training learns from, and the forwarding
\* of errors.
EXTENDS Alerts, Training, ErrorRelay

\* Rows of the window that validate accepts.
Samples == UNION {[1..n -> {r \in CacheRow : r.sane /\ r.day >= 0}] : n \in 1..MaxRows}

\* The relay is of the scoring service and the alerts are the scheduler's: neither
\* reads the other, and one of them rests at its start while the other runs.  The
\* functions are called before the first step.
MCInit == Init /\ RelayInit /\ call = NoCall
MCNext ==
    \/ Idle /\ RelayInit /\ Next /\ UNCHANGED <<call, relayVars>>
    \/ Idle /\ Init /\ RelayNext /\ UNCHANGED <<call, vars>>
    \/ Idle /\ Init /\ RelayInit /\ Calls("clean", Samples) /\ UNCHANGED <<vars, relayVars>>
    \/ Return /\ UNCHANGED <<vars, relayVars>>

MCSpec == MCInit /\ [][MCNext]_<<vars, relayVars, call>> /\ Fairness
=============================================================================
