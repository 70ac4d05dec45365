---------------------------- MODULE MCBatchBuild ----------------------------
(* An instance of the batch build for TLC. *)
EXTENDS BatchBuild

CONSTANTS a1, a2, ngn, usd

\* Two accounts, one of them with both currencies.
MCAcct == <<a2, a1, a1>>
MCCcy  == <<ngn, ngn, usd>>

\* The properties are about a run and what precedes it: after the last run there
\* is nothing left to see.  Of a retrain, an interruption and a change of
\* production or the calendar, a behaviour has any two.
Bounded ==
    /\ build.pc # "idle" \/ \E r \in 1..MaxRuns : runs[r] = "none"
    /\ retrains + faults + changes <= 2
=============================================================================
