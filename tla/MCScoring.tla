------------------------------ MODULE MCScoring ------------------------------
\* The state of POST /score on a small instance, and the functions it calls.
EXTENDS Scoring, Decision, PlusCode, Geo

\* A is retried without a timestamp of its own, so that it has two dates; C's
\* is so old that B's prunes it.
MCTimesOf == [x \in Txns |-> CASE x = "A" -> {2, 3} [] x = "B" -> {4}]
MCBefore  == {[id |-> "C", at |-> 1]}
MCPointOf == [x \in Txns |-> CASE x = "A" -> "lagos" [] x = "B" -> "kano"]

MCWeight == [d \in Detectors |-> CASE d = "isoforest" -> 7 [] d = "autoencoder" -> 7 [] d = "gnn" -> 6]
MCCuts   == [review |-> 2, unsafe |-> 3, high |-> 4]

\* Up to two flags, and counts up to the burst threshold.
Samples == Features({F \in SUBSET (Flags \cup FanOut) : Cardinality(F) <= 2}, 4)

Axes == {[blocks |-> 2, grid |-> 3, circular |-> FALSE],
         [blocks |-> 3, grid |-> 2, circular |-> TRUE]}

\* The functions are called before any request comes in: they do not depend on one.
AnyCall ==
    \/ Calls("blend", Scores) \/ Calls("explain", Samples) \/ Calls("resolve", Payloads)
    \/ \E ax \in Axes : Calls("recover", [axis: {ax}, place: Places(ax)])

MCInit == Init /\ call = NoCall
MCNext ==
    \/ Idle /\ Next /\ UNCHANGED call
    \/ Idle /\ Init /\ AnyCall /\ UNCHANGED vars
    \/ Return /\ UNCHANGED vars

MCSpec == MCInit /\ [][MCNext]_<<vars, call>> /\ Fairness
=============================================================================
