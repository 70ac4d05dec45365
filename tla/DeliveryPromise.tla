-------------------------- MODULE DeliveryPromise --------------------------
(***************************************************************************)
(* What the webhook outbox promises the consumer of decisions, with no     *)
(* processes, attempts, locks or clocks: a decision that is owed is, in    *)
(* the end, delivered or openly abandoned; it is called delivered only     *)
(* once the consumer has it; and nothing that is settled is reopened.      *)
(***************************************************************************)
CONSTANT Decisions

VARIABLES phase,   \* what the service owes for each decision
          has      \* the consumer has received the decision

Init ==
    /\ phase = [d \in Decisions |-> "unknown"]
    /\ has = [d \in Decisions |-> FALSE]

\* The decision is stored: owed to the consumer, or to nobody.
Accept(d) ==
    /\ phase[d] = "unknown" /\ ~has[d]
    /\ \E p \in {"owed", "unowed"} : phase' = [phase EXCEPT ![d] = p]
    /\ UNCHANGED has

\* A POST arrives.  It may be of a decision whose store was lost, but never of
\* one that is already settled or owed to nobody.
Arrive(d) ==
    /\ phase[d] \in {"unknown", "owed"} /\ ~has[d]
    /\ has' = [has EXCEPT ![d] = TRUE]
    /\ UNCHANGED phase

Settle(d) ==
    /\ phase[d] = "owed"
    /\ \/ has[d] /\ phase' = [phase EXCEPT ![d] = "delivered"]
       \/ phase' = [phase EXCEPT ![d] = "abandoned"]
    /\ UNCHANGED has

Next == \E d \in Decisions : Accept(d) \/ Arrive(d) \/ Settle(d)

Spec == Init /\ [][Next]_<<phase, has>>

FairSpec == Spec /\ \A d \in Decisions : WF_<<phase, has>>(Settle(d))
=============================================================================
