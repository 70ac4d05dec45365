-------------------------- MODULE OutboxRefinement -------------------------
(***************************************************************************)
(* The outbox as an implementation of DeliveryPromise: webhook_status is   *)
(* the phase, and a decision the receiver has been POSTed at least once is *)
(* one the consumer has.  It holds while inline deliveries end within the  *)
(* grace period; past it the inline task reopens settled rows.             *)
(***************************************************************************)
EXTENDS WebhookOutbox

PhaseOf(status) ==
    CASE status = "none"     -> "unknown"
      [] status = "disabled" -> "unowed"
      [] status = "pending"  -> "owed"
      [] status = "sent"     -> "delivered"
      [] status = "dead"     -> "abandoned"

Promise == INSTANCE DeliveryPromise
               WITH phase <- [d \in Decisions |-> PhaseOf(row[d].status)],
                    has   <- [d \in Decisions |-> received[d] > 0]

\* Every step of the handler, the inline task and the relays is a step of the
\* promise or invisible to the consumer (safety), ...
KeepsPromise == Promise!Spec

\* ... and with the relay sweeping, the promise is eventually met.
MeetsPromise == Promise!FairSpec
=============================================================================
