------------------------- MODULE MCContextDelivery -------------------------
(* Small instances of ContextDelivery for TLC. *)
EXTENDS ContextDelivery, TLC

CONSTANTS s1, d1, d2

\* Every delivery belongs to one session.
MCOneSession == [d \in Deliveries |-> s1]

\* Bound: replacements fail, and the management CLI runs a Forget, while there is one context; once a
\* second one follows, no replacement has failed and the Forget runs in the Host.
MCBound ==
  \/ \E d \in Deliveries : delivery[d].status = "none"
  \/ /\ forgetting # "cli"
     /\ \A d \in Deliveries :
          retirements[d] \in {<<>>, <<"pending">>, <<"replaced_on_surface">>} /\ target[d].state # "failed"

DeliverySymmetry == Permutations(Deliveries)
=============================================================================
