----------------------------- MODULE MCDelivery -----------------------------
(* Delivery for TLC: values of its constants and the symmetry set. *)
EXTENDS DeliveryRefinement, TLC

LOCAL Waits == INSTANCE Backoff WITH Width <- 8

\* retry_backoff = 2 and a cap of 3: waits of 2, 3, 3, ... ticks.
MCDelay == [n \in 1 .. MaxRetries |-> Waits!BackoffSeconds(2, n, 3)]

MessageSymmetry == Permutations(Messages)
=============================================================================
