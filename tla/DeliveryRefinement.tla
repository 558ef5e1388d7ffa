------------------------- MODULE DeliveryRefinement -------------------------
(***************************************************************************)
(* Delivery implements AtLeastOnce: the queue, the worker, the crashes and *)
(* the retries are invisible behind the five sets of the abstract promise. *)
(***************************************************************************)
EXTENDS Delivery

StoredMessages == {m \in Messages : sub[m] \in Stored}
AckedMessages == {m \in Messages : sub[m] = "acked"}
PendingMessages == {m \in Messages : InOutbox(m)}
PostedMessages == {m \in Messages : Posted(m)}
DeadMessages == {m \in Messages : InDead(m)}

Promise == INSTANCE AtLeastOnce WITH
  stored <- StoredMessages, acked <- AckedMessages, pending <- PendingMessages,
  posted <- PostedMessages, dead <- DeadMessages

\* Every step of the code is a step of the promise or changes nothing it can
\* see: an acknowledged message is settled only by a post or a dead letter.
KeepsPromise == Promise!Spec
=============================================================================
