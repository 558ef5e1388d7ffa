---------------------------- MODULE AtLeastOnce -----------------------------
(***************************************************************************)
(* What chimney-post promises of an email, without a word about how: once  *)
(* it is stored it is kept until it is in the room or has been given up,   *)
(* and what was given up stays on record.  Nothing forbids a second post.  *)
(***************************************************************************)
CONSTANT Messages

VARIABLES
  stored,    \* the messages ever accepted into the queue
  acked,     \* the messages whose sender was told 250
  pending,   \* the messages still to be delivered
  posted,    \* the messages in the room
  dead       \* the messages given up

avars == <<stored, acked, pending, posted, dead>>

Init == stored = {} /\ acked = {} /\ pending = {} /\ posted = {} /\ dead = {}

Store(m) ==
  /\ m \notin stored
  /\ stored' = stored \cup {m} /\ pending' = pending \cup {m}
  /\ UNCHANGED <<acked, posted, dead>>

Ack(m) ==
  /\ m \in stored
  /\ acked' = acked \cup {m}
  /\ UNCHANGED <<stored, pending, posted, dead>>

\* A post may come late: a request can outlive the worker's patience.
Post(m) ==
  /\ m \in stored
  /\ posted' = posted \cup {m}
  /\ UNCHANGED <<stored, acked, pending, dead>>

Settle(m) ==
  /\ m \in pending /\ m \in posted
  /\ pending' = pending \ {m}
  /\ UNCHANGED <<stored, acked, posted, dead>>

GiveUp(m) ==
  /\ m \in pending
  /\ pending' = pending \ {m} /\ dead' = dead \cup {m}
  /\ UNCHANGED <<stored, acked, posted>>

Next == \E m \in Messages : Store(m) \/ Ack(m) \/ Post(m) \/ Settle(m) \/ GiveUp(m)

Spec == Init /\ [][Next]_avars
=============================================================================
