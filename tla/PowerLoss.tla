----------------------------- MODULE PowerLoss ------------------------------
(***************************************************************************)
(* Delivery on a machine that can lose power.  The schema sets             *)
(* journal_mode=WAL and synchronous=NORMAL: a commit reaches the operating *)
(* system, and is flushed to the disk only by a checkpoint or by the       *)
(* system's own writeback.  A process crash keeps every commit, a power    *)
(* loss keeps those of the last flush.                                     *)
(***************************************************************************)
EXTENDS Delivery

VARIABLE
  flushed    \* the database as it stands on the disk

PInit == Init /\ flushed = db

\* A checkpoint, or the system's writeback.
Flush ==
  /\ flushed # db
  /\ flushed' = db
  /\ UNCHANGED vars

PowerFails ==
  /\ starts < MaxStarts
  /\ Down("crashed", flushed)
  /\ UNCHANGED flushed

PNext == (Next /\ UNCHANGED flushed) \/ Flush \/ PowerFails

PSpec == PInit /\ [][PNext]_<<vars, flushed>>

\* Once its row has reached the disk, a message is in the outbox, in
\* dead_letter or in the room, whatever a power loss takes back afterwards:
\* removals (the message is sent again), retry counts, other messages' rows
\* and the AUTOINCREMENT counter, whose ids are then given out again
\* (SCHEMA, deliver_one).
FlushedNeverLost ==
  \A r \in flushed.outbox : InOutbox(r.msg) \/ InDead(r.msg) \/ Posted(r.msg)

\* "The returned future only resolves once the row is committed to disk, so
\* callers may acknowledge to the sender afterwards" (enqueue): a message that
\* was answered with 250 survives.
AckedNeverLost ==
  \A m \in Messages : sub[m] = "acked" => InOutbox(m) \/ InDead(m) \/ Posted(m)
=============================================================================
