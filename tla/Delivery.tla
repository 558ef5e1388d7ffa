------------------------------ MODULE Delivery ------------------------------
(***************************************************************************)
(* The path of an email from the SMTP session that received it to the      *)
(* Matrix room: MessageStore::enqueue (queue/store.rs), the delivery       *)
(* worker (queue/worker.rs), and the process that runs them (main.rs),     *)
(* which may be told to stop, or crash, between any two steps.             *)
(*                                                                         *)
(* Each step below is what happens between two awaits: one closure under   *)
(* the connection lock, one request, one branch of a select.               *)
(***************************************************************************)
EXTENDS Outbox, Integers

CONSTANTS
  NoRow,               \* held when the worker has claimed nothing
  MaxRetries,          \* queue.max_retries
  Delay,               \* backoff_seconds(retry_backoff, n, cap) for each n
  IdleSleep,           \* IDLE_SLEEP
  StorageErrorBackoff, \* STORAGE_ERROR_BACKOFF
  ReconnectBackoff,    \* RECONNECT_BACKOFF_SECONDS
  FreshSession,        \* TRUE: password login, every start is a new Matrix
                       \* session; FALSE: a configured access token
  MaxStarts,           \* bound: how often the process may be started
  MaxFaults,           \* bound: storage and connect failures
  ClockBound           \* bound: the clock runs freely up to here; beyond, only
                       \* to the end of a sleep that a stored row or a stop
                       \* request depends on

ASSUME NoRowAssumption == NoRow \notin Rows
ASSUME RetryAssumption ==
  /\ MaxRetries \in Nat
  /\ Delay \in [1 .. MaxRetries -> Nat]
ASSUME WaitAssumption ==
  {IdleSleep, StorageErrorBackoff, ReconnectBackoff} \subseteq Nat
ASSUME BoundAssumption ==
  /\ {MaxStarts, MaxFaults, ClockBound} \subseteq Nat
  /\ FreshSession \in BOOLEAN

VARIABLES
  db,        \* the database as the process sees it (committed rows)
  permit,    \* the permit stored in the Notify of the store
  sub,       \* for each message: how far its SMTP transaction has come
  pc,        \* where the worker task is
  held,      \* the row the worker claimed
  sampled,   \* the worker's local `now`
  wake,      \* when the worker's current sleep ends
  proc,      \* the process: up, crashed, or halted after a stop request
  shutdown,  \* the value of the shutdown watch channel
  seen,      \* the worker's receiver has consumed the change of that value
  starts,    \* how often the process was started
  inflight,  \* requests on their way to the homeserver
  events,    \* events in the room: what the homeserver accepted
  now,       \* the clock
  faults,    \* failures injected so far
  fails      \* history: failed deliveries of each message

dbVars == <<db, permit>>
workerVars == <<pc, held, sampled, wake>>
procVars == <<proc, shutdown, seen, starts>>
netVars == <<inflight, events>>
vars == <<db, permit, sub, pc, held, sampled, wake, proc, shutdown, seen, starts,
          inflight, events, now, faults, fails>>

-----------------------------------------------------------------------------
(***************************************************************************)
(* The stations of one DATA transaction (smtp/server.rs, enqueue).         *)
(***************************************************************************)
\* The insert has not been decided, or was refused: nothing is stored.
Unstored == {"new", "queued", "detached", "refused", "rejected", "closed"}
\* The row was committed.
Stored == {"committed", "silent", "notified", "acked", "unacked"}

PcValues == {"off", "top", "connecting", "backoff", "claim", "errwait", "empty",
             "parked", "sending", "awaiting", "delivered", "failed", "stopped"}
Waiting == {"backoff", "errwait", "parked"}
Delivering == {"sending", "awaiting", "delivered", "failed"}

\* The Matrix session whose transaction ids the homeserver remembers. With an
\* access token connect restores one and the same session at every start; with
\* a password each start logs in anew.
Session == IF FreshSession THEN starts ELSE 1

\* The idempotency key "chimney-post-{id}".
\* A plausible defect: a key that changes with every attempt.
KeyPerAttempt(r) == (MaxRetries + 2) * r.id + r.attempts

Key(r) == r.id

Request(r) == [session |-> Session, key |-> Key(r), msg |-> r.msg]

Requests == [session : Nat, key : Nat, msg : Messages]

\* A saturating count, so that the history stays finite.
CountFailure(m) == [fails EXCEPT ![m] = IF @ > MaxRetries + 1 THEN @ ELSE @ + 1]

\* The locals of a loop iteration go out of scope with it.
NextIteration == sampled' = 0 /\ wake' = 0

Fault == faults < MaxFaults /\ faults' = faults + 1

-----------------------------------------------------------------------------
Init ==
  /\ db = EmptyDb
  /\ permit = FALSE
  /\ sub = [m \in Messages |-> "new"]
  /\ pc = "top" /\ held = NoRow /\ sampled = 0 /\ wake = 0
  /\ proc = "up" /\ shutdown = FALSE /\ seen = FALSE /\ starts = 1
  /\ inflight = {} /\ events = {}
  /\ now = 1 /\ faults = 0
  /\ fails = [m \in Messages |-> 0]

-----------------------------------------------------------------------------
(***************************************************************************)
(* SMTP sessions.  A session that has read a whole message calls enqueue,  *)
(* whose insert runs on a blocking thread; the session answers once the    *)
(* insert has returned.  The session future may be dropped at any await    *)
(* (the session deadline, a broken connection): an insert handed to the    *)
(* blocking pool runs to its end all the same.                             *)
(***************************************************************************)
Submit(m) ==
  /\ proc = "up" /\ sub[m] = "new"
  /\ sub' = [sub EXCEPT ![m] = "queued"]
  /\ UNCHANGED <<dbVars, workerVars, procVars, netVars, fails, now, faults>>

RunInsert(m) ==
  /\ proc = "up" /\ sub[m] \in {"queued", "detached"}
  /\ ~Full(db)
  /\ db' = Insert(db, m)
  /\ sub' = [sub EXCEPT ![m] = IF @ = "queued" THEN "committed" ELSE "silent"]
  /\ UNCHANGED <<permit, workerVars, procVars, netVars, fails, now, faults>>

\* QueueFull, or a storage error: enqueue returns Err, nothing was inserted.
InsertFails(m) ==
  /\ proc = "up" /\ sub[m] \in {"queued", "detached"}
  /\ \/ Full(db) /\ UNCHANGED faults
     \/ Fault
  /\ sub' = [sub EXCEPT ![m] = IF @ = "queued" THEN "refused" ELSE "closed"]
  /\ UNCHANGED <<dbVars, workerVars, procVars, netVars, fails, now>>

\* A plausible defect: notify_waiters, which wakes a waiting worker only and
\* leaves no permit behind for one that is about to wait.
NotifyWaitersOnly(m) ==
  /\ proc = "up" /\ sub[m] = "committed"
  /\ permit' = (permit \/ pc = "parked")
  /\ sub' = [sub EXCEPT ![m] = "notified"]
  /\ UNCHANGED <<db, workerVars, procVars, netVars, fails, now, faults>>

\* with_conn has returned to enqueue, which calls notify_one.
EnqueueReturns(m) ==
  /\ proc = "up" /\ sub[m] = "committed"
  /\ permit' = TRUE
  /\ sub' = [sub EXCEPT ![m] = "notified"]
  /\ UNCHANGED <<db, workerVars, procVars, netVars, fails, now, faults>>

\* 250 after a stored message, 451 after a failed enqueue.
Answer(m) ==
  /\ proc = "up"
  /\ \/ sub[m] = "notified" /\ sub' = [sub EXCEPT ![m] = "acked"]
     \/ sub[m] = "refused"  /\ sub' = [sub EXCEPT ![m] = "rejected"]
  /\ UNCHANGED <<dbVars, workerVars, procVars, netVars, fails, now, faults>>

\* A plausible defect: a session that is cut off reports a failure for an
\* insert that has been committed.
CancelRejecting(m) ==
  /\ proc = "up"
  /\ \/ sub[m] = "queued"    /\ sub' = [sub EXCEPT ![m] = "detached"]
     \/ sub[m] = "committed" /\ sub' = [sub EXCEPT ![m] = "rejected"]
     \/ sub[m] = "notified"  /\ sub' = [sub EXCEPT ![m] = "unacked"]
     \/ sub[m] = "refused"   /\ sub' = [sub EXCEPT ![m] = "closed"]
  /\ UNCHANGED <<dbVars, workerVars, procVars, netVars, fails, now, faults>>

\* The session's future is dropped, or the write of the answer fails.
Cancel(m) ==
  /\ proc = "up"
  /\ \/ sub[m] = "queued"    /\ sub' = [sub EXCEPT ![m] = "detached"]
     \/ sub[m] = "committed" /\ sub' = [sub EXCEPT ![m] = "silent"]
     \/ sub[m] = "notified"  /\ sub' = [sub EXCEPT ![m] = "unacked"]
     \/ sub[m] = "refused"   /\ sub' = [sub EXCEPT ![m] = "closed"]
  /\ UNCHANGED <<dbVars, workerVars, procVars, netVars, fails, now, faults>>

SessionStep(m) ==
  \/ Submit(m) \/ RunInsert(m) \/ InsertFails(m)
  \/ EnqueueReturns(m) \/ Answer(m) \/ Cancel(m)

-----------------------------------------------------------------------------
(***************************************************************************)
(* run_with_reconnect: connect until it works, unless told to stop.        *)
(***************************************************************************)
BeginConnect ==
  /\ pc = "top"
  /\ pc' = IF shutdown THEN "stopped" ELSE "connecting"
  /\ UNCHANGED <<dbVars, sub, held, sampled, wake, procVars, netVars, fails, now, faults>>

ConnectOk ==
  /\ pc = "connecting"
  /\ pc' = "claim"
  /\ UNCHANGED <<dbVars, sub, held, sampled, wake, procVars, netVars, fails, now, faults>>

ConnectErr ==
  /\ pc = "connecting"
  /\ Fault
  /\ pc' = "backoff" /\ wake' = now + ReconnectBackoff
  /\ UNCHANGED <<dbVars, sub, held, sampled, procVars, netVars, fails, now>>

(***************************************************************************)
(* DeliveryWorker::run.  The clock is read just before the query; a row    *)
(* inserted in between is due in any case, so the two are one step here.   *)
(***************************************************************************)
ClaimRow ==
  /\ pc = "claim"
  /\ \E r \in db.outbox : ClaimNextReady(db, now, r) /\ held' = r
  /\ sampled' = now
  /\ pc' = "sending"
  /\ UNCHANGED <<dbVars, sub, wake, procVars, netVars, fails, now, faults>>

ClaimNone ==
  /\ pc = "claim"
  /\ Ready(db, now) = {}
  /\ sampled' = now
  /\ pc' = "empty"
  /\ UNCHANGED <<dbVars, sub, held, wake, procVars, netVars, fails, now, faults>>

ClaimErr ==
  /\ pc = "claim"
  /\ Fault
  /\ sampled' = now
  /\ pc' = "errwait" /\ wake' = now + StorageErrorBackoff
  /\ UNCHANGED <<dbVars, sub, held, procVars, netVars, fails, now>>

\* Nothing was due; the shutdown flag is read after the query has returned.
DrainComplete ==
  /\ pc = "empty" /\ shutdown
  /\ pc' = "stopped" /\ NextIteration
  /\ UNCHANGED <<dbVars, sub, held, procVars, netVars, fails, now, faults>>

\* idle_wait, then the select begins.
Park ==
  /\ pc = "empty" /\ ~shutdown
  /\ \/ \E r \in db.outbox : NextWakeup(db, sampled, r) /\ wake' = now + (r.next - sampled)
     \/ Backing(db, sampled) = {} /\ wake' = now + IdleSleep
  /\ pc' = "parked"
  /\ UNCHANGED <<dbVars, sub, held, sampled, procVars, netVars, fails, now, faults>>

ParkAfterError ==
  /\ pc = "empty" /\ ~shutdown
  /\ Fault
  /\ wake' = now + StorageErrorBackoff
  /\ pc' = "parked"
  /\ UNCHANGED <<dbVars, sub, held, sampled, procVars, netVars, fails, now>>

\* The branches of the selects: a permit, the end of the sleep, or the change
\* of the watch channel, which changed() reports once: a drain that meets a
\* storage error after it has to sleep to the end.
Notified ==
  /\ pc = "parked" /\ permit
  /\ permit' = FALSE
  /\ pc' = "claim" /\ NextIteration
  /\ UNCHANGED <<db, sub, held, procVars, netVars, fails, now, faults>>

AfterWait ==
  CASE pc = "parked"  -> "claim"
    [] pc = "errwait" -> IF shutdown THEN "stopped" ELSE "claim"
    [] pc = "backoff" -> "top"

\* A plausible defect: the idle select waits for a notification only.
SleepEndsUnlessParked ==
  /\ pc \in Waiting \ {"parked"} /\ wake <= now
  /\ pc' = AfterWait /\ NextIteration
  /\ UNCHANGED <<dbVars, sub, held, procVars, netVars, fails, now, faults>>

SleepEnds ==
  /\ pc \in Waiting /\ wake <= now
  /\ pc' = AfterWait /\ NextIteration
  /\ UNCHANGED <<dbVars, sub, held, procVars, netVars, fails, now, faults>>

\* A plausible defect: the reconnect sleep and the idle sleep are awaited
\* without a shutdown branch.
ShutdownSeenAfterErrorsOnly ==
  /\ pc = "errwait" /\ shutdown /\ ~seen
  /\ seen' = TRUE
  /\ pc' = AfterWait /\ NextIteration
  /\ UNCHANGED <<dbVars, sub, held, proc, shutdown, starts, netVars, fails, now, faults>>

ShutdownChanged ==
  /\ pc \in Waiting /\ shutdown /\ ~seen
  /\ seen' = TRUE
  /\ pc' = AfterWait /\ NextIteration
  /\ UNCHANGED <<dbVars, sub, held, proc, shutdown, starts, netVars, fails, now, faults>>

(***************************************************************************)
(* deliver_one and handle_failure.  A delivery may fail before a request   *)
(* leaves (no route, not joined, room not encrypted), or while waiting for *)
(* the answer; a request that was sent may still arrive later.             *)
(***************************************************************************)
SendRequest ==
  /\ pc = "sending"
  /\ inflight' = inflight \cup {Request(held)}
  /\ pc' = "awaiting"
  /\ UNCHANGED <<dbVars, sub, held, sampled, wake, procVars, events, fails, now, faults>>

\* A plausible defect: a request that left without an answer counts as sent.
SinkOkUnanswered ==
  /\ pc = "awaiting"
  /\ pc' = "delivered"
  /\ UNCHANGED <<dbVars, sub, held, sampled, wake, procVars, netVars, fails, now, faults>>

SinkOk ==
  /\ pc = "awaiting"
  /\ \E e \in events : e.session = Session /\ e.key = Key(held)
  /\ pc' = "delivered"
  /\ UNCHANGED <<dbVars, sub, held, sampled, wake, procVars, netVars, fails, now, faults>>

SinkErr ==
  /\ pc \in {"sending", "awaiting"}
  /\ fails' = CountFailure(held.msg)
  /\ pc' = "failed"
  /\ UNCHANGED <<dbVars, sub, held, sampled, wake, procVars, netVars, now, faults>>

MarkDelivered ==
  /\ pc = "delivered"
  /\ db' = Remove(db, held.id)
  /\ pc' = "claim" /\ held' = NoRow /\ NextIteration
  /\ UNCHANGED <<permit, sub, procVars, netVars, fails, now, faults>>

\* A plausible defect: the retries are exhausted one failure too early.
ExhaustedEarly(r) == r.attempts + 1 >= MaxRetries

Exhausted(r) == r.attempts + 1 > MaxRetries

RecordFailure ==
  /\ pc = "failed"
  /\ db' = IF Exhausted(held)
           THEN DeadLetter(db, held.id)
           ELSE Reschedule(db, held.id, held.attempts + 1, sampled + Delay[held.attempts + 1])
  /\ pc' = "claim" /\ held' = NoRow /\ NextIteration
  /\ UNCHANGED <<permit, sub, procVars, netVars, fails, now, faults>>

\* mark_delivered, dead_letter or reschedule fails: it is logged, no more.
StoreWriteErr ==
  /\ pc \in {"delivered", "failed"}
  /\ Fault
  /\ pc' = "claim" /\ held' = NoRow /\ NextIteration
  /\ UNCHANGED <<dbVars, sub, procVars, netVars, fails, now>>

WorkerStep ==
  \/ BeginConnect \/ ConnectOk \/ ConnectErr
  \/ ClaimRow \/ ClaimNone \/ ClaimErr
  \/ DrainComplete \/ Park \/ ParkAfterError
  \/ Notified \/ SleepEnds \/ ShutdownChanged
  \/ SendRequest \/ SinkOk \/ SinkErr
  \/ MarkDelivered \/ RecordFailure \/ StoreWriteErr

-----------------------------------------------------------------------------
(***************************************************************************)
(* The homeserver (external): it accepts a request once per session and    *)
(* transaction id and answers a repeated one with the first event.         *)
(***************************************************************************)
HomeserverHandles(q) ==
  /\ q \in inflight
  /\ inflight' = inflight \ {q}
  /\ events' = IF \E e \in events : e.session = q.session /\ e.key = q.key
               THEN events ELSE events \cup {q}
  /\ UNCHANGED <<dbVars, sub, workerVars, procVars, fails, now, faults>>

-----------------------------------------------------------------------------
(***************************************************************************)
(* The process.  main aborts the accept loop and sets the watch channel;   *)
(* sessions that were accepted run on until the process ends.              *)
(***************************************************************************)
Signal ==
  /\ proc = "up" /\ ~shutdown
  /\ shutdown' = TRUE
  /\ UNCHANGED <<dbVars, sub, workerVars, proc, seen, starts, netVars, fails, now, faults>>

\* The end of the process takes every task with it; d is what is left of the
\* database, all of it unless the machine goes down too.
Down(p, d) ==
  /\ db' = d
  /\ proc = "up" /\ proc' = p
  /\ pc' = "off" /\ held' = NoRow /\ NextIteration
  /\ permit' = FALSE /\ shutdown' = FALSE /\ seen' = FALSE
  /\ sub' = [m \in Messages |->
               CASE sub[m] \in {"queued", "detached", "refused"}  -> "closed"
                 [] sub[m] \in {"committed", "silent", "notified"} -> "unacked"
                 [] OTHER -> sub[m]]
  /\ UNCHANGED <<starts, netVars, fails, now, faults>>

\* The worker has drained, or the drain timeout has passed.
Exit == shutdown /\ Down("halted", db)

Crash == starts < MaxStarts /\ Down("crashed", db)

Start ==
  /\ proc # "up" /\ starts < MaxStarts
  /\ proc' = "up" /\ starts' = starts + 1
  /\ pc' = "top"
  /\ UNCHANGED <<dbVars, sub, held, sampled, wake, shutdown, seen, netVars, fails, now, faults>>

Tick ==
  /\ \/ now < ClockBound
     \/ (db.outbox # {} \/ seen) /\ pc \in Waiting /\ now < wake
  /\ now' = now + 1
  /\ UNCHANGED <<dbVars, sub, workerVars, procVars, netVars, fails, faults>>

Next ==
  \/ \E m \in Messages : SessionStep(m)
  \/ WorkerStep
  \/ \E q \in inflight : HomeserverHandles(q)
  \/ Signal \/ Exit \/ Crash \/ Start \/ Tick

Spec == Init /\ [][Next]_vars

\* The runtime keeps polling the worker, connect and send time out, the clock
\* advances, main returns once the worker has stopped, and systemd restarts a
\* service that failed (Restart=on-failure), not one that was stopped.
Fairness ==
  /\ WF_vars(WorkerStep)
  /\ WF_vars(Tick)
  /\ WF_vars(Exit /\ pc = "stopped")
  /\ WF_vars(Start /\ proc = "crashed")

FairSpec == Spec /\ Fairness
-----------------------------------------------------------------------------
(***************************************************************************)
(* Correctness.                                                            *)
(***************************************************************************)
InOutbox(m) == \E r \in db.outbox : r.msg = m
InDead(m) == \E d \in db.dead : d.msg = m
Posted(m) == \E e \in events : e.msg = m

\* The state has its type; in particular the worker holds a row exactly while
\* deliver_one runs, and is off exactly while the process is down.
TypeOK ==
  /\ db \in Databases
  /\ permit \in BOOLEAN
  /\ sub \in [Messages -> Unstored \cup Stored]
  /\ pc \in PcValues
  /\ held \in Rows \cup {NoRow} /\ (held \in Rows <=> pc \in Delivering)
  /\ sampled \in Nat /\ wake \in Nat /\ now \in Nat
  /\ proc \in {"up", "crashed", "halted"} /\ (proc = "up" <=> pc # "off")
  /\ shutdown \in BOOLEAN /\ seen \in BOOLEAN /\ starts \in Nat
  /\ inflight \in SUBSET Requests /\ events \in SUBSET Requests
  /\ faults \in Nat
  /\ fails \in [Messages -> Nat]

\* A message whose insert was committed (in particular every message answered
\* with 250) is in the outbox, in dead_letter or in the room, whatever crashes,
\* lost answers, storage errors and stop requests happen (the ack-after-delivery
\* of deliver_one, "never silently loses an accepted email" in store.rs).
NoLoss ==
  \A m \in Messages : sub[m] \in Stored => InOutbox(m) \/ InDead(m) \/ Posted(m)

\* A message whose sender was told 451, or got no answer because nothing was
\* stored, leaves no trace: the sender's own retry cannot produce a duplicate
\* (enqueue inserts nothing when it returns Err).
RefusedLeavesNoTrace ==
  \A m \in Messages :
    sub[m] \in {"refused", "rejected", "closed"} => ~(InOutbox(m) \/ InDead(m) \/ Posted(m))

\* Within one Matrix session a message is posted at most once, however often a
\* lost answer makes the worker send it again (idempotency_key in deliver_one).
OncePerSession ==
  \A e1, e2 \in events : e1.msg = e2.msg /\ e1.session = e2.session => e1 = e2

\* No message is posted twice at all, also not by a crash between a send and
\* the removal, when the session survives restarts (access_token login in
\* MatrixClient::connect). With a new session per start it is false, and the
\* repository's README says it is false of every restart: RestartDuplicates.
NoDuplicatePosts ==
  \A e1, e2 \in events : e1.msg = e2.msg => e1 = e2

\* "a crash between a successful send and the queue removal will, however,
\* redeliver on the next start as a genuine duplicate (the restart is a new
\* session, so the transaction id no longer dedupes it)" (the repository's
\* README): after a successful send the row is removed before the process goes
\* down, or the message is in the room twice in the end, unless its redelivery
\* fails for good or the service is stopped (deliver_one, restore_session in
\* MatrixClient::connect).
RestartDuplicates ==
  \A m \in Messages, n \in 1 .. MaxStarts :
    pc = "delivered" /\ held.msg = m /\ starts = n
      ~> \/ ~InOutbox(m) /\ starts = n
         \/ \E e1, e2 \in events : e1 # e2 /\ e1.msg = m /\ e2.msg = m
         \/ InDead(m) \/ proc = "halted"

\* Two different messages never share a transaction id in one session: the
\* homeserver would drop the second as a repetition (AUTOINCREMENT ids).
KeysNeverCollide ==
  \A q1, q2 \in inflight \cup events :
    q1.session = q2.session /\ q1.key = q2.key => q1.msg = q2.msg

\* A message is given up only after the initial attempt and all max_retries
\* retries have failed (handle_failure).
DeadOnlyAfterRetries ==
  \A m \in Messages : InDead(m) => fails[m] >= MaxRetries + 1

\* A message is never both waiting for delivery and given up, and has at most
\* one row (the single transaction of dead_letter).
OneHome ==
  /\ \A m \in Messages : ~(InOutbox(m) /\ InDead(m))
  /\ \A r1, r2 \in db.outbox : r1.msg = r2.msg => r1 = r2

\* No sequence of inserts, removals and restarts takes the outbox past max_len
\* (enqueue, whose count and insert are one closure under the connection lock).
QueueBounded == MaxLen > 0 => Cardinality(db.outbox) <= MaxLen

\* The worker never sleeps on a message that was due when it looked, or came
\* in since, unless a notification is pending, the enqueue is about to notify,
\* or the enqueue was cut off before it could (run, enqueue, Notify).
NoLostWakeup ==
  pc \in {"empty", "parked"} =>
    \A r \in db.outbox :
      r.next <= sampled => permit \/ sub[r.msg] \in {"committed", "silent"}

\* A parked worker wakes for every backing-off row: what is left of its sleep
\* exceeds neither the row's delay nor the storage-error backoff (idle_wait).
SleepCoversRetries ==
  pc = "parked" =>
    \A r \in Backing(db, sampled) :
      \/ wake - now <= r.next - sampled
      \/ wake - now <= StorageErrorBackoff

\* A message that has failed never goes ahead of one that was never tried,
\* even when both are due: "one failing message never blocks the rest of the
\* queue" (claim_next_ready's order on next_attempt_at).
NewMailFirst ==
  [][pc = "claim" /\ pc' = "sending" /\ held'.attempts > 0
       => \A r \in db.outbox : r.attempts > 0]_vars

\* Every stored message is eventually posted or given up, unless the process
\* is stopped for good and provided that connect succeeds in the end: an
\* attempt counts against max_retries only once the worker is connected (run,
\* idle_wait, handle_failure).
EventuallySettled ==
  \A m \in Messages : InOutbox(m) ~> (~InOutbox(m) \/ proc = "halted")

\* A stop request ends the worker from every state it can be waiting in,
\* without the drain timeout having to intervene (run, run_with_reconnect).
ShutdownStopsWorker == shutdown ~> (pc = "stopped" \/ proc # "up")

(***************************************************************************)
(* The inductive invariant behind NoLoss, OncePerSession and the others:   *)
(* ids identify messages, in the table and in every request ever sent.     *)
(***************************************************************************)
\* Ids come from the AUTOINCREMENT counter, each names one row, and no message
\* has two rows.
RowIds ==
  /\ \A r \in db.outbox : r.id <= db.seq
  /\ \A r, s \in db.outbox : r.id = s.id \/ r.msg = s.msg => r = s

\* The transaction ids of all requests stand for the messages the ids name.
RequestKeys ==
  LET sent == inflight \cup events IN
  /\ \A q \in sent : q.key <= db.seq
  /\ \A q \in sent, r \in db.outbox : q.key = r.id <=> q.msg = r.msg
  /\ \A p, q \in sent : p.key = q.key <=> p.msg = q.msg

\* Nothing is known of a message whose insert has not been committed.
UnstoredIsUnknown ==
  \A m \in Messages : sub[m] \in Unstored =>
    /\ ~InOutbox(m) /\ ~InDead(m)
    /\ \A q \in inflight \cup events : q.msg # m

\* The row the worker delivers is in the table, unchanged, until the worker
\* itself removes or updates it; it is about to be removed as delivered only
\* when it is in the room.
HeldIsLive ==
  /\ pc \in Delivering => held \in db.outbox
  /\ pc = "delivered" => Posted(held.msg)

\* The persisted count never exceeds the real failures.
AttemptsCounted ==
  /\ \A r \in db.outbox : r.attempts <= MaxRetries /\ r.attempts <= fails[r.msg]
  /\ pc = "failed" => held.attempts + 1 <= fails[held.msg]

\* The inductive invariant: together these say that an id, a row, a request
\* and an event always speak of the same message (deliver_one, enqueue).
Inv ==
  /\ TypeOK /\ NoLoss /\ OneHome /\ RowIds /\ RequestKeys
  /\ UnstoredIsUnknown /\ HeldIsLive /\ AttemptsCounted /\ DeadOnlyAfterRetries
=============================================================================
