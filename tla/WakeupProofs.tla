---------------------------- MODULE WakeupProofs ----------------------------
(***************************************************************************)
(* More theorems about Delivery: the worker's waits, the order of the      *)
(* queue and its cap, for every set of messages and all parameters.        *)
(***************************************************************************)
EXTENDS DeliveryProofs, FiniteSetTheorems

(***************************************************************************)
(* What has to be known besides Inv.                                       *)
(***************************************************************************)
\* A row that was never tried has next_attempt_at = 0, a row that failed a
\* later time: the clock never reads 0.
DueTimes ==
  /\ \A r \in db.outbox : IF r.attempts = 0 THEN r.next = 0 ELSE r.next > 0
  /\ now > 0
  /\ pc \in Delivering => sampled > 0

QueueFinite == IsFiniteSet(db.outbox) /\ QueueBounded

WaitInv == Inv /\ NoLostWakeup /\ SleepCoversRetries /\ DueTimes /\ QueueFinite

(***************************************************************************)
(* The steps by what they do to the database and to the worker's wait.     *)
(***************************************************************************)
\* A session changes its own station, and may leave a permit.
SessionOnly(m) ==
  /\ UNCHANGED <<db, pc, sampled, wake, now>>
  /\ \E s \in Unstored \cup Stored : sub' = [sub EXCEPT ![m] = s]
  /\ sub[m] = "committed" => permit' \/ sub'[m] = "silent"
  /\ sub[m] # "silent"
  /\ permit => permit'

\* A step of worker, homeserver or process that neither begins nor disturbs a
\* wait, and claims nothing.
NoWait ==
  /\ db' = db /\ now' \in {now, now + 1}
  /\ pc' \in {"empty", "parked"} => UNCHANGED <<pc, sampled, wake, permit, sub>>
  /\ pc' \in Delivering => pc \in Delivering /\ sampled' = sampled

\* A session step inserts, or moves its own station (enqueue, handle_connection).
LEMMA SessionKinds ==
  ASSUME TypeOK, NEW m \in Messages, SessionStep(m)
  PROVE  RunInsert(m) \/ SessionOnly(m)
<1> USE DEF dbVars, workerVars, Stored, Unstored, TypeOK
<1>1. ASSUME Submit(m) PROVE SessionOnly(m)
  BY <1>1 DEF Submit, SessionOnly
<1>2. ASSUME InsertFails(m) PROVE SessionOnly(m)
  BY <1>2 DEF InsertFails, SessionOnly
<1>3. ASSUME EnqueueReturns(m) PROVE SessionOnly(m)
  BY <1>3 DEF EnqueueReturns, SessionOnly
<1>4. ASSUME Answer(m) PROVE SessionOnly(m)
  BY <1>4 DEF Answer, SessionOnly
<1>5. ASSUME Cancel(m) PROVE SessionOnly(m)
  BY <1>5 DEF Cancel, SessionOnly
<1> QED
  BY <1>1, <1>2, <1>3, <1>4, <1>5 DEF SessionStep

\* Few steps write to the database or begin a wait (run, deliver_one).
LEMMA StepKinds ==
  ASSUME TypeOK, [Next]_vars
  PROVE  \/ \E m \in Messages : RunInsert(m) \/ SessionOnly(m)
         \/ ClaimRow \/ ClaimNone \/ Park \/ ParkAfterError \/ MarkDelivered \/ RecordFailure
         \/ NoWait
<1> USE DEF dbVars, workerVars, procVars, netVars, NextIteration, Delivering, NoWait
<1>1. ASSUME BeginConnect \/ ConnectOk \/ ConnectErr \/ ClaimErr \/ DrainComplete PROVE NoWait
  BY <1>1 DEF BeginConnect, ConnectOk, ConnectErr, ClaimErr, DrainComplete
<1>2. ASSUME Notified \/ SleepEnds \/ ShutdownChanged PROVE NoWait
  BY <1>2 DEF Notified, SleepEnds, ShutdownChanged, AfterWait, Waiting
<1>3. ASSUME SendRequest \/ SinkOk \/ SinkErr \/ StoreWriteErr PROVE NoWait
  BY <1>3 DEF SendRequest, SinkOk, SinkErr, StoreWriteErr
<1>4. ASSUME \E q \in inflight : HomeserverHandles(q) PROVE NoWait
  BY <1>4 DEF HomeserverHandles
<1>5. ASSUME Signal \/ Exit \/ Crash \/ Start \/ Tick PROVE NoWait
  BY <1>5 DEF Signal, Exit, Crash, Down, Start, Tick
<1>6. ASSUME UNCHANGED vars PROVE NoWait
  BY <1>6 DEF vars
<1> QED
  BY <1>1, <1>2, <1>3, <1>4, <1>5, <1>6, SessionKinds DEF Next, WorkerStep

-----------------------------------------------------------------------------
(***************************************************************************)
(* Wake-ups.                                                               *)
(***************************************************************************)
\* A row is inserted, or an empty query is followed by a wait, and in between a
\* permit or a session about to notify keeps the row from being slept on
\* (enqueue, run).
LEMMA WakeupStep ==
  ASSUME Inv, NoLostWakeup, [Next]_vars
  PROVE  NoLostWakeup'
<1> USE DEF Delivering
<1>t. TypeOK /\ db \in Databases
  BY DEF Inv, TypeOK
<1>1. ASSUME NEW m \in Messages, RunInsert(m) PROVE NoLostWakeup'
  <2>1. /\ db'.outbox = db.outbox \cup {[id |-> db.seq + 1, msg |-> m, attempts |-> 0, next |-> 0]}
        /\ UNCHANGED <<pc, sampled, permit>>
    BY <1>1, <1>t, InsertLemma DEF RunInsert, workerVars
  <2>2. /\ sub'[m] \in {"committed", "silent"}
        /\ \A n \in Messages : n # m => sub'[n] = sub[n]
    BY <1>1, <1>t DEF RunInsert, TypeOK
  <2>3. \A r \in db.outbox : r.msg \in Messages /\ r.msg # m
    BY <1>1, <1>t DEF RunInsert, Inv, UnstoredIsUnknown, InOutbox, Unstored, Databases, Rows
  <2> QED
    BY <2>1, <2>2, <2>3 DEF NoLostWakeup
<1>2. ASSUME NEW m \in Messages, SessionOnly(m) PROVE NoLostWakeup'
  <2> SUFFICES ASSUME pc \in {"empty", "parked"}, NEW r \in db.outbox, r.next <= sampled
               PROVE  permit' \/ sub'[r.msg] \in {"committed", "silent"}
    BY <1>2 DEF SessionOnly, NoLostWakeup
  <2>1. permit \/ sub[r.msg] \in {"committed", "silent"}
    BY DEF NoLostWakeup
  <2>2. r.msg \in Messages
    BY <1>t DEF Databases, Rows
  <2>3. CASE permit
    BY <1>2, <2>3 DEF SessionOnly
  <2>4. CASE ~permit /\ r.msg # m
    BY <1>2, <1>t, <2>1, <2>2, <2>4 DEF SessionOnly, TypeOK
  <2>5. CASE ~permit /\ r.msg = m /\ sub[m] = "committed"
    BY <1>2, <2>5 DEF SessionOnly
  <2>6. CASE ~permit /\ r.msg = m /\ sub[m] = "silent"
    BY <1>2, <2>6 DEF SessionOnly
  <2> QED
    BY <2>1, <2>3, <2>4, <2>5, <2>6
<1>3. ASSUME ClaimRow \/ MarkDelivered \/ RecordFailure PROVE NoLostWakeup'
  BY <1>3 DEF ClaimRow, MarkDelivered, RecordFailure, NoLostWakeup
<1>4. ASSUME ClaimNone PROVE NoLostWakeup'
  BY <1>4 DEF ClaimNone, Ready, NoLostWakeup, dbVars
<1>5. ASSUME Park \/ ParkAfterError PROVE NoLostWakeup'
  BY <1>5 DEF Park, ParkAfterError, NoLostWakeup, dbVars
<1>6. ASSUME NoWait PROVE NoLostWakeup'
  BY <1>6 DEF NoWait, NoLostWakeup
<1> QED
  BY <1>t, <1>1, <1>2, <1>3, <1>4, <1>5, <1>6, StepKinds

\* The sleep was set for the earliest backing-off row, and no row begins to
\* back off while the worker sleeps (idle_wait).
LEMMA SleepStep ==
  ASSUME Inv, SleepCoversRetries, [Next]_vars
  PROVE  SleepCoversRetries'
<1>t. /\ TypeOK /\ db \in Databases /\ sampled \in Nat /\ wake \in Nat /\ now \in Nat
      /\ StorageErrorBackoff \in Nat
      /\ \A r \in db.outbox : r.next \in Nat
  BY WaitAssumption DEF Inv, TypeOK, Databases, Rows
<1>1. ASSUME NEW m \in Messages, RunInsert(m) PROVE SleepCoversRetries'
  <2>1. /\ db'.outbox = db.outbox \cup {[id |-> db.seq + 1, msg |-> m, attempts |-> 0, next |-> 0]}
        /\ UNCHANGED <<pc, sampled, wake, now>>
    BY <1>1, <1>t, InsertLemma DEF RunInsert, workerVars
  <2>2. Backing(db, sampled)' = Backing(db, sampled)
    BY <1>t, <2>1 DEF Backing
  <2> QED
    BY <2>1, <2>2 DEF SleepCoversRetries
<1>2. ASSUME NEW m \in Messages, SessionOnly(m) PROVE SleepCoversRetries'
  BY <1>2 DEF SessionOnly, SleepCoversRetries, Backing
<1>3. ASSUME ClaimRow \/ ClaimNone \/ MarkDelivered \/ RecordFailure PROVE SleepCoversRetries'
  BY <1>3 DEF ClaimRow, ClaimNone, MarkDelivered, RecordFailure, SleepCoversRetries
<1>4. ASSUME Park PROVE SleepCoversRetries'
  <2>1. UNCHANGED <<db, sampled, now>>
    BY <1>4 DEF Park, dbVars
  <2>2. CASE Backing(db, sampled) = {}
    BY <2>1, <2>2 DEF SleepCoversRetries, Backing
  <2>3. CASE \E r \in db.outbox : NextWakeup(db, sampled, r) /\ wake' = now + (r.next - sampled)
    <3>1. PICK r \in db.outbox : NextWakeup(db, sampled, r) /\ wake' = now + (r.next - sampled)
      BY <2>3
    <3>2. ASSUME NEW s \in Backing(db, sampled) PROVE wake' - now <= s.next - sampled
      <4>1. r.next <= s.next /\ s \in db.outbox
        BY <3>1 DEF NextWakeup, Backing
      <4>2. r.next \in Nat /\ s.next \in Nat
        BY <1>t, <4>1
      <4> QED
        BY <1>t, <3>1, <4>1, <4>2
    <3> QED
      BY <2>1, <3>2 DEF SleepCoversRetries, Backing
  <2> QED
    BY <1>4, <2>2, <2>3 DEF Park
<1>5. ASSUME ParkAfterError PROVE SleepCoversRetries'
  <2>1. wake' = now + StorageErrorBackoff /\ now' = now
    BY <1>5 DEF ParkAfterError
  <2>2. wake' - now' <= StorageErrorBackoff
    BY <1>t, <2>1
  <2> QED
    BY <2>2 DEF SleepCoversRetries
<1>6. ASSUME NoWait PROVE SleepCoversRetries'
  <2> SUFFICES ASSUME pc' = "parked", NEW r \in Backing(db', sampled')
               PROVE  wake' - now' <= r.next - sampled' \/ wake' - now' <= StorageErrorBackoff
    BY DEF SleepCoversRetries
  <2>1. UNCHANGED <<db, pc, sampled, wake>> /\ now' \in {now, now + 1}
    BY <1>6 DEF NoWait
  <2>2. r \in Backing(db, sampled)
    BY <2>1
  <2>3. wake - now <= r.next - sampled \/ wake - now <= StorageErrorBackoff
    BY <2>1, <2>2 DEF SleepCoversRetries
  <2>4. r.next \in Nat
    BY <1>t, <2>2 DEF Backing
  <2>5. now' \in Int /\ wake - now' <= wake - now
    BY <1>t, <2>1
  <2>6. \A x, y, b \in Int : x <= y /\ y <= b => x <= b
    OBVIOUS
  <2>7. /\ wake - now \in Int /\ wake - now' \in Int /\ r.next - sampled \in Int
        /\ StorageErrorBackoff \in Int
    BY <1>t, <2>4, <2>5
  <2>8. wake - now' <= r.next - sampled \/ wake - now' <= StorageErrorBackoff
    BY <2>3, <2>5, <2>6, <2>7
  <2> QED
    BY <2>1, <2>8
<1> QED
  BY <1>t, <1>1, <1>2, <1>3, <1>4, <1>5, <1>6, StepKinds

-----------------------------------------------------------------------------
(***************************************************************************)
(* The order of the queue.                                                 *)
(***************************************************************************)
\* A failure is recorded with a time after the clock's start (handle_failure).
LEMMA DueStep ==
  ASSUME Inv, DueTimes, [Next]_vars
  PROVE  DueTimes'
<1> USE DEF Delivering
<1>t. /\ TypeOK /\ db \in Databases /\ sampled \in Nat /\ now \in Nat
      /\ \A r \in db.outbox : r \in Rows /\ r.attempts \in Nat /\ r.next \in Nat
  BY DEF Inv, TypeOK, Databases, Rows
<1>1. ASSUME NEW m \in Messages, RunInsert(m) PROVE DueTimes'
  <2>1. /\ db'.outbox = db.outbox \cup {[id |-> db.seq + 1, msg |-> m, attempts |-> 0, next |-> 0]}
        /\ UNCHANGED <<pc, sampled, now>>
    BY <1>1, <1>t, InsertLemma DEF RunInsert, workerVars
  <2> QED
    BY <2>1 DEF DueTimes
<1>2. ASSUME NEW m \in Messages, SessionOnly(m) PROVE DueTimes'
  BY <1>2 DEF SessionOnly, DueTimes
<1>3. ASSUME ClaimRow \/ ClaimNone \/ Park \/ ParkAfterError PROVE DueTimes'
  BY <1>3 DEF ClaimRow, ClaimNone, Park, ParkAfterError, DueTimes, dbVars
<1>4. ASSUME MarkDelivered PROVE DueTimes'
  <2>1. db'.outbox \subseteq db.outbox /\ now' = now /\ pc' = "claim"
    BY <1>4, <1>t, RemoveLemma DEF MarkDelivered
  <2> QED
    BY <2>1 DEF DueTimes
<1>5. ASSUME RecordFailure PROVE DueTimes'
  <2>1. now' = now /\ pc' = "claim" /\ pc = "failed" /\ sampled > 0
    BY <1>5 DEF RecordFailure, DueTimes
  <2>2. held \in Rows /\ held.attempts \in Nat
    BY <1>5, <1>t DEF RecordFailure, TypeOK, Rows
  <2>3. CASE Exhausted(held)
    <3>1. db'.outbox \subseteq db.outbox
      BY <1>5, <1>t, <2>3, DeadLetterLemma DEF RecordFailure
    <3> QED
      BY <2>1, <3>1 DEF DueTimes
  <2>4. CASE ~Exhausted(held)
    <3> DEFINE at == sampled + Delay[held.attempts + 1]
    <3>1. Delay[held.attempts + 1] \in Nat
      BY <2>2, <2>4, RetryAssumption DEF Exhausted
    <3>2. at \in Nat /\ at > 0
      BY <1>t, <2>1, <3>1
    <3>3. db' = Reschedule(db, held.id, held.attempts + 1, at)
      BY <1>5, <2>4 DEF RecordFailure
    <3> HIDE DEF at
    <3>4. ASSUME NEW s \in db'.outbox PROVE IF s.attempts = 0 THEN s.next = 0 ELSE s.next > 0
      <4>1. \/ s \in db.outbox
            \/ \E r \in db.outbox : s = Updated(r, held.attempts + 1, at)
        BY <1>t, <3>3, RescheduleLemma
      <4>2. CASE s \in db.outbox
        BY <4>2 DEF DueTimes
      <4>3. CASE \E r \in db.outbox : s = Updated(r, held.attempts + 1, at)
        <5>1. s.attempts = held.attempts + 1 /\ s.next = at
          BY <1>t, <4>3 DEF Updated, Rows
        <5>2. held.attempts + 1 # 0
          BY <2>2
        <5> QED
          BY <3>2, <5>1, <5>2
      <4> QED
        BY <4>1, <4>2, <4>3
    <3> QED
      BY <2>1, <3>4 DEF DueTimes
  <2> QED
    BY <2>3, <2>4
<1>6. ASSUME NoWait PROVE DueTimes'
  BY <1>6, <1>t DEF NoWait, DueTimes
<1> QED
  BY <1>t, <1>1, <1>2, <1>3, <1>4, <1>5, <1>6, StepKinds

\* A row that was never tried comes before every row that has failed
\* (claim_next_ready).
LEMMA NewFirstStep ==
  ASSUME Inv, DueTimes, [Next]_vars, pc = "claim", pc' = "sending", held'.attempts > 0,
         NEW s \in db.outbox
  PROVE  s.attempts > 0
<1>t. /\ TypeOK /\ now \in Nat /\ \A r \in db.outbox : r.attempts \in Nat /\ r.next \in Nat
  BY DEF Inv, TypeOK, Databases, Rows
<1>1. ClaimRow
  <2>1. ASSUME NEW m \in Messages, RunInsert(m) \/ SessionOnly(m) PROVE FALSE
    BY <2>1 DEF RunInsert, SessionOnly, workerVars
  <2>2. ~(ClaimNone \/ Park \/ ParkAfterError \/ MarkDelivered \/ RecordFailure)
    BY DEF ClaimNone, Park, ParkAfterError, MarkDelivered, RecordFailure
  <2>3. ~NoWait
    BY DEF NoWait, Delivering
  <2> QED
    BY <1>t, <2>1, <2>2, <2>3, StepKinds
<1>2. PICK r \in db.outbox : ClaimNextReady(db, now, r) /\ held' = r
  BY <1>1 DEF ClaimRow
<1>3. r.next > 0
  BY <1>2, <1>t DEF DueTimes
<1>4. ASSUME s.attempts = 0 PROVE FALSE
  <2>1. s.next = 0
    BY <1>4 DEF DueTimes
  <2>2. s \in Ready(db, now)
    BY <1>t, <2>1 DEF Ready
  <2>3. s = r \/ Before(r, s)
    BY <1>2, <2>2 DEF ClaimNextReady
  <2>4. r.next \in Nat
    BY <1>t
  <2> QED
    BY <1>3, <2>1, <2>3, <2>4 DEF Before
<1> QED
  BY <1>4, <1>t

-----------------------------------------------------------------------------
(***************************************************************************)
(* The cap.                                                                *)
(***************************************************************************)
\* The count and the insert are one step, and no other statement adds a row
\* (enqueue, reschedule).
LEMMA CapStep ==
  ASSUME Inv, QueueFinite, [Next]_vars
  PROVE  QueueFinite'
<1>t. TypeOK /\ db \in Databases /\ IsFiniteSet(db.outbox) /\ Cardinality(db.outbox) \in Nat
  BY FS_CardinalityType DEF Inv, TypeOK, QueueFinite
<1>1. ASSUME NEW m \in Messages, RunInsert(m) PROVE QueueFinite'
  <2> DEFINE row == [id |-> db.seq + 1, msg |-> m, attempts |-> 0, next |-> 0]
  <2>1. db'.outbox = db.outbox \cup {row} /\ ~Full(db)
    BY <1>1, <1>t, InsertLemma DEF RunInsert
  <2> HIDE DEF row
  <2>2. IsFiniteSet(db'.outbox) /\ Cardinality(db'.outbox) <= Cardinality(db.outbox) + 1
    <3>1. IsFiniteSet(db'.outbox)
      BY <1>t, <2>1, FS_AddElement
    <3>2. Cardinality(db'.outbox) = Cardinality(db.outbox)
            \/ Cardinality(db'.outbox) = Cardinality(db.outbox) + 1
      BY <1>t, <2>1, FS_AddElement
    <3> QED
      BY <1>t, <3>1, <3>2
  <2>3. MaxLen > 0 => Cardinality(db.outbox) + 1 <= MaxLen
    BY <1>t, <2>1, MaxLenAssumption DEF Full
  <2>4. Cardinality(db'.outbox) \in Nat
    BY <2>2, FS_CardinalityType
  <2> QED
    BY <1>t, <2>2, <2>3, <2>4, MaxLenAssumption DEF QueueFinite, QueueBounded
<1>2. ASSUME db'.outbox \subseteq db.outbox PROVE QueueFinite'
  <2>1. IsFiniteSet(db'.outbox) /\ Cardinality(db'.outbox) <= Cardinality(db.outbox)
    BY <1>t, <1>2, FS_Subset
  <2>2. Cardinality(db'.outbox) \in Nat
    BY <2>1, FS_CardinalityType
  <2> QED
    BY <1>t, <2>1, <2>2, MaxLenAssumption DEF QueueFinite, QueueBounded
<1>3. ASSUME MarkDelivered PROVE QueueFinite'
  BY <1>2, <1>3, <1>t, RemoveLemma DEF MarkDelivered
<1>4. ASSUME RecordFailure PROVE QueueFinite'
  <2>1. CASE Exhausted(held)
    BY <1>2, <1>4, <1>t, <2>1, DeadLetterLemma DEF RecordFailure
  <2>2. CASE ~Exhausted(held)
    <3> DEFINE f == [r \in db.outbox |->
                       IF r.id = held.id
                       THEN [r EXCEPT !.attempts = held.attempts + 1,
                                      !.next = sampled + Delay[held.attempts + 1]]
                       ELSE r]
    <3>1. db'.outbox = {f[r] : r \in db.outbox}
      BY <1>4, <1>t, <2>2 DEF RecordFailure, Reschedule, Databases
    <3> HIDE DEF f
    <3>2. f \in Surjection(db.outbox, {f[r] : r \in db.outbox})
      BY DEF Surjection, f
    <3>3. IsFiniteSet(db'.outbox) /\ Cardinality(db'.outbox) <= Cardinality(db.outbox)
      BY <1>t, <3>1, <3>2, FS_Surjection
    <3>4. Cardinality(db'.outbox) \in Nat
      BY <3>3, FS_CardinalityType
    <3> QED
      BY <1>t, <3>3, <3>4, MaxLenAssumption DEF QueueFinite, QueueBounded
  <2> QED
    BY <2>1, <2>2
<1>5. ASSUME NEW m \in Messages, SessionOnly(m) PROVE QueueFinite'
  BY <1>2, <1>5 DEF SessionOnly
<1>6. ASSUME ClaimRow \/ ClaimNone \/ Park \/ ParkAfterError PROVE QueueFinite'
  BY <1>2, <1>6 DEF ClaimRow, ClaimNone, Park, ParkAfterError, dbVars
<1>7. ASSUME NoWait PROVE QueueFinite'
  BY <1>2, <1>7 DEF NoWait
<1> QED
  BY <1>t, <1>1, <1>3, <1>4, <1>5, <1>6, <1>7, StepKinds

-----------------------------------------------------------------------------
\* The first start of the process, with an empty queue (main).
LEMMA InitWaitInv == Init => WaitInv
<1> SUFFICES ASSUME Init PROVE WaitInv
  OBVIOUS
<1>1. Inv
  BY InitInv
<1>2. db.outbox = {} /\ pc = "top" /\ now = 1
  BY DEF Init, EmptyDb
<1>3. NoLostWakeup /\ SleepCoversRetries
  BY <1>2 DEF NoLostWakeup, SleepCoversRetries
<1>4. DueTimes
  BY <1>2 DEF DueTimes, Delivering
<1>5. QueueFinite
  BY <1>2, FS_EmptySet, MaxLenAssumption DEF QueueFinite, QueueBounded
<1> QED
  BY <1>1, <1>3, <1>4, <1>5 DEF WaitInv

\* The worker's waits, the due times and the length of the queue are in order
\* in every reachable state (run, idle_wait, enqueue).
THEOREM WaitInvHolds == Spec => []WaitInv
<1>1. ASSUME WaitInv, [Next]_vars PROVE WaitInv'
  BY <1>1, NextInv, WakeupStep, SleepStep, DueStep, CapStep DEF WaitInv
<1> QED
  BY InitWaitInv, <1>1, PTL DEF Spec

\* Whatever arrives between the empty query and the sleep, the worker is not
\* left asleep on it (run, enqueue).
THEOREM NoWakeupIsLost == Spec => []NoLostWakeup
<1>1. WaitInv => NoLostWakeup
  BY DEF WaitInv
<1> QED
  BY WaitInvHolds, <1>1, PTL

\* No backing-off row is overslept, for any delays (idle_wait).
THEOREM NoRetryIsOverslept == Spec => []SleepCoversRetries
<1>1. WaitInv => SleepCoversRetries
  BY DEF WaitInv
<1> QED
  BY WaitInvHolds, <1>1, PTL

\* The cap holds for any max_len and any number of sessions
\* (enqueue).
THEOREM CapIsKept == Spec => []QueueBounded
<1>1. WaitInv => QueueBounded
  BY DEF WaitInv, QueueFinite
<1> QED
  BY WaitInvHolds, <1>1, PTL

\* No claim prefers a message that has failed to one that was never tried
\* (claim_next_ready, handle_failure).
THEOREM NewMailGoesFirst == Spec => NewMailFirst
<1>1. WaitInv /\ [Next]_vars =>
        [pc = "claim" /\ pc' = "sending" /\ held'.attempts > 0
           => \A r \in db.outbox : r.attempts > 0]_vars
  BY NewFirstStep DEF WaitInv
<1> QED
  BY WaitInvHolds, <1>1, PTL DEF Spec, NewMailFirst
=============================================================================
