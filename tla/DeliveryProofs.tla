--------------------------- MODULE DeliveryProofs ---------------------------
(***************************************************************************)
(* Theorems about Delivery for every set of messages, every max_len,       *)
(* max_retries and backoff, and every bound.                               *)
(***************************************************************************)
EXTENDS DeliveryRefinement, TLAPS

-----------------------------------------------------------------------------
(***************************************************************************)
(* What the statements of the store do to a database.                      *)
(***************************************************************************)
\* enqueue's INSERT adds one row with a fresh id and touches nothing else.
LEMMA InsertLemma ==
  ASSUME NEW d \in Databases, NEW m \in Messages
  PROVE  /\ Insert(d, m) \in Databases
         /\ Insert(d, m).outbox
              = d.outbox \cup {[id |-> d.seq + 1, msg |-> m, attempts |-> 0, next |-> 0]}
         /\ Insert(d, m).seq = d.seq + 1
         /\ Insert(d, m).dead = d.dead
<1> DEFINE row == [id |-> d.seq + 1, msg |-> m, attempts |-> 0, next |-> 0]
<1>1. d.seq \in Nat /\ d.outbox \in SUBSET Rows
  BY DEF Databases
<1>2. row \in Rows
  BY <1>1 DEF Rows
<1>3. Insert(d, m) = [d EXCEPT !.outbox = @ \cup {row}, !.seq = @ + 1]
  BY DEF Insert
<1> HIDE DEF row
<1>4. d.outbox \cup {row} \in SUBSET Rows /\ d.seq + 1 \in Nat
  BY <1>1, <1>2
<1> QED
  BY <1>3, <1>4 DEF Databases, row

\* mark_delivered's DELETE takes away the rows with one id.
LEMMA RemoveLemma ==
  ASSUME NEW d \in Databases, NEW id
  PROVE  /\ Remove(d, id) \in Databases
         /\ Remove(d, id).outbox = {r \in d.outbox : r.id # id}
         /\ Remove(d, id).seq = d.seq
         /\ Remove(d, id).dead = d.dead
  BY DEF Remove, Databases

\* dead_letter's transaction moves the rows with one id to dead_letter.
LEMMA DeadLetterLemma ==
  ASSUME NEW d \in Databases, NEW id
  PROVE  /\ DeadLetter(d, id) \in Databases
         /\ DeadLetter(d, id).outbox = {r \in d.outbox : r.id # id}
         /\ DeadLetter(d, id).seq = d.seq
         /\ DeadLetter(d, id).dead
              = d.dead \cup {[msg |-> r.msg, attempts |-> r.attempts] :
                               r \in {s \in d.outbox : s.id = id}}
<1> DEFINE moved == {[msg |-> r.msg, attempts |-> r.attempts] :
                       r \in {s \in d.outbox : s.id = id}}
<1>1. moved \in SUBSET DeadRows
  BY DEF Databases, Rows, DeadRows
<1>2. d.dead \cup moved \in SUBSET DeadRows
  BY <1>1 DEF Databases
<1> HIDE DEF moved
<1>3. DeadLetter(d, id) = [d EXCEPT !.dead = @ \cup moved, !.outbox = {r \in @ : r.id # id}]
  BY DEF DeadLetter, moved
<1> QED
  BY <1>2, <1>3 DEF Databases, moved

\* A row with its new count and its new due time.
Updated(r, a, at) == [r EXCEPT !.attempts = a, !.next = at]

\* reschedule's UPDATE replaces the rows with one id by their updated form and
\* leaves the others alone.
LEMMA RescheduleLemma ==
  ASSUME NEW d \in Databases, NEW id, NEW a, NEW at
  PROVE  /\ \A s : s \in Reschedule(d, id, a, at).outbox <=>
              \/ s \in d.outbox /\ s.id # id
              \/ \E r \in d.outbox : r.id = id /\ s = Updated(r, a, at)
         /\ Reschedule(d, id, a, at).seq = d.seq
         /\ Reschedule(d, id, a, at).dead = d.dead
<1> DEFINE rows == {IF r.id = id THEN Updated(r, a, at) ELSE r : r \in d.outbox}
<1>1. \A s : s \in rows <=>
         \/ s \in d.outbox /\ s.id # id
         \/ \E r \in d.outbox : r.id = id /\ s = Updated(r, a, at)
  OBVIOUS
<1> HIDE DEF rows
<1>2. Reschedule(d, id, a, at) = [d EXCEPT !.outbox = rows]
  BY DEF Reschedule, rows, Updated
<1> QED
  BY <1>1, <1>2 DEF Databases

\* reschedule keeps the database a database.
LEMMA RescheduleType ==
  ASSUME NEW d \in Databases, NEW id, NEW a \in Nat, NEW at \in Nat
  PROVE  Reschedule(d, id, a, at) \in Databases
<1> DEFINE rows == {IF r.id = id THEN [r EXCEPT !.attempts = a, !.next = at] ELSE r : r \in d.outbox}
<1>1. rows \in SUBSET Rows
  BY DEF Databases, Rows
<1> HIDE DEF rows
<1>2. Reschedule(d, id, a, at) = [d EXCEPT !.outbox = rows]
  BY DEF Reschedule, rows
<1> QED
  BY <1>1, <1>2 DEF Databases


-----------------------------------------------------------------------------
(***************************************************************************)
(* Types.                                                                  *)
(***************************************************************************)
\* The state in which main starts has its type.
LEMMA InitType == Init => TypeOK
<1> SUFFICES ASSUME Init PROVE TypeOK
  OBVIOUS
<1>1. db \in Databases
  BY DEF Init, EmptyDb, Databases
<1>2. held \in Rows \cup {NoRow} /\ (held \in Rows <=> pc \in Delivering)
  BY NoRowAssumption DEF Init, Delivering
<1> QED
  BY <1>1, <1>2 DEF Init, TypeOK, Unstored, Stored, PcValues

\* Every step of the sessions, the worker, the homeserver and the process keeps
\* the types.
LEMMA NextType == TypeOK /\ [Next]_vars => TypeOK'
<1> SUFFICES ASSUME TypeOK, [Next]_vars PROVE TypeOK'
  OBVIOUS
<1> USE NoRowAssumption, RetryAssumption, WaitAssumption, BoundAssumption
<1> USE DEF dbVars, workerVars, procVars, netVars, Fault, NextIteration,
            Unstored, Stored, PcValues, Delivering
<1>1. ASSUME NEW m \in Messages, Submit(m) PROVE TypeOK'
  BY <1>1 DEF Submit, TypeOK
<1>2. ASSUME NEW m \in Messages, RunInsert(m) PROVE TypeOK'
  BY <1>2, InsertLemma DEF RunInsert, TypeOK
<1>3. ASSUME NEW m \in Messages, InsertFails(m) PROVE TypeOK'
  BY <1>3 DEF InsertFails, TypeOK
<1>4. ASSUME NEW m \in Messages, EnqueueReturns(m) PROVE TypeOK'
  BY <1>4 DEF EnqueueReturns, TypeOK
<1>5. ASSUME NEW m \in Messages, Answer(m) PROVE TypeOK'
  BY <1>5 DEF Answer, TypeOK
<1>6. ASSUME NEW m \in Messages, Cancel(m) PROVE TypeOK'
  BY <1>6 DEF Cancel, TypeOK
<1>7. ASSUME BeginConnect PROVE TypeOK'
  BY <1>7 DEF BeginConnect, TypeOK
<1>8. ASSUME ConnectOk PROVE TypeOK'
  BY <1>8 DEF ConnectOk, TypeOK
<1>9. ASSUME ConnectErr PROVE TypeOK'
  BY <1>9 DEF ConnectErr, TypeOK
<1>10. ASSUME ClaimRow PROVE TypeOK'
  BY <1>10 DEF ClaimRow, TypeOK, Databases
<1>11. ASSUME ClaimNone PROVE TypeOK'
  BY <1>11 DEF ClaimNone, TypeOK
<1>12. ASSUME ClaimErr PROVE TypeOK'
  BY <1>12 DEF ClaimErr, TypeOK
<1>13. ASSUME DrainComplete PROVE TypeOK'
  BY <1>13 DEF DrainComplete, TypeOK
<1>14. ASSUME Park PROVE TypeOK'
<2>1. wake' \in Nat
  <3>1. CASE \E r \in db.outbox : NextWakeup(db, sampled, r) /\ wake' = now + (r.next - sampled)
    <4>1. PICK r \in db.outbox : r.next > sampled /\ wake' = now + (r.next - sampled)
      BY <3>1 DEF NextWakeup, Backing
    <4>2. r.next \in Nat
      BY DEF TypeOK, Databases, Rows
    <4> QED
      BY <4>1, <4>2 DEF TypeOK
  <3>2. CASE wake' = now + IdleSleep
    BY <3>2 DEF TypeOK
  <3> QED
    BY <1>14, <3>1, <3>2 DEF Park
<2> QED
  BY <1>14, <2>1 DEF Park, TypeOK
<1>15. ASSUME ParkAfterError PROVE TypeOK'
  BY <1>15 DEF ParkAfterError, TypeOK
<1>16. ASSUME Notified PROVE TypeOK'
  BY <1>16 DEF Notified, TypeOK
<1>17. ASSUME SleepEnds PROVE TypeOK'
  BY <1>17 DEF SleepEnds, TypeOK, AfterWait, Waiting
<1>18. ASSUME ShutdownChanged PROVE TypeOK'
  BY <1>18 DEF ShutdownChanged, TypeOK, AfterWait, Waiting
<1>19. ASSUME SendRequest PROVE TypeOK'
<2>1. held \in Rows /\ Session \in Nat
  BY <1>19 DEF SendRequest, TypeOK, Session
<2>2. Request(held) \in Requests
  BY <2>1 DEF Request, Requests, Key, Rows
<2> QED
  BY <1>19, <2>2 DEF SendRequest, TypeOK
<1>20. ASSUME SinkOk PROVE TypeOK'
  BY <1>20 DEF SinkOk, TypeOK
<1>21. ASSUME SinkErr PROVE TypeOK'
<2>1. held \in Rows
  BY <1>21 DEF SinkErr, TypeOK
<2>2. held.msg \in Messages
  BY <2>1 DEF Rows
<2>3. fails' \in [Messages -> Nat]
  BY <1>21, <2>2 DEF SinkErr, CountFailure, TypeOK
<2> QED
  BY <1>21, <2>3 DEF SinkErr, TypeOK
<1>22. ASSUME MarkDelivered PROVE TypeOK'
  BY <1>22, RemoveLemma DEF MarkDelivered, TypeOK
<1>23. ASSUME RecordFailure PROVE TypeOK'
<2>1. held \in Rows /\ db \in Databases /\ sampled \in Nat
  BY <1>23 DEF RecordFailure, TypeOK
<2>2. held.attempts \in Nat
  BY <2>1 DEF Rows
<2>3. db' \in Databases
  <3>1. CASE Exhausted(held)
    BY <1>23, <3>1, <2>1, DeadLetterLemma DEF RecordFailure
  <3>2. CASE ~Exhausted(held)
    <4>1. held.attempts + 1 \in 1 .. MaxRetries
      BY <3>2, <2>2 DEF Exhausted
    <4> DEFINE n == held.attempts + 1
    <4>1a. Delay[n] \in Nat
      <5> HIDE DEF n
      <5>1. n \in 1 .. MaxRetries
        BY <4>1 DEF n
      <5> QED
        BY <5>1
    <4> DEFINE at == sampled + Delay[n]
    <4>2. n \in Nat /\ at \in Nat
      <5>1. n \in Nat
        BY <2>2
      <5> HIDE DEF n
      <5>2. at \in Nat
        BY <4>1a, <2>1
      <5> QED
        BY <5>1, <5>2
    <4>3. db' = Reschedule(db, held.id, n, at)
      BY <1>23, <3>2 DEF RecordFailure
    <4> HIDE DEF n, at
    <4> QED
      BY <4>2, <4>3, <2>1, RescheduleType
  <3> QED
    BY <3>1, <3>2
<2> QED
  BY <1>23, <2>3 DEF RecordFailure, TypeOK
<1>24. ASSUME StoreWriteErr PROVE TypeOK'
  BY <1>24 DEF StoreWriteErr, TypeOK
<1>25. ASSUME NEW q \in inflight, HomeserverHandles(q) PROVE TypeOK'
  BY <1>25 DEF HomeserverHandles, TypeOK
<1>26. ASSUME Signal PROVE TypeOK'
  BY <1>26 DEF Signal, TypeOK
<1>27. ASSUME Exit PROVE TypeOK'
  BY <1>27 DEF Exit, TypeOK, Down
<1>28. ASSUME Crash PROVE TypeOK'
  BY <1>28 DEF Crash, TypeOK, Down
<1>29. ASSUME Start PROVE TypeOK'
  BY <1>29 DEF Start, TypeOK
<1>30. ASSUME Tick PROVE TypeOK'
  BY <1>30 DEF Tick, TypeOK
<1>31. CASE UNCHANGED vars
  BY <1>31 DEF vars, TypeOK
<1> QED
  BY <1>1, <1>2, <1>3, <1>4, <1>5, <1>6, <1>7, <1>8, <1>9, <1>10, <1>11, <1>12, <1>13, <1>14, <1>15, <1>16, <1>17, <1>18, <1>19, <1>20, <1>21, <1>22, <1>23, <1>24, <1>25, <1>26, <1>27, <1>28, <1>29, <1>30, <1>31 DEF Next, SessionStep, WorkerStep

\* The state of the queue, the worker, the process and the network keeps its
\* type in every behaviour; the worker holds a row exactly while it delivers.
THEOREM TypeCorrect == Spec => []TypeOK
  BY InitType, NextType, PTL DEF Spec

-----------------------------------------------------------------------------
(***************************************************************************)
(* The inductive invariant.                                                *)
(***************************************************************************)
\* The empty database with which main starts satisfies the invariant.
LEMMA InitInv == Init => Inv
<1> SUFFICES ASSUME Init PROVE Inv
  OBVIOUS
<1>1. TypeOK
  BY InitType
<1>2. db.outbox = {} /\ db.dead = {} /\ inflight = {} /\ events = {}
  BY DEF Init, EmptyDb
<1>3. pc \notin Delivering /\ \A m \in Messages : sub[m] \notin Stored
  BY DEF Init, Delivering, Stored
<1> QED
  BY <1>1, <1>2, <1>3
  DEF Inv, NoLoss, OneHome, RowIds, RequestKeys, UnstoredIsUnknown, HeldIsLive,
      AttemptsCounted, DeadOnlyAfterRetries, InOutbox, InDead, Delivering

\* A step that leaves the tables and the network alone keeps the invariant if
\* no transaction changes between stored and not stored, no failure is
\* forgotten, and what the worker holds is still in the table.
LEMMA Frame ==
  ASSUME Inv, TypeOK', UNCHANGED <<db, inflight, events>>,
         \A m \in Messages : sub'[m] \in Stored <=> sub[m] \in Stored,
         \A m \in Messages : fails'[m] >= fails[m],
         pc' \in Delivering => held' \in db.outbox,
         pc' = "delivered" => Posted(held'.msg),
         pc' = "failed" => held'.attempts + 1 <= fails'[held'.msg]
  PROVE  Inv'
<1>1. \A m \in Messages : (InOutbox(m))' = InOutbox(m) /\ (InDead(m))' = InDead(m)
                         /\ (Posted(m))' = Posted(m)
  BY DEF InOutbox, InDead, Posted
<1>2. \A m \in Messages : sub[m] \in Unstored <=> sub[m] \notin Stored
  BY DEF Inv, TypeOK, Unstored, Stored
<1>3. \A m \in Messages : sub'[m] \in Unstored <=> sub'[m] \notin Stored
  BY DEF TypeOK, Unstored, Stored
<1>4. NoLoss' /\ UnstoredIsUnknown'
  BY <1>1, <1>2, <1>3 DEF Inv, NoLoss, UnstoredIsUnknown
<1>5. OneHome' /\ RowIds' /\ RequestKeys'
  BY <1>1 DEF Inv, OneHome, RowIds, RequestKeys
<1>6. HeldIsLive'
  BY DEF HeldIsLive, Posted
<1>7. \A m \in Messages : fails[m] \in Nat /\ fails'[m] \in Nat
  BY DEF Inv, TypeOK
<1>8. \A r \in db.outbox : r.msg \in Messages /\ r.attempts \in Nat
  BY DEF Inv, TypeOK, Databases, Rows
<1>9. AttemptsCounted'
  BY <1>7, <1>8 DEF Inv, AttemptsCounted
<1>10. DeadOnlyAfterRetries'
  BY <1>1, <1>7, RetryAssumption DEF Inv, DeadOnlyAfterRetries
<1> QED
  BY <1>4, <1>5, <1>6, <1>9, <1>10 DEF Inv

\* The steps Frame speaks of.
LEMMA QuietSteps ==
  ASSUME Inv, TypeOK',
         \/ \E m \in Messages : \/ Submit(m) \/ InsertFails(m) \/ EnqueueReturns(m)
                                \/ Answer(m) \/ Cancel(m)
         \/ BeginConnect \/ ConnectOk \/ ConnectErr \/ ClaimRow \/ ClaimNone \/ ClaimErr
         \/ DrainComplete \/ Park \/ ParkAfterError \/ Notified \/ SleepEnds \/ ShutdownChanged
         \/ SinkOk \/ SinkErr \/ StoreWriteErr
         \/ Signal \/ Exit \/ Crash \/ Start \/ Tick \/ UNCHANGED vars
  PROVE  Inv'
<1> USE DEF dbVars, workerVars, procVars, netVars, Fault
<1>T. TypeOK /\ HeldIsLive /\ AttemptsCounted /\ RequestKeys
  BY DEF Inv
<1>N. \A m \in Messages : fails[m] \in Nat
  BY <1>T DEF TypeOK
<1>1. CASE \E m \in Messages : \/ Submit(m) \/ InsertFails(m) \/ EnqueueReturns(m)
                              \/ Answer(m) \/ Cancel(m)
  <2>1. PICK m \in Messages : \/ Submit(m) \/ InsertFails(m) \/ EnqueueReturns(m)
                             \/ Answer(m) \/ Cancel(m)
    BY <1>1
  <2>2. UNCHANGED <<db, inflight, events, fails, pc, held>>
    BY <2>1 DEF Submit, InsertFails, EnqueueReturns, Answer, Cancel
  <2>3. \E v \in Unstored \cup Stored : sub' = [sub EXCEPT ![m] = v]
                                     /\ (v \in Stored <=> sub[m] \in Stored)
    BY <2>1 DEF Submit, InsertFails, EnqueueReturns, Answer, Cancel, Stored, Unstored
  <2>4. \A n \in Messages : sub'[n] \in Stored <=> sub[n] \in Stored
    BY <2>3, <1>T DEF TypeOK
  <2> QED
    BY <2>2, <2>4, <1>T, <1>N, Frame DEF HeldIsLive, AttemptsCounted
<1>2. CASE \/ BeginConnect \/ ConnectOk \/ ConnectErr \/ ClaimNone \/ ClaimErr
           \/ DrainComplete \/ Park \/ ParkAfterError \/ Notified \/ SleepEnds
           \/ ShutdownChanged \/ StoreWriteErr \/ Start
  <2>1. UNCHANGED <<db, inflight, events, fails, sub>> /\ pc' \notin Delivering
    BY <1>2 DEF BeginConnect, ConnectOk, ConnectErr, ClaimNone, ClaimErr, DrainComplete,
                Park, ParkAfterError, Notified, SleepEnds, ShutdownChanged, StoreWriteErr,
                Start, AfterWait, Waiting, Delivering
  <2>2. pc' # "delivered" /\ pc' # "failed"
    BY <2>1 DEF Delivering
  <2> QED
    BY <2>1, <2>2, <1>N, Frame
<1>3. CASE ClaimRow
  <2>1. UNCHANGED <<db, inflight, events, fails, sub>> /\ pc' = "sending" /\ held' \in db.outbox
    BY <1>3 DEF ClaimRow
  <2> QED
    BY <2>1, <1>N, Frame
<1>4. CASE SinkOk
  <2>1. UNCHANGED <<db, inflight, events, fails, sub, held>> /\ pc = "awaiting" /\ pc' = "delivered"
    BY <1>4 DEF SinkOk
  <2>2. held \in db.outbox
    BY <2>1, <1>T DEF HeldIsLive, Delivering
  <2>3. PICK e \in events : e.key = held.id
    BY <1>4 DEF SinkOk, Key
  <2>4. e.msg = held.msg
    BY <2>2, <2>3, <1>T DEF RequestKeys
  <2>5. Posted(held.msg)
    BY <2>4 DEF Posted
  <2> QED
    BY <2>1, <2>2, <2>5, <1>N, Frame
<1>5. CASE SinkErr
  <2>1. UNCHANGED <<db, inflight, events, sub, held>> /\ pc \in Delivering /\ pc' = "failed"
    BY <1>5 DEF SinkErr, Delivering
  <2>2. held \in db.outbox
    BY <2>1, <1>T DEF HeldIsLive
  <2>3. held.msg \in Messages /\ held.attempts \in Nat
    BY <2>2, <1>T DEF TypeOK, Databases, Rows
  <2>4. held.attempts <= MaxRetries /\ held.attempts <= fails[held.msg]
    BY <2>2, <1>T DEF AttemptsCounted
  <2>5. fails' = CountFailure(held.msg)
    BY <1>5 DEF SinkErr
  <2>6. \A m \in Messages : fails'[m] >= fails[m]
    BY <2>3, <2>5, <1>N, <1>T, RetryAssumption DEF CountFailure, TypeOK
  <2>7. held.attempts + 1 <= fails'[held.msg]
    BY <2>3, <2>4, <2>5, <1>N, <1>T, RetryAssumption DEF CountFailure, TypeOK
  <2> QED
    BY <2>1, <2>2, <2>6, <2>7, Frame
<1>6. CASE Exit \/ Crash
  <2>1. UNCHANGED <<db, inflight, events, fails>> /\ pc' = "off"
    BY <1>6 DEF Exit, Crash, Down
  <2>2. \A m \in Messages : sub'[m] \in Stored <=> sub[m] \in Stored
    BY <1>6 DEF Exit, Crash, Down, Stored
  <2> QED
    BY <2>1, <2>2, <1>N, Frame DEF Delivering
<1>7. CASE Signal \/ Tick \/ UNCHANGED vars
  <2>1. UNCHANGED <<db, inflight, events, fails, sub, pc, held>>
    BY <1>7 DEF Signal, Tick, vars
  <2> QED
    BY <2>1, <1>N, <1>T, Frame DEF HeldIsLive, AttemptsCounted
<1> QED
  BY <1>1, <1>2, <1>3, <1>4, <1>5, <1>6, <1>7

\* enqueue's insert: the new row's id is larger than any id in the table or in
\* a request, and its message is unknown to both.
LEMMA InsertStep ==
  ASSUME Inv, TypeOK', NEW m \in Messages, RunInsert(m)
  PROVE  Inv'
<1> DEFINE row == [id |-> db.seq + 1, msg |-> m, attempts |-> 0, next |-> 0]
<1>1. db \in Databases /\ db.seq \in Nat
  BY DEF Inv, TypeOK, Databases
<1>2. /\ db'.outbox = db.outbox \cup {row}
      /\ db'.seq = db.seq + 1
      /\ db'.dead = db.dead
  BY <1>1, InsertLemma DEF RunInsert
<1>3. /\ UNCHANGED <<inflight, events, fails, pc, held>>
      /\ sub[m] \in Unstored /\ sub'[m] \in Stored
      /\ \A n \in Messages \ {m} : sub'[n] = sub[n]
  BY DEF RunInsert, workerVars, netVars, Unstored, Stored, Inv, TypeOK
<1>4. row.id = db.seq + 1 /\ row.msg = m /\ row.attempts = 0
  OBVIOUS
<1>5. /\ \A r \in db.outbox : r.msg # m /\ r.id <= db.seq /\ r.id \in Nat
      /\ \A d \in db.dead : d.msg # m
      /\ \A q \in inflight \cup events : q.msg # m /\ q.key <= db.seq /\ q.key \in Nat
  BY <1>3 DEF Inv, UnstoredIsUnknown, RowIds, RequestKeys, InOutbox, InDead, TypeOK,
              Databases, Rows, Requests
<1> HIDE DEF row
<1>6. NoLoss'
  BY <1>2, <1>3, <1>4 DEF Inv, NoLoss, InOutbox, InDead, Posted
<1>7. OneHome'
  BY <1>2, <1>4, <1>5 DEF Inv, OneHome, InOutbox, InDead
<1>8. RowIds'
  BY <1>1, <1>2, <1>4, <1>5 DEF Inv, RowIds
<1>9. RequestKeys'
  BY <1>1, <1>2, <1>3, <1>4, <1>5 DEF Inv, RequestKeys
<1>10. UnstoredIsUnknown'
  <2>1. \A n \in Messages : sub'[n] \in Unstored => n # m /\ sub[n] \in Unstored
    BY <1>3 DEF Unstored, Stored
  <2> QED
    BY <2>1, <1>2, <1>3, <1>4 DEF Inv, UnstoredIsUnknown, InOutbox, InDead
<1>11. HeldIsLive'
  BY <1>2, <1>3 DEF Inv, HeldIsLive, Posted
<1>12. fails[m] \in Nat
  BY DEF Inv, TypeOK
<1>13. AttemptsCounted'
  BY <1>2, <1>3, <1>4, <1>12, RetryAssumption DEF Inv, AttemptsCounted
<1>14. DeadOnlyAfterRetries'
  BY <1>2, <1>3 DEF Inv, DeadOnlyAfterRetries, InDead
<1> QED
  BY <1>6, <1>7, <1>8, <1>9, <1>10, <1>11, <1>13, <1>14 DEF Inv

\* Requests: sending one adds the claimed row's key and message to those sent,
\* handling one moves it, or drops it as a repetition.
LEMMA NetworkSteps ==
  ASSUME Inv, TypeOK', SendRequest \/ \E q \in inflight : HomeserverHandles(q)
  PROVE  Inv'
<1> DEFINE sent == inflight \cup events
<1>1. UNCHANGED <<db, sub, fails, held>>
  BY DEF SendRequest, HomeserverHandles, dbVars, workerVars
<1>2. events \subseteq events'
  BY DEF SendRequest, HomeserverHandles
<1>3. \A m \in Messages : Posted(m) => (Posted(m))'
  BY <1>2 DEF Posted
<1>4. \/ sent' \subseteq sent
      \/ pc = "sending" /\ sent' = sent \cup {Request(held)}
  BY DEF SendRequest, HomeserverHandles
<1>5. pc = "sending" => /\ held \in db.outbox /\ held.msg \in Messages
                        /\ Request(held).key = held.id /\ Request(held).msg = held.msg
  BY DEF Inv, HeldIsLive, Delivering, Request, Key, TypeOK, Databases, Rows
<1>6. NoLoss' /\ OneHome' /\ RowIds' /\ DeadOnlyAfterRetries'
  BY <1>1, <1>3 DEF Inv, NoLoss, OneHome, RowIds, DeadOnlyAfterRetries, InOutbox, InDead
<1>7. RequestKeys'
  BY <1>1, <1>4, <1>5 DEF Inv, RequestKeys, RowIds
<1>8. UnstoredIsUnknown'
  BY <1>1, <1>4, <1>5 DEF Inv, UnstoredIsUnknown, InOutbox, InDead
<1>9. HeldIsLive' /\ AttemptsCounted'
  BY <1>1, <1>2 DEF Inv, HeldIsLive, AttemptsCounted, SendRequest, HomeserverHandles,
                    workerVars, Delivering, Posted
<1> QED
  BY <1>6, <1>7, <1>8, <1>9 DEF Inv

\* The worker is done with its row: the row was posted and goes, or it has
\* failed and is given up or comes back later.
LEMMA SettlingSteps ==
  ASSUME Inv, TypeOK', MarkDelivered \/ RecordFailure
  PROVE  Inv'
<1>1. /\ UNCHANGED <<sub, inflight, events, fails>>
      /\ pc \in {"delivered", "failed"} /\ pc' = "claim"
  BY DEF MarkDelivered, RecordFailure, netVars
<1>2. HeldIsLive' /\ (pc' # "failed")
  BY <1>1 DEF HeldIsLive, Delivering
<1>3. held \in db.outbox /\ db \in Databases
  BY <1>1 DEF Inv, HeldIsLive, TypeOK, Delivering
<1>4. held \in Rows /\ held.msg \in Messages /\ held.attempts \in Nat /\ held.id \in Nat
  BY <1>3 DEF Databases, Rows
<1>5. /\ \A r \in db.outbox : r.id = held.id \/ r.msg = held.msg => r = held
      /\ \A r, s \in db.outbox : r.id = s.id \/ r.msg = s.msg => r = s
      /\ \A r \in db.outbox : r.id <= db.seq
  BY <1>3 DEF Inv, RowIds
<1>6. \A m \in Messages : (Posted(m))' = Posted(m) /\ fails[m] \in Nat
  BY <1>1 DEF Posted, Inv, TypeOK
<1>7. sub[held.msg] \in Stored /\ ~InDead(held.msg)
  BY <1>3, <1>4 DEF Inv, UnstoredIsUnknown, OneHome, InOutbox, TypeOK, Unstored, Stored
<1>8. CASE MarkDelivered
  <2>1. db'.outbox = db.outbox \ {held} /\ db'.seq = db.seq /\ db'.dead = db.dead
    BY <1>3, <1>5, <1>8, RemoveLemma DEF MarkDelivered
  <2>2. Posted(held.msg)
    BY <1>8 DEF Inv, HeldIsLive, MarkDelivered
  <2>3. NoLoss'
    BY <2>1, <2>2, <1>1, <1>6 DEF Inv, NoLoss, InOutbox, InDead
  <2>4. OneHome' /\ RowIds' /\ RequestKeys' /\ UnstoredIsUnknown'
    BY <2>1, <1>1 DEF Inv, OneHome, RowIds, RequestKeys, UnstoredIsUnknown, InOutbox, InDead
  <2>5. AttemptsCounted' /\ DeadOnlyAfterRetries'
    BY <2>1, <1>1, <1>2 DEF Inv, AttemptsCounted, DeadOnlyAfterRetries, InDead
  <2> QED
    BY <2>3, <2>4, <2>5, <1>2 DEF Inv
<1>9. CASE RecordFailure /\ Exhausted(held)
  <2> DEFINE dead == [msg |-> held.msg, attempts |-> held.attempts]
  <2>1. /\ db'.outbox = db.outbox \ {held} /\ db'.seq = db.seq
        /\ db'.dead = db.dead \cup {dead}
    <3>1. db' = DeadLetter(db, held.id)
      BY <1>9 DEF RecordFailure
    <3>2. {s \in db.outbox : s.id = held.id} = {held}
      BY <1>3, <1>5
    <3> QED
      BY <3>1, <3>2, <1>3, <1>5, DeadLetterLemma
  <2>2. dead.msg = held.msg
    OBVIOUS
  <2> HIDE DEF dead
  <2>3. NoLoss'
    BY <2>1, <2>2, <1>1, <1>6 DEF Inv, NoLoss, InOutbox, InDead
  <2>4. OneHome'
    BY <2>1, <2>2, <1>5 DEF Inv, OneHome, InOutbox, InDead
  <2>5. RowIds' /\ RequestKeys'
    BY <2>1, <1>1 DEF Inv, RowIds, RequestKeys
  <2>6. UnstoredIsUnknown'
    <3>1. sub[held.msg] \notin Unstored
      BY <1>7 DEF Stored, Unstored
    <3> QED
      BY <3>1, <2>1, <2>2, <1>1 DEF Inv, UnstoredIsUnknown, InOutbox, InDead
  <2>7. AttemptsCounted'
    BY <2>1, <1>1, <1>2 DEF Inv, AttemptsCounted
  <2>8. fails[held.msg] >= MaxRetries + 1
    <3>1. held.attempts + 1 <= fails[held.msg] /\ held.attempts + 1 > MaxRetries
      BY <1>9 DEF Inv, AttemptsCounted, RecordFailure, Exhausted
    <3> QED
      BY <3>1, <1>4, <1>6, RetryAssumption
  <2>9. DeadOnlyAfterRetries'
    BY <2>1, <2>2, <2>8, <1>1 DEF Inv, DeadOnlyAfterRetries, InDead
  <2> QED
    BY <2>3, <2>4, <2>5, <2>6, <2>7, <2>9, <1>2 DEF Inv
<1>10. CASE RecordFailure /\ ~Exhausted(held)
  <2> DEFINE n == held.attempts + 1
             at == sampled + Delay[n]
             row == Updated(held, n, at)
  <2>1. n \in Nat /\ n <= MaxRetries /\ n <= fails[held.msg]
    BY <1>4, <1>10, RetryAssumption DEF Exhausted, Inv, AttemptsCounted, RecordFailure
  <2>2. at \in Nat
    <3>1. sampled \in Nat
      BY DEF Inv, TypeOK
    <3>2. n \in 1 .. MaxRetries
      BY <2>1, <1>4, RetryAssumption
    <3> HIDE DEF n
    <3>3. Delay[n] \in Nat
      BY <3>2, RetryAssumption
    <3> QED
      BY <3>1, <3>3
  <2>3. db' = Reschedule(db, held.id, n, at)
    BY <1>10 DEF RecordFailure
  <2>4. row.id = held.id /\ row.msg = held.msg /\ row.attempts = n
    BY <1>4 DEF Rows, Updated
  <2> HIDE DEF n, at, row
  <2> DEFINE new == Reschedule(db, held.id, n, at)
  <2>4a. new.seq = db.seq /\ new.dead = db.dead
    BY <1>3, RescheduleLemma
  <2>4b. \A s : s \in new.outbox <=>
          \/ s \in db.outbox /\ s.id # held.id
          \/ \E r \in db.outbox : r.id = held.id
                                /\ s = Updated(r, n, at)
    BY <1>3, RescheduleLemma
  <2>5. db'.seq = db.seq /\ db'.dead = db.dead
    BY <2>4a, <2>3
  <2>6. \A s : s \in db'.outbox <=> (s \in db.outbox /\ s # held) \/ s = row
    <3>1. \A s : s \in db'.outbox <=>
            \/ s \in db.outbox /\ s.id # held.id
            \/ \E r \in db.outbox : r.id = held.id
                                  /\ s = Updated(r, n, at)
      BY <2>4b, <2>3
    <3>2. \A r \in db.outbox : r.id = held.id <=> r = held
      BY <1>5
    <3> QED
      BY <3>1, <3>2, <1>3 DEF row
  <2>7. \A m \in Messages : (InOutbox(m))' = InOutbox(m) /\ (InDead(m))' = InDead(m)
    BY <2>4, <2>5, <2>6, <1>3 DEF InOutbox, InDead
  <2>8. NoLoss' /\ UnstoredIsUnknown' /\ DeadOnlyAfterRetries'
    BY <2>7, <1>1, <1>6 DEF Inv, NoLoss, UnstoredIsUnknown, DeadOnlyAfterRetries
  <2>9. RowIds'
    BY <2>4, <2>5, <2>6, <1>3, <1>5 DEF RowIds
  <2>10. OneHome'
    BY <2>7, <2>9 DEF Inv, OneHome, RowIds
  <2>11. RequestKeys'
    BY <2>4, <2>5, <2>6, <1>1, <1>3 DEF Inv, RequestKeys
  <2>12. AttemptsCounted'
    BY <2>1, <2>4, <2>6, <1>1, <1>2 DEF Inv, AttemptsCounted
  <2> QED
    BY <2>8, <2>9, <2>10, <2>11, <2>12, <1>2 DEF Inv
<1> QED
  BY <1>8, <1>9, <1>10

\* Every step keeps the invariant: the four kinds of steps above are all.
LEMMA NextInv == Inv /\ [Next]_vars => Inv'
<1> SUFFICES ASSUME Inv, [Next]_vars PROVE Inv'
  OBVIOUS
<1>1. TypeOK'
  BY NextType DEF Inv
<1> QED
  BY <1>1, QuietSteps, InsertStep, NetworkSteps, SettlingSteps DEF Next, SessionStep, WorkerStep

\* The inductive invariant holds in every behaviour.
THEOREM InvHolds == Spec => []Inv
  BY InitInv, NextInv, PTL DEF Spec

-----------------------------------------------------------------------------
(***************************************************************************)
(* What follows from it.                                                   *)
(***************************************************************************)
\* Ack-after-delivery: whatever crashes, errors and lost answers happen, a
\* message whose row was committed is in the outbox, in dead_letter or in the
\* room.
THEOREM NothingIsLost == Spec => []NoLoss
  BY InvHolds, PTL DEF Inv

\* One key per message: a lost answer never leads to a second post in the same
\* Matrix session.
THEOREM PostedOncePerSession == Spec => []OncePerSession
<1>1. Inv => OncePerSession
  <2> SUFFICES ASSUME Inv, NEW e \in events, NEW f \in events,
                      e.msg = f.msg, e.session = f.session
               PROVE  e = f
    BY DEF OncePerSession
  <2>1. e.key = f.key
    BY DEF Inv, RequestKeys
  <2>2. e \in Requests /\ f \in Requests
    BY DEF Inv, TypeOK
  <2> QED
    BY <2>1, <2>2 DEF Requests
<1> QED
  BY <1>1, InvHolds, PTL

\* No two messages share a transaction id, so the homeserver never takes one
\* for a repetition of the other.
THEOREM NoKeyCollision == Spec => []KeysNeverCollide
<1>1. Inv => KeysNeverCollide
  BY DEF Inv, KeysNeverCollide, RequestKeys
<1> QED
  BY <1>1, InvHolds, PTL

\* A message is dead-lettered only after max_retries + 1 failed deliveries.
THEOREM GivesUpOnlyWhenExhausted == Spec => []DeadOnlyAfterRetries
  BY InvHolds, PTL DEF Inv

\* A message the sender was refused (451) leaves nothing behind.
THEOREM RefusalIsClean == Spec => []RefusedLeavesNoTrace
<1>1. Inv => RefusedLeavesNoTrace
  BY DEF Inv, RefusedLeavesNoTrace, UnstoredIsUnknown, Unstored, Posted
<1> QED
  BY <1>1, InvHolds, PTL

\* With an access token every request belongs to one session.
OneSession == \A q \in inflight \cup events : q.session = 1

\* A login that lasts over restarts keeps the homeserver's memory: no crash and
\* no lost answer makes a message appear twice in the room (deliver_one).
THEOREM PostedOnceWithToken ==
  ASSUME FreshSession = FALSE
  PROVE  Spec => []NoDuplicatePosts
<1>1. Init => OneSession
  BY DEF Init, OneSession
<1>2. ASSUME OneSession, [Next]_vars PROVE OneSession'
  <2> USE DEF netVars
  <2>1. ASSUME SendRequest PROVE OneSession'
    BY <1>2, <2>1 DEF SendRequest, Request, Session, OneSession
  <2>2. ASSUME NEW q \in inflight, HomeserverHandles(q) PROVE OneSession'
    BY <1>2, <2>2 DEF HomeserverHandles, OneSession
  <2>3. ASSUME UNCHANGED <<inflight, events>> PROVE OneSession'
    BY <1>2, <2>3 DEF OneSession
  <2>4. ASSUME NEW m \in Messages, SessionStep(m) PROVE UNCHANGED <<inflight, events>>
    BY <2>4 DEF SessionStep, Submit, RunInsert, InsertFails, EnqueueReturns, Answer, Cancel
  <2>5. ASSUME WorkerStep, ~SendRequest PROVE UNCHANGED <<inflight, events>>
    BY <2>5 DEF WorkerStep, BeginConnect, ConnectOk, ConnectErr, ClaimRow, ClaimNone, ClaimErr,
                DrainComplete, Park, ParkAfterError, Notified, SleepEnds, ShutdownChanged,
                SinkOk, SinkErr, MarkDelivered, RecordFailure, StoreWriteErr
  <2>6. ASSUME Signal \/ Exit \/ Crash \/ Start \/ Tick \/ UNCHANGED vars
        PROVE  UNCHANGED <<inflight, events>>
    BY <2>6 DEF Signal, Exit, Crash, Down, Start, Tick, vars
  <2> QED
    BY <1>2, <2>1, <2>2, <2>3, <2>4, <2>5, <2>6 DEF Next
<1>3. OneSession /\ OncePerSession => NoDuplicatePosts
  BY DEF OneSession, OncePerSession, NoDuplicatePosts
<1> QED
  BY <1>1, <1>2, <1>3, PostedOncePerSession, PTL DEF Spec

-----------------------------------------------------------------------------
(***************************************************************************)
(* Delivery implements AtLeastOnce: every step of the queue, the worker    *)
(* and the process is a step of the promise, or invisible to it.           *)
(***************************************************************************)
\* With an empty database nothing is stored, pending, posted or dead.
LEMMA InitRefines == Init => Promise!Init
<1> SUFFICES ASSUME Init PROVE Promise!Init
  OBVIOUS
<1>1. db.outbox = {} /\ db.dead = {} /\ events = {}
  BY DEF Init, EmptyDb
<1>2. \A m \in Messages : sub[m] = "new"
  BY DEF Init
<1> QED
  BY <1>1, <1>2 DEF Promise!Init, StoredMessages, AckedMessages, PendingMessages,
       PostedMessages, DeadMessages, InOutbox, InDead, Posted, Stored

\* A step after which the tables, the room and the sets of stored and of
\* acknowledged messages are what they were is invisible to the promise.
LEMMA Invisible ==
  ASSUME UNCHANGED <<db, events>>,
         \A m \in Messages : /\ sub'[m] \in Stored <=> sub[m] \in Stored
                             /\ sub'[m] = "acked" <=> sub[m] = "acked"
  PROVE  UNCHANGED Promise!avars
  BY DEF Promise!avars, StoredMessages, AckedMessages, PendingMessages, PostedMessages,
         DeadMessages, InOutbox, InDead, Posted

\* The steps of the SMTP sessions: an insert stores, a 250 acknowledges.
LEMMA SessionRefines ==
  ASSUME Inv, NEW m \in Messages, SessionStep(m)
  PROVE  [Promise!Next]_(Promise!avars)
<1> USE DEF dbVars, netVars
<1>0. sub \in [Messages -> Unstored \cup Stored] /\ db \in Databases
  BY DEF Inv, TypeOK
<1>1. CASE Submit(m) \/ InsertFails(m) \/ EnqueueReturns(m) \/ Cancel(m)
  <2>1. UNCHANGED <<db, events>>
    BY <1>1 DEF Submit, InsertFails, EnqueueReturns, Cancel
  <2>2. \E v : /\ sub' = [sub EXCEPT ![m] = v]
               /\ v \in Stored <=> sub[m] \in Stored
               /\ v # "acked" /\ sub[m] # "acked"
    BY <1>1 DEF Submit, InsertFails, EnqueueReturns, Cancel, Stored
  <2> QED
    BY <2>1, <2>2, <1>0, Invisible
<1>2. CASE Answer(m) /\ sub[m] = "refused"
  <2>1. UNCHANGED <<db, events>> /\ sub' = [sub EXCEPT ![m] = "rejected"]
    BY <1>2 DEF Answer
  <2> QED
    BY <2>1, <1>0, <1>2, Invisible DEF Stored
<1>3. CASE Answer(m) /\ sub[m] = "notified"
  <2>1. UNCHANGED <<db, events>> /\ sub' = [sub EXCEPT ![m] = "acked"]
    BY <1>3 DEF Answer
  <2>2. /\ \A n \in Messages : sub'[n] \in Stored <=> sub[n] \in Stored
        /\ \A n \in Messages : sub'[n] = "acked" <=> (sub[n] = "acked" \/ n = m)
        /\ sub[m] \in Stored
    BY <2>1, <1>0, <1>3 DEF Stored
  <2>3. Promise!Ack(m)
    BY <2>1, <2>2 DEF Promise!Ack, StoredMessages, AckedMessages, PendingMessages,
         PostedMessages, DeadMessages, InOutbox, InDead, Posted
  <2> QED
    BY <2>3 DEF Promise!Next
<1>4. CASE RunInsert(m)
  <2> DEFINE row == [id |-> db.seq + 1, msg |-> m, attempts |-> 0, next |-> 0]
  <2>1. db'.outbox = db.outbox \cup {row} /\ db'.dead = db.dead /\ row.msg = m
    BY <1>0, <1>4, InsertLemma DEF RunInsert
  <2> HIDE DEF row
  <2>2. /\ sub[m] \notin Stored /\ UNCHANGED events
        /\ \A n \in Messages : sub'[n] \in Stored <=> (sub[n] \in Stored \/ n = m)
        /\ \A n \in Messages : sub'[n] = "acked" <=> sub[n] = "acked"
    BY <1>0, <1>4 DEF RunInsert, Stored
  <2>3. Promise!Store(m)
    BY <2>1, <2>2 DEF Promise!Store, StoredMessages, AckedMessages, PendingMessages,
         PostedMessages, DeadMessages, InOutbox, InDead, Posted
  <2> QED
    BY <2>3 DEF Promise!Next
<1> QED
  BY <1>1, <1>2, <1>3, <1>4 DEF SessionStep, Answer

\* The worker's steps: only the removal of a delivered row and the dead letter
\* are visible.
LEMMA WorkerRefines ==
  ASSUME Inv, WorkerStep
  PROVE  [Promise!Next]_(Promise!avars)
<1> USE DEF dbVars, netVars
<1>1. CASE \/ BeginConnect \/ ConnectOk \/ ConnectErr \/ ClaimRow \/ ClaimNone \/ ClaimErr
           \/ DrainComplete \/ Park \/ ParkAfterError \/ Notified \/ SleepEnds
           \/ ShutdownChanged \/ SendRequest \/ SinkOk \/ SinkErr \/ StoreWriteErr
  <2>1. UNCHANGED <<db, events, sub>>
    BY <1>1 DEF BeginConnect, ConnectOk, ConnectErr, ClaimRow, ClaimNone, ClaimErr,
                DrainComplete, Park, ParkAfterError, Notified, SleepEnds, ShutdownChanged,
                SendRequest, SinkOk, SinkErr, StoreWriteErr
  <2> QED
    BY <2>1, Invisible
<1>2. CASE MarkDelivered \/ RecordFailure
  <2>1. pc \in Delivering /\ UNCHANGED <<events, sub>>
    BY <1>2 DEF MarkDelivered, RecordFailure, Delivering
  <2>2. held \in db.outbox /\ db \in Databases
    BY <2>1 DEF Inv, HeldIsLive, TypeOK
  <2>3. held.msg \in Messages
    BY <2>2 DEF Databases, Rows
  <2>4. \A r \in db.outbox : r.id = held.id \/ r.msg = held.msg <=> r = held
    BY <2>2 DEF Inv, RowIds
  <2>5. CASE MarkDelivered
    <3>1. db'.outbox = {r \in db.outbox : r.id # held.id} /\ db'.dead = db.dead
      BY <2>2, <2>5, RemoveLemma DEF MarkDelivered
    <3>2. \A n \in Messages : (InOutbox(n))' <=> (InOutbox(n) /\ n # held.msg)
      BY <3>1, <2>2, <2>4 DEF InOutbox
    <3>3. Posted(held.msg) /\ InOutbox(held.msg)
      BY <2>5, <2>2 DEF MarkDelivered, Inv, HeldIsLive, InOutbox
    <3>4. Promise!Settle(held.msg)
      BY <3>1, <3>2, <3>3, <2>1, <2>3 DEF Promise!Settle, StoredMessages, AckedMessages,
           PendingMessages, PostedMessages, DeadMessages, InDead, Posted
    <3> QED
      BY <3>4, <2>3 DEF Promise!Next
  <2>6. CASE RecordFailure /\ Exhausted(held)
    <3>1. /\ db'.outbox = {r \in db.outbox : r.id # held.id}
          /\ db'.dead = db.dead \cup {[msg |-> r.msg, attempts |-> r.attempts] :
                                        r \in {s \in db.outbox : s.id = held.id}}
      BY <2>2, <2>6, DeadLetterLemma DEF RecordFailure
    <3>2. \A n \in Messages : (InOutbox(n))' <=> (InOutbox(n) /\ n # held.msg)
      BY <3>1, <2>2, <2>4 DEF InOutbox
    <3>3. \A n \in Messages : (InDead(n))' <=> (InDead(n) \/ n = held.msg)
      <4>1. {s \in db.outbox : s.id = held.id} = {held}
        BY <2>2, <2>4
      <4> DEFINE letter == [msg |-> held.msg, attempts |-> held.attempts]
      <4>2. db'.dead = db.dead \cup {letter}
        BY <3>1, <4>1
      <4>3. letter.msg = held.msg
        OBVIOUS
      <4> HIDE DEF letter
      <4> QED
        BY <4>2, <4>3 DEF InDead
    <3>4. InOutbox(held.msg)
      BY <2>2 DEF InOutbox
    <3>5. Promise!GiveUp(held.msg)
      BY <3>2, <3>3, <3>4, <2>1, <2>3 DEF Promise!GiveUp, StoredMessages, AckedMessages,
           PendingMessages, PostedMessages, DeadMessages, Posted
    <3> QED
      BY <3>5, <2>3 DEF Promise!Next
  <2>7. CASE RecordFailure /\ ~Exhausted(held)
    <3> DEFINE n == held.attempts + 1
               at == sampled + Delay[n]
    <3>1. db' = Reschedule(db, held.id, n, at)
      BY <2>7 DEF RecordFailure
    <3> HIDE DEF n, at
    <3>2. Updated(held, n, at).msg = held.msg
      BY <2>2 DEF Updated, Databases, Rows
    <3>3. /\ \A s : s \in db'.outbox <=>
               \/ s \in db.outbox /\ s.id # held.id
               \/ \E r \in db.outbox : r.id = held.id /\ s = Updated(r, n, at)
          /\ db'.dead = db.dead
      BY <3>1, <2>2, RescheduleLemma
    <3>4. \A m \in Messages : (InOutbox(m))' <=> InOutbox(m)
      BY <3>2, <3>3, <2>2, <2>4 DEF InOutbox
    <3>5. UNCHANGED Promise!avars
      BY <3>3, <3>4, <2>1 DEF Promise!avars, StoredMessages, AckedMessages, PendingMessages,
           PostedMessages, DeadMessages, InDead, Posted
    <3> QED
      BY <3>5
  <2> QED
    BY <1>2, <2>5, <2>6, <2>7
<1> QED
  BY <1>1, <1>2 DEF WorkerStep

\* The homeserver posts a message that is stored; the process comes and goes
\* unseen.
LEMMA OthersRefine ==
  ASSUME Inv,
         \/ \E q \in inflight : HomeserverHandles(q)
         \/ Signal \/ Exit \/ Crash \/ Start \/ Tick \/ UNCHANGED vars
  PROVE  [Promise!Next]_(Promise!avars)
<1> USE DEF dbVars, netVars
<1>1. CASE Signal \/ Start \/ Tick \/ UNCHANGED vars
  <2>1. UNCHANGED <<db, events, sub>>
    BY <1>1 DEF Signal, Start, Tick, vars
  <2> QED
    BY <2>1, Invisible
<1>2. CASE Exit \/ Crash
  <2>1. UNCHANGED <<db, events>>
    BY <1>2 DEF Exit, Crash, Down
  <2>2. \A m \in Messages : /\ sub'[m] \in Stored <=> sub[m] \in Stored
                            /\ sub'[m] = "acked" <=> sub[m] = "acked"
    BY <1>2 DEF Exit, Crash, Down, Stored
  <2> QED
    BY <2>1, <2>2, Invisible
<1>3. ASSUME NEW q \in inflight, HomeserverHandles(q)
      PROVE  [Promise!Next]_(Promise!avars)
  <2>1. UNCHANGED <<db, sub>> /\ (events' = events \/ events' = events \cup {q})
    BY <1>3 DEF HomeserverHandles
  <2>2. CASE events' = events
    BY <2>1, <2>2, Invisible
  <2>3. CASE events' = events \cup {q}
    <3>1. q.msg \in Messages
      BY DEF Inv, TypeOK, Requests
    <3>2. sub[q.msg] \in Stored
      BY <3>1 DEF Inv, UnstoredIsUnknown, TypeOK
    <3>3. \A m \in Messages : (Posted(m))' <=> (Posted(m) \/ m = q.msg)
      BY <2>3 DEF Posted
    <3>4. Promise!Post(q.msg)
      BY <2>1, <3>1, <3>2, <3>3 DEF Promise!Post, StoredMessages, AckedMessages,
           PendingMessages, PostedMessages, DeadMessages, InOutbox, InDead
    <3> QED
      BY <3>1, <3>4 DEF Promise!Next
  <2> QED
    BY <2>1, <2>2, <2>3
<1> QED
  BY <1>1, <1>2, <1>3

\* The queue, the worker and the process, with all their crashes, retries and
\* lost answers, implement the promise of AtLeastOnce.
THEOREM DeliveryKeepsPromise == Spec => KeepsPromise
<1>1. Inv /\ [Next]_vars => [Promise!Next]_(Promise!avars)
  BY SessionRefines, WorkerRefines, OthersRefine DEF Next
<1> QED
  BY <1>1, InitRefines, InvHolds, PTL DEF Spec, KeepsPromise, Promise!Spec
=============================================================================
