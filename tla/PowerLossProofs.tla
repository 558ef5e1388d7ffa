--------------------------- MODULE PowerLossProofs --------------------------
(***************************************************************************)
(* Theorems about PowerLoss, for every set of messages and all parameters, *)
(* with a new Matrix session per start (password login): what survives     *)
(* when a power loss takes back every commit since the last flush.         *)
(*                                                                         *)
(* Neither NoLoss nor RequestKeys of Delivery is true here: unflushed rows *)
(* are lost, and their ids are given out again.  What takes their place is *)
(* said of one session, and of both databases, the one the process sees    *)
(* and the one on the disk.                                                *)
(***************************************************************************)
EXTENDS PowerLoss, DeliveryProofs

Sent == inflight \cup events

\* What every database the store leaves behind satisfies, given the stations s
\* of the transactions and the failures f counted so far: ids come from the
\* counter, an id and a message name one row, and no row claims more failures
\* than there were, or speaks of a message that was never stored.
Sound(d, s, f) ==
  /\ \A r \in d.outbox : r.id <= d.seq
  /\ \A r, t \in d.outbox : r.id = t.id \/ r.msg = t.msg => r = t
  /\ \A r \in d.outbox :
       r.attempts <= MaxRetries /\ r.attempts <= f[r.msg] /\ s[r.msg] \in Stored
  /\ \A x \in d.dead : f[x.msg] >= MaxRetries + 1 /\ s[x.msg] \in Stored

\* The transaction ids of one session stand for one message each.
SessionKeys ==
  /\ \A q \in Sent : q.session <= starts /\ sub[q.msg] \in Stored
  /\ \A p, q \in Sent : p.session = q.session => (p.key = q.key <=> p.msg = q.msg)

\* Those of the session under way are ids of the table, past or present.
KeysAreIds ==
  proc = "up" =>
    \A q \in Sent : q.session = starts =>
      q.key <= db.seq /\ \A r \in db.outbox : q.key = r.id <=> q.msg = r.msg

FailureCounted == pc = "failed" => held.attempts + 1 <= fails[held.msg]

PowerInv ==
  /\ TypeOK /\ flushed \in Databases
  /\ Sound(db, sub, fails) /\ Sound(flushed, sub, fails)
  /\ SessionKeys /\ KeysAreIds /\ HeldIsLive /\ FailureCounted /\ FlushedNeverLost

-----------------------------------------------------------------------------
\* A sound database stays sound as transactions and failures go on.
LEMMA StaysSound ==
  ASSUME NEW d \in Databases, NEW s, NEW t,
         NEW f \in [Messages -> Nat], NEW g \in [Messages -> Nat], Sound(d, s, f),
         \A m \in Messages : s[m] \in Stored => t[m] \in Stored,
         \A m \in Messages : g[m] >= f[m]
  PROVE  Sound(d, t, g)
<1>1. /\ \A r \in d.outbox : r.msg \in Messages /\ r.attempts \in Nat
      /\ \A x \in d.dead : x.msg \in Messages
  BY DEF Databases, Rows, DeadRows
<1>2. \A m \in Messages : f[m] \in Nat /\ g[m] \in Nat
  OBVIOUS
<1>3. /\ \A r \in d.outbox : r.id <= d.seq
      /\ \A r, u \in d.outbox : r.id = u.id \/ r.msg = u.msg => r = u
  BY DEF Sound
<1>4. ASSUME NEW r \in d.outbox
      PROVE  r.attempts <= MaxRetries /\ r.attempts <= g[r.msg] /\ t[r.msg] \in Stored
  <2>1. /\ r.attempts <= MaxRetries /\ r.attempts <= f[r.msg] /\ s[r.msg] \in Stored
        /\ r.msg \in Messages /\ r.attempts \in Nat
    BY <1>1 DEF Sound
  <2>2. g[r.msg] >= f[r.msg] /\ g[r.msg] \in Nat /\ f[r.msg] \in Nat
    BY <1>2, <2>1
  <2> QED
    BY <2>1, <2>2
<1>5. ASSUME NEW x \in d.dead
      PROVE  g[x.msg] >= MaxRetries + 1 /\ t[x.msg] \in Stored
  <2>1. f[x.msg] >= MaxRetries + 1 /\ s[x.msg] \in Stored /\ x.msg \in Messages
    BY <1>1 DEF Sound
  <2>2. g[x.msg] >= f[x.msg] /\ g[x.msg] \in Nat /\ f[x.msg] \in Nat
    BY <1>2, <2>1
  <2> QED
    BY <2>1, <2>2, RetryAssumption
<1> QED
  BY <1>3, <1>4, <1>5 DEF Sound

\* A step that leaves the tables and the network alone (the counterpart of
\* Frame).
LEMMA PowerFrame ==
  ASSUME PowerInv, TypeOK', UNCHANGED <<db, flushed, inflight, events, starts>>,
         proc' = "up" => proc = "up",
         \A m \in Messages : sub[m] \in Stored => sub'[m] \in Stored,
         \A m \in Messages : fails'[m] >= fails[m],
         pc' \in Delivering => held' \in db.outbox,
         pc' = "delivered" => Posted(held'.msg),
         FailureCounted'
  PROVE  PowerInv'
<1>1. /\ db \in Databases /\ flushed \in Databases
      /\ fails \in [Messages -> Nat] /\ fails' \in [Messages -> Nat]
      /\ \A q \in Sent : q.msg \in Messages
  BY DEF PowerInv, TypeOK, Sent, Requests
<1>2. Sound(db, sub', fails') /\ Sound(flushed, sub', fails')
  BY <1>1, StaysSound DEF PowerInv
<1>3. Sound(db, sub, fails)' /\ Sound(flushed, sub, fails)'
  BY <1>2
<1>4. Sent' = Sent
  BY DEF Sent
<1>5. SessionKeys' /\ KeysAreIds'
  BY <1>1, <1>4 DEF PowerInv, SessionKeys, KeysAreIds
<1>6. HeldIsLive' /\ FlushedNeverLost'
  BY DEF PowerInv, HeldIsLive, FlushedNeverLost, InOutbox, InDead, Posted
<1> QED
  BY <1>1, <1>3, <1>5, <1>6 DEF PowerInv

\* The steps PowerFrame speaks of, apart from the worker's (handle_connection,
\* main).
LEMMA QuietProcessSteps ==
  ASSUME PowerInv, TypeOK', flushed' = flushed,
         \/ \E m \in Messages : \/ Submit(m) \/ InsertFails(m) \/ EnqueueReturns(m)
                                \/ Answer(m) \/ Cancel(m)
         \/ Signal \/ Exit \/ Crash \/ Tick \/ UNCHANGED vars
  PROVE  PowerInv'
<1> USE DEF dbVars, workerVars, procVars, netVars, Fault
<1>T. TypeOK /\ HeldIsLive /\ FailureCounted
  BY DEF PowerInv
<1>N. \A m \in Messages : fails[m] \in Nat
  BY <1>T DEF TypeOK
<1>1. CASE \E m \in Messages : \/ Submit(m) \/ InsertFails(m) \/ EnqueueReturns(m)
                              \/ Answer(m) \/ Cancel(m)
  <2>1. PICK m \in Messages : \/ Submit(m) \/ InsertFails(m) \/ EnqueueReturns(m)
                             \/ Answer(m) \/ Cancel(m)
    BY <1>1
  <2>2. UNCHANGED <<db, inflight, events, fails, pc, held, proc, starts>>
    BY <2>1 DEF Submit, InsertFails, EnqueueReturns, Answer, Cancel
  <2>3. \E v \in Unstored \cup Stored : sub' = [sub EXCEPT ![m] = v]
                                     /\ (sub[m] \in Stored => v \in Stored)
    BY <2>1 DEF Submit, InsertFails, EnqueueReturns, Answer, Cancel, Stored, Unstored
  <2>4. \A n \in Messages : sub[n] \in Stored => sub'[n] \in Stored
    BY <2>3, <1>T DEF TypeOK
  <2> QED
    BY <2>2, <2>4, <1>T, <1>N, PowerFrame DEF HeldIsLive, FailureCounted
<1>2. CASE Exit \/ Crash
  <2>1. UNCHANGED <<db, inflight, events, fails, starts>> /\ pc' = "off" /\ proc' # "up"
    BY <1>2 DEF Exit, Crash, Down
  <2>2. \A m \in Messages : sub[m] \in Stored => sub'[m] \in Stored
    BY <1>2 DEF Exit, Crash, Down, Stored
  <2> QED
    BY <2>1, <2>2, <1>N, PowerFrame DEF Delivering, FailureCounted
<1>3. CASE Signal \/ Tick \/ UNCHANGED vars
  <2>1. UNCHANGED <<db, inflight, events, fails, sub, pc, held, proc, starts>>
    BY <1>3 DEF Signal, Tick, vars
  <2> QED
    BY <2>1, <1>N, <1>T, PowerFrame DEF HeldIsLive, FailureCounted
<1> QED
  BY <1>1, <1>2, <1>3

\* The worker's steps that write nothing.  An answer of the homeserver is an
\* answer to this message, because its session's ids name one message each
\* (run, deliver_one).
LEMMA QuietWorkerSteps ==
  ASSUME FreshSession, PowerInv, TypeOK', flushed' = flushed,
         \/ BeginConnect \/ ConnectOk \/ ConnectErr \/ ClaimRow \/ ClaimNone \/ ClaimErr
         \/ DrainComplete \/ Park \/ ParkAfterError \/ Notified \/ SleepEnds \/ ShutdownChanged
         \/ SinkOk \/ SinkErr \/ StoreWriteErr
  PROVE  PowerInv'
<1> USE DEF dbVars, workerVars, procVars, netVars, Fault
<1>T. TypeOK /\ HeldIsLive /\ FailureCounted /\ Sound(db, sub, fails)
  BY DEF PowerInv
<1>N. \A m \in Messages : fails[m] \in Nat
  BY <1>T DEF TypeOK
<1>1. CASE \/ BeginConnect \/ ConnectOk \/ ConnectErr \/ ClaimNone \/ ClaimErr
           \/ DrainComplete \/ Park \/ ParkAfterError \/ Notified \/ SleepEnds
           \/ ShutdownChanged \/ StoreWriteErr
  <2>1. UNCHANGED <<db, inflight, events, fails, sub, proc, starts>> /\ pc' \notin Delivering
    BY <1>1 DEF BeginConnect, ConnectOk, ConnectErr, ClaimNone, ClaimErr, DrainComplete,
                Park, ParkAfterError, Notified, SleepEnds, ShutdownChanged, StoreWriteErr,
                AfterWait, Waiting, Delivering
  <2>2. pc' # "delivered" /\ pc' # "failed"
    BY <2>1 DEF Delivering
  <2> QED
    BY <2>1, <2>2, <1>N, PowerFrame DEF FailureCounted
<1>2. CASE ClaimRow
  <2>1. /\ UNCHANGED <<db, inflight, events, fails, sub, proc, starts>>
        /\ pc' = "sending" /\ held' \in db.outbox
    BY <1>2 DEF ClaimRow
  <2> QED
    BY <2>1, <1>N, PowerFrame DEF FailureCounted
<1>3. CASE SinkOk
  <2>1. /\ UNCHANGED <<db, inflight, events, fails, sub, held, proc, starts>>
        /\ pc = "awaiting" /\ pc' = "delivered"
    BY <1>3 DEF SinkOk
  <2>2. held \in db.outbox /\ proc = "up"
    BY <2>1, <1>T DEF HeldIsLive, Delivering, TypeOK
  <2>3. PICK e \in events : e.session = starts /\ e.key = held.id
    BY <1>3 DEF SinkOk, Key, Session
  <2>4. e.msg = held.msg
    BY <2>2, <2>3 DEF PowerInv, KeysAreIds, Sent
  <2>5. Posted(held.msg)
    BY <2>4 DEF Posted
  <2> QED
    BY <2>1, <2>2, <2>5, <1>N, PowerFrame DEF FailureCounted
<1>4. CASE SinkErr
  <2>1. /\ UNCHANGED <<db, inflight, events, sub, held, proc, starts>>
        /\ pc \in Delivering /\ pc' = "failed"
    BY <1>4 DEF SinkErr, Delivering
  <2>2. held \in db.outbox
    BY <2>1, <1>T DEF HeldIsLive
  <2>3. held.msg \in Messages /\ held.attempts \in Nat
    BY <2>2, <1>T DEF TypeOK, Databases, Rows
  <2>4. held.attempts <= MaxRetries /\ held.attempts <= fails[held.msg]
    BY <2>2, <1>T DEF Sound
  <2>5. fails' = CountFailure(held.msg)
    BY <1>4 DEF SinkErr
  <2>6. \A m \in Messages : fails'[m] >= fails[m]
    BY <2>3, <2>5, <1>N, <1>T, RetryAssumption DEF CountFailure, TypeOK
  <2>7. held.attempts + 1 <= fails'[held.msg]
    BY <2>3, <2>4, <2>5, <1>N, <1>T, RetryAssumption DEF CountFailure, TypeOK
  <2> QED
    BY <2>1, <2>2, <2>6, <2>7, PowerFrame DEF FailureCounted
<1> QED
  BY <1>1, <1>2, <1>3, <1>4

\* A start begins a session in which nothing was sent yet (connect).
LEMMA StartStep ==
  ASSUME PowerInv, TypeOK', flushed' = flushed, Start
  PROVE  PowerInv'
<1>1. /\ UNCHANGED <<db, sub, fails, inflight, events>> /\ starts' = starts + 1
      /\ pc' = "top" /\ starts \in Nat
  BY DEF Start, dbVars, netVars, PowerInv, TypeOK
<1>2. Sent' = Sent /\ \A q \in Sent : q.session \in Nat /\ q.session <= starts
  BY <1>1 DEF Sent, PowerInv, SessionKeys, TypeOK, Requests
<1>3. SessionKeys' /\ KeysAreIds'
  BY <1>1, <1>2 DEF PowerInv, SessionKeys, KeysAreIds
<1>4. HeldIsLive' /\ FailureCounted' /\ FlushedNeverLost'
  BY <1>1 DEF PowerInv, HeldIsLive, FailureCounted, Delivering, FlushedNeverLost, InOutbox,
              InDead, Posted
<1>5. flushed' \in Databases /\ Sound(db, sub, fails)' /\ Sound(flushed, sub, fails)'
  BY <1>1 DEF PowerInv
<1> QED
  BY <1>3, <1>4, <1>5 DEF PowerInv

\* The insert: an id that is new to the table and to the session, though
\* perhaps not to the homeserver (enqueue).
LEMMA PowerInsertStep ==
  ASSUME PowerInv, TypeOK', flushed' = flushed, NEW m \in Messages, RunInsert(m)
  PROVE  PowerInv'
<1> DEFINE row == [id |-> db.seq + 1, msg |-> m, attempts |-> 0, next |-> 0]
<1>1. /\ db \in Databases /\ db.seq \in Nat /\ flushed \in Databases
      /\ fails \in [Messages -> Nat] /\ fails[m] \in Nat
  BY DEF PowerInv, TypeOK, Databases
<1>2. /\ db'.outbox = db.outbox \cup {row}
      /\ db'.seq = db.seq + 1
      /\ db'.dead = db.dead
  BY <1>1, InsertLemma DEF RunInsert
<1>3. /\ UNCHANGED <<inflight, events, fails, pc, held, proc, starts>>
      /\ sub[m] \notin Stored /\ sub'[m] \in Stored
      /\ \A n \in Messages : sub[n] \in Stored => sub'[n] \in Stored
  BY DEF RunInsert, workerVars, netVars, procVars, Stored, PowerInv, TypeOK
<1>4. row.id = db.seq + 1 /\ row.msg = m /\ row.attempts = 0
  OBVIOUS
<1>5. /\ \A r \in db.outbox : r.msg # m /\ r.id <= db.seq /\ r.id \in Nat
      /\ \A q \in Sent : q.msg # m /\ q.msg \in Messages /\ q.key \in Nat
  BY <1>3 DEF PowerInv, Sound, SessionKeys, TypeOK, Databases, Rows, Requests, Sent
<1> HIDE DEF row
<1>6. Sound(db, sub', fails) /\ Sound(flushed, sub', fails)
  BY <1>1, <1>3, StaysSound DEF PowerInv
<1>7. Sound(db', sub', fails)
  BY <1>1, <1>2, <1>3, <1>4, <1>5, <1>6, RetryAssumption DEF Sound
<1>8. Sent' = Sent
  BY <1>3 DEF Sent
<1>9. SessionKeys'
  BY <1>3, <1>5, <1>8 DEF PowerInv, SessionKeys
<1>10. KeysAreIds'
  <2> SUFFICES ASSUME proc = "up", NEW q \in Sent, q.session = starts
               PROVE  q.key <= db'.seq /\ \A r \in db'.outbox : q.key = r.id <=> q.msg = r.msg
    BY <1>3, <1>8 DEF KeysAreIds
  <2>1. q.key <= db.seq /\ \A r \in db.outbox : q.key = r.id <=> q.msg = r.msg
    BY DEF PowerInv, KeysAreIds
  <2> QED
    BY <1>1, <1>2, <1>4, <1>5, <2>1
<1>11. HeldIsLive' /\ FailureCounted' /\ FlushedNeverLost'
  BY <1>2, <1>3 DEF PowerInv, HeldIsLive, FailureCounted, FlushedNeverLost, InOutbox, InDead,
                    Posted
<1>12. Sound(db, sub, fails)' /\ Sound(flushed, sub, fails)' /\ flushed' \in Databases
  BY <1>1, <1>3, <1>6, <1>7
<1> QED
  BY <1>9, <1>10, <1>11, <1>12 DEF PowerInv

\* A request carries the id and the message of a row of this session; handling
\* one moves it, or drops it as a repetition (send_message).
LEMMA PowerNetworkSteps ==
  ASSUME FreshSession, PowerInv, TypeOK', flushed' = flushed,
         SendRequest \/ \E q \in inflight : HomeserverHandles(q)
  PROVE  PowerInv'
<1> DEFINE new == Request(held)
<1>1. UNCHANGED <<db, sub, fails, held, proc, starts>>
  BY DEF SendRequest, HomeserverHandles, dbVars, workerVars, procVars
<1>2. events \subseteq events'
  BY DEF SendRequest, HomeserverHandles
<1>3. \/ Sent' \subseteq Sent
      \/ pc = "sending" /\ Sent' = Sent \cup {new}
  BY DEF SendRequest, HomeserverHandles, Sent
<1>4. pc = "sending" =>
        /\ held \in db.outbox /\ proc = "up"
        /\ new.session = starts /\ new.key = held.id /\ new.msg = held.msg
  BY DEF PowerInv, HeldIsLive, Delivering, Request, Key, Session, TypeOK
<1>5. /\ starts \in Nat
      /\ \A r \in db.outbox : r.id <= db.seq /\ sub[r.msg] \in Stored
      /\ \A r, t \in db.outbox : r.id = t.id \/ r.msg = t.msg => r = t
  BY DEF PowerInv, TypeOK, Sound
<1> HIDE DEF new
<1>6. ASSUME Sent' \subseteq Sent PROVE SessionKeys' /\ KeysAreIds'
  BY <1>1, <1>6 DEF PowerInv, SessionKeys, KeysAreIds
<1>7. ASSUME pc = "sending", Sent' = Sent \cup {new} PROVE SessionKeys' /\ KeysAreIds'
  <2>1. /\ held \in db.outbox /\ proc = "up"
        /\ new.session = starts /\ new.key = held.id /\ new.msg = held.msg
    BY <1>4, <1>7
  <2>2. \A q \in Sent : q.session = starts => (q.key = held.id <=> q.msg = held.msg)
    BY <2>1 DEF PowerInv, KeysAreIds
  <2>3. SessionKeys'
    BY <1>1, <1>5, <1>7, <2>1, <2>2 DEF PowerInv, SessionKeys
  <2>4. KeysAreIds'
    BY <1>1, <1>5, <1>7, <2>1 DEF PowerInv, KeysAreIds
  <2> QED
    BY <2>3, <2>4
<1>8. SessionKeys' /\ KeysAreIds'
  BY <1>3, <1>6, <1>7
<1>9. HeldIsLive' /\ FailureCounted' /\ FlushedNeverLost'
  BY <1>1, <1>2 DEF PowerInv, HeldIsLive, FailureCounted, FlushedNeverLost, InOutbox, InDead,
                    Posted, SendRequest, HomeserverHandles, workerVars, Delivering
<1>10. flushed' \in Databases /\ Sound(db, sub, fails)' /\ Sound(flushed, sub, fails)'
  BY <1>1 DEF PowerInv
<1> QED
  BY <1>8, <1>9, <1>10 DEF PowerInv

\* The worker is done with its row: it goes because it is in the room, moves to
\* dead_letter, or comes back later (mark_delivered, handle_failure).
LEMMA PowerSettlingSteps ==
  ASSUME PowerInv, TypeOK', flushed' = flushed, MarkDelivered \/ RecordFailure
  PROVE  PowerInv'
<1>1. /\ UNCHANGED <<sub, inflight, events, fails, proc, starts>>
      /\ pc \in {"delivered", "failed"} /\ pc' = "claim"
  BY DEF MarkDelivered, RecordFailure, netVars, procVars
<1>2. HeldIsLive' /\ FailureCounted' /\ Sent' = Sent
  BY <1>1 DEF HeldIsLive, Delivering, FailureCounted, Sent
<1>3. held \in db.outbox /\ db \in Databases /\ flushed \in Databases
  BY <1>1 DEF PowerInv, HeldIsLive, TypeOK, Delivering
<1>4. held \in Rows /\ held.msg \in Messages /\ held.attempts \in Nat /\ held.id \in Nat
  BY <1>3 DEF Databases, Rows
<1>5. /\ Sound(db, sub, fails)
      /\ \A r \in db.outbox : r.id = held.id \/ r.msg = held.msg => r = held
      /\ fails[held.msg] \in Nat /\ sub[held.msg] \in Stored
  BY <1>3, <1>4 DEF PowerInv, Sound, TypeOK
<1>6. flushed' \in Databases /\ Sound(flushed, sub, fails)' /\ SessionKeys'
  BY <1>1, <1>2 DEF PowerInv, SessionKeys
<1>7. \A m : (Posted(m))' = Posted(m)
  BY <1>1 DEF Posted
<1>8. CASE MarkDelivered
  <2>1. db'.outbox = db.outbox \ {held} /\ db'.seq = db.seq /\ db'.dead = db.dead
    BY <1>3, <1>5, <1>8, RemoveLemma DEF MarkDelivered
  <2>2. Posted(held.msg)
    BY <1>8 DEF PowerInv, HeldIsLive, MarkDelivered
  <2>3. FlushedNeverLost'
    BY <2>1, <2>2, <1>7 DEF PowerInv, FlushedNeverLost, InOutbox, InDead
  <2>4. Sound(db, sub, fails)' /\ KeysAreIds'
    BY <2>1, <1>1, <1>2, <1>5 DEF PowerInv, Sound, KeysAreIds
  <2> QED
    BY <2>3, <2>4, <1>2, <1>6 DEF PowerInv
<1>9. CASE RecordFailure /\ Exhausted(held)
  <2> DEFINE dead == [msg |-> held.msg, attempts |-> held.attempts]
  <2>1. /\ db'.outbox = db.outbox \ {held} /\ db'.seq = db.seq
        /\ db'.dead = db.dead \cup {dead}
    <3>1. db' = DeadLetter(db, held.id)
      BY <1>9 DEF RecordFailure
    <3>2. {s \in db.outbox : s.id = held.id} = {held}
      BY <1>3, <1>5
    <3> QED
      BY <3>1, <3>2, <1>3, <1>5, DeadLetterLemma
  <2>2. dead.msg = held.msg
    OBVIOUS
  <2> HIDE DEF dead
  <2>3. FlushedNeverLost'
    BY <2>1, <2>2, <1>7 DEF PowerInv, FlushedNeverLost, InOutbox, InDead
  <2>4. fails[held.msg] >= MaxRetries + 1
    <3>1. held.attempts + 1 <= fails[held.msg] /\ held.attempts + 1 > MaxRetries
      BY <1>9 DEF PowerInv, FailureCounted, RecordFailure, Exhausted
    <3> QED
      BY <3>1, <1>4, <1>5, RetryAssumption
  <2>5. Sound(db, sub, fails)'
    BY <2>1, <2>2, <2>4, <1>1, <1>5 DEF Sound
  <2>6. KeysAreIds'
    BY <2>1, <1>1, <1>2 DEF PowerInv, KeysAreIds
  <2> QED
    BY <2>3, <2>5, <2>6, <1>2, <1>6 DEF PowerInv
<1>10. CASE RecordFailure /\ ~Exhausted(held)
  <2> DEFINE n == held.attempts + 1
             at == sampled + Delay[n]
             row == Updated(held, n, at)
             new == Reschedule(db, held.id, n, at)
  <2>1. n \in Nat /\ n <= MaxRetries /\ n <= fails[held.msg]
    BY <1>4, <1>10, RetryAssumption DEF Exhausted, PowerInv, FailureCounted, RecordFailure
  <2>2. db' = new
    BY <1>10 DEF RecordFailure
  <2>3. row.id = held.id /\ row.msg = held.msg /\ row.attempts = n
    BY <1>4 DEF Rows, Updated
  <2> HIDE DEF n, at
  <2>4. new.seq = db.seq /\ new.dead = db.dead
    BY <1>3, RescheduleLemma
  <2>5. \A s : s \in new.outbox <=>
          \/ s \in db.outbox /\ s.id # held.id
          \/ \E r \in db.outbox : r.id = held.id /\ s = Updated(r, n, at)
    BY <1>3, RescheduleLemma
  <2> HIDE DEF row
  <2>6. db'.seq = db.seq /\ db'.dead = db.dead
    BY <2>2, <2>4
  <2>7. \A s : s \in db'.outbox <=> (s \in db.outbox /\ s # held) \/ s = row
    <3>1. \A r \in db.outbox : r.id = held.id <=> r = held
      BY <1>5
    <3> HIDE DEF new
    <3> QED
      BY <2>2, <2>5, <3>1, <1>3 DEF row
  <2>8. \A m : (InOutbox(m))' = InOutbox(m) /\ (InDead(m))' = InDead(m)
    BY <2>3, <2>6, <2>7, <1>3 DEF InOutbox, InDead
  <2>9. FlushedNeverLost'
    BY <2>8, <1>7 DEF PowerInv, FlushedNeverLost
  <2>10. Sound(db, sub, fails)'
    BY <2>1, <2>3, <2>6, <2>7, <1>1, <1>3, <1>5 DEF Sound
  <2>11. KeysAreIds'
    BY <2>3, <2>6, <2>7, <1>1, <1>2, <1>3 DEF PowerInv, KeysAreIds
  <2> QED
    BY <2>9, <2>10, <2>11, <1>2, <1>6 DEF PowerInv
<1> QED
  BY <1>8, <1>9, <1>10

\* What a flush writes is sound, and all of it is in the table (SCHEMA).
LEMMA FlushStep ==
  ASSUME PowerInv, Flush
  PROVE  PowerInv'
<1>1. flushed' = db /\ UNCHANGED vars
  BY DEF Flush
<1>2. /\ UNCHANGED <<db, permit, sub, pc, held, sampled, wake, proc, shutdown, seen>>
      /\ UNCHANGED <<starts, inflight, events, now, faults, fails>>
  BY <1>1 DEF vars
<1>3. TypeOK' /\ flushed' \in Databases
  BY <1>1, <1>2 DEF PowerInv, TypeOK
<1>4. Sound(db, sub, fails)' /\ Sound(flushed, sub, fails)'
  BY <1>1, <1>2 DEF PowerInv
<1>5. SessionKeys' /\ KeysAreIds' /\ HeldIsLive' /\ FailureCounted'
  BY <1>2 DEF PowerInv, SessionKeys, KeysAreIds, HeldIsLive, FailureCounted, Posted, Sent
<1>6. FlushedNeverLost'
  BY <1>1, <1>2 DEF FlushedNeverLost, InOutbox
<1> QED
  BY <1>3, <1>4, <1>5, <1>6 DEF PowerInv

\* After a power loss the process sees what is on the disk, the session is over
\* and nothing is held.
LEMMA PowerFailsStep ==
  ASSUME PowerInv, PowerFails
  PROVE  PowerInv'
<1>1. /\ db' = flushed /\ flushed' = flushed /\ proc' = "crashed"
      /\ pc' = "off" /\ held' = NoRow /\ sampled' = 0 /\ wake' = 0
      /\ permit' = FALSE /\ shutdown' = FALSE /\ seen' = FALSE
      /\ UNCHANGED <<starts, inflight, events, fails, now, faults>>
  BY DEF PowerFails, Down, NextIteration, netVars
<1>2. /\ sub' \in [Messages -> Unstored \cup Stored]
      /\ \A m \in Messages : sub[m] \in Stored => sub'[m] \in Stored
  BY DEF PowerFails, Down, PowerInv, TypeOK, Stored, Unstored
<1>3. held' \in Rows \cup {NoRow} /\ (held' \in Rows <=> pc' \in Delivering) /\ pc' \in PcValues
  BY <1>1, NoRowAssumption DEF Delivering, PcValues
<1>4. TypeOK'
  BY <1>1, <1>2, <1>3 DEF PowerInv, TypeOK
<1>5. flushed \in Databases /\ fails \in [Messages -> Nat] /\ \A q \in Sent : q.msg \in Messages
  BY DEF PowerInv, TypeOK, Sent, Requests
<1>6. Sound(flushed, sub', fails)
  BY <1>2, <1>5, StaysSound DEF PowerInv
<1>7. flushed' \in Databases /\ Sound(db, sub, fails)' /\ Sound(flushed, sub, fails)'
  BY <1>1, <1>5, <1>6
<1>8. SessionKeys' /\ KeysAreIds'
  BY <1>1, <1>2, <1>5 DEF PowerInv, SessionKeys, KeysAreIds, Sent
<1>9. HeldIsLive' /\ FailureCounted' /\ FlushedNeverLost'
  BY <1>1 DEF HeldIsLive, FailureCounted, Delivering, FlushedNeverLost, InOutbox
<1> QED
  BY <1>4, <1>7, <1>8, <1>9 DEF PowerInv

-----------------------------------------------------------------------------
\* The machine starts with an empty database, on the disk as well (open).
LEMMA InitPowerInv == PInit => PowerInv
<1> SUFFICES ASSUME PInit PROVE PowerInv
  OBVIOUS
<1>1. TypeOK
  BY InitType DEF PInit
<1>2. flushed = db /\ db.outbox = {} /\ db.dead = {} /\ Sent = {} /\ pc = "top"
  BY DEF PInit, Init, EmptyDb, Sent
<1> QED
  BY <1>1, <1>2 DEF PowerInv, TypeOK, Sound, SessionKeys, KeysAreIds, HeldIsLive, Delivering,
                    FailureCounted, FlushedNeverLost

\* The invariant holds in every behaviour of the machine that loses power
\* (SCHEMA, deliver_one, connect).
THEOREM PowerInvHolds ==
  ASSUME FreshSession
  PROVE  PSpec => []PowerInv
<1>1. ASSUME PowerInv, [PNext]_<<vars, flushed>> PROVE PowerInv'
  <2>1. ASSUME Next \/ UNCHANGED vars, flushed' = flushed PROVE PowerInv'
    <3>1. TypeOK'
      BY <1>1, <2>1, NextType DEF PowerInv
    <3> QED
      BY <1>1, <2>1, <3>1, QuietProcessSteps, QuietWorkerSteps, StartStep, PowerInsertStep,
         PowerNetworkSteps, PowerSettlingSteps DEF Next, SessionStep, WorkerStep
  <2> QED
    BY <1>1, <2>1, FlushStep, PowerFailsStep DEF PNext
<1> QED
  BY InitPowerInv, <1>1, PTL DEF PSpec

\* With a new Matrix session per start, a message whose row has reached the disk
\* once is never lost again, whatever a power loss takes back: removals, retry
\* counts, other rows and the id counter (SCHEMA, deliver_one).
THEOREM WhatReachedTheDiskIsSafe ==
  ASSUME FreshSession
  PROVE  PSpec => []FlushedNeverLost
<1>1. PowerInv => FlushedNeverLost
  BY DEF PowerInv
<1> QED
  BY <1>1, PowerInvHolds, PTL

\* Ids are given out again after a power loss, but never within a session: the
\* homeserver takes no message for a repetition of another (deliver_one).
THEOREM KeysSurvivePowerLoss ==
  ASSUME FreshSession
  PROVE  PSpec => []KeysNeverCollide
<1>1. PowerInv => KeysNeverCollide
  BY DEF PowerInv, KeysNeverCollide, SessionKeys, Sent
<1> QED
  BY <1>1, PowerInvHolds, PTL

\* A message that is sent again because its removal was taken back appears at
\* most once per session (deliver_one).
THEOREM OncePerSessionAfterPowerLoss ==
  ASSUME FreshSession
  PROVE  PSpec => []OncePerSession
<1>1. PowerInv => OncePerSession
  <2> SUFFICES ASSUME PowerInv, NEW e \in events, NEW f \in events,
                      e.msg = f.msg, e.session = f.session
               PROVE  e = f
    BY DEF OncePerSession
  <2>1. e.key = f.key
    BY DEF PowerInv, SessionKeys, Sent
  <2>2. e \in Requests /\ f \in Requests
    BY DEF PowerInv, TypeOK
  <2> QED
    BY <2>1, <2>2 DEF Requests
<1> QED
  BY <1>1, PowerInvHolds, PTL

\* Taking back retry counts never makes the worker give up early
\* (handle_failure).
THEOREM GivesUpLateAfterPowerLoss ==
  ASSUME FreshSession
  PROVE  PSpec => []DeadOnlyAfterRetries
<1>1. PowerInv => DeadOnlyAfterRetries
  BY DEF PowerInv, DeadOnlyAfterRetries, InDead, Sound
<1> QED
  BY <1>1, PowerInvHolds, PTL
=============================================================================
