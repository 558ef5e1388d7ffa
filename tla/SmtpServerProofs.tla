-------------------------- MODULE SmtpServerProofs --------------------------
(***************************************************************************)
(* Theorems about SmtpServer for any number of connections, permits and    *)
(* transactions.                                                           *)
(***************************************************************************)
EXTENDS SmtpServer, FiniteSetTheorems, TLAPS

(***************************************************************************)
(* The inductive invariant.  Connection by connection, it follows the      *)
(* message under way from its envelope to the blocking pool, the outbox    *)
(* and the answer.                                                         *)
(***************************************************************************)
ActiveConns == {c \in Conns : st[c] \in Active}

\* The envelope held was given in the transaction under way; from 354 on it is
\* complete.
EnvelopeHeld ==
  \A c \in Conns :
    /\ from[c] \subseteq {txn[c]} /\ rcpts[c] \subseteq {txn[c]}
    /\ st[c] \in {"data", "storing", "stored", "unstored"} =>
         from[c] # {} /\ rcpts[c] # {} /\ txn[c] < MaxTxn

\* An insert not run yet is that of the message its session waits for, or
\* waited for when it was cut off.
PoolIsCurrent ==
  \A m \in pool : m = Mail(m.conn) /\ m.from = {m.txn} /\ m.rcpts = {m.txn}
                  /\ st[m.conn] \in {"storing", "closed"}

\* A stored message belongs to a transaction that is over, or its session is
\* about to say so, or was cut off.
StoredIsKnown ==
  \A m \in stored : \/ m.txn < txn[m.conn]
                    \/ m.txn = txn[m.conn] /\ st[m.conn] \in {"stored", "closed"}

\* The 250 about to be given is true.
StoredBeforeAnswer == \A c \in Conns : st[c] = "stored" => Mail(c) \in stored

RefusedIsOver == \A m \in refused : m.txn < txn[m.conn]

ServerInv ==
  /\ TypeOK /\ SlotsConserved /\ EnvelopeHeld /\ PoolIsCurrent /\ StoredIsKnown
  /\ StoredBeforeAnswer /\ RefusedIsOver /\ EnvelopeOfOneTransaction /\ AnswersAreTrue

\* What a session's message is (handle_connection).
LEMMA MailType ==
  ASSUME TypeOK, NEW c \in Conns
  PROVE  /\ Mail(c) \in Mails
         /\ Mail(c).conn = c /\ Mail(c).txn = txn[c]
         /\ Mail(c).from = from[c] /\ Mail(c).rcpts = rcpts[c]
BY DEF TypeOK, Mails, Mail

-----------------------------------------------------------------------------
(***************************************************************************)
(* Permits.                                                                *)
(***************************************************************************)
\* The live sessions can be counted (serve_smtp).
LEMMA ActiveFinite == IsFiniteSet(ActiveConns)
BY ServerAssumption, FS_Subset DEF ActiveConns

\* The same sessions are live after the step.
LEMMA SameSessions ==
  ASSUME SlotsConserved, slots' = slots, ActiveConns' = ActiveConns
  PROVE  SlotsConserved'
BY DEF SlotsConserved, ActiveConns

\* A permit goes with the session that took it (serve_smtp).
LEMMA SlotsStep == ASSUME TypeOK, SlotsConserved, [Next]_vars PROVE SlotsConserved'
<1> USE DEF Active, States
<1>1. ASSUME NEW c \in Conns, Accept(c) PROVE SlotsConserved'
  <2>1. CASE st'[c] = "command" /\ slots' = slots - 1
    <3>1. ActiveConns' = ActiveConns \cup {c} /\ c \notin ActiveConns
      BY <1>1, <2>1 DEF Accept, ActiveConns, TypeOK
    <3>2. Cardinality(ActiveConns') = Cardinality(ActiveConns) + 1
      BY <3>1, ActiveFinite, FS_AddElement
    <3>3. Cardinality(ActiveConns) \in Nat
      BY ActiveFinite, FS_CardinalityType
    <3> QED
      BY <2>1, <3>2, <3>3 DEF SlotsConserved, ActiveConns, TypeOK
  <2>2. CASE st'[c] = "turnedaway" /\ slots' = slots
    <3>1. ActiveConns' = ActiveConns
      BY <1>1, <2>2 DEF Accept, ActiveConns, TypeOK
    <3> QED
      BY <2>2, <3>1, SameSessions
  <2> QED
    BY <1>1, <2>1, <2>2 DEF Accept, TypeOK
<1>2. ASSUME NEW c \in Conns, Close(c) PROVE SlotsConserved'
  <2>1. ActiveConns' = ActiveConns \ {c} /\ c \in ActiveConns /\ slots' = slots + 1
    BY <1>2 DEF Close, ActiveConns, TypeOK
  <2>2. Cardinality(ActiveConns') = Cardinality(ActiveConns) - 1
    BY <2>1, ActiveFinite, FS_RemoveElement
  <2>3. Cardinality(ActiveConns) \in Nat
    BY ActiveFinite, FS_CardinalityType
  <2> QED
    BY <2>1, <2>2, <2>3 DEF SlotsConserved, ActiveConns, TypeOK
<1>3. ASSUME slots' = slots, \A c \in Conns : st'[c] \in Active <=> st[c] \in Active
      PROVE  SlotsConserved'
  BY <1>3, SameSessions DEF ActiveConns
<1>4. ASSUME NEW c \in Conns,
             MailFrom(c) \/ RcptTo(c) \/ Rset(c) \/ Data(c) \/ DataTooLarge(c) \/ DataEnd(c) \/ Answer(c)
      PROVE  SlotsConserved'
  <2>1. /\ slots' = slots
        /\ st' = st \/ (st[c] \in Active /\ \E s \in Active : st' = [st EXCEPT ![c] = s])
    BY <1>4 DEF MailFrom, RcptTo, Rset, Data, DataTooLarge, DataEnd, Answer
  <2> QED
    BY <2>1, <1>3 DEF TypeOK
<1>5. ASSUME NEW m \in pool, Insert(m) PROVE SlotsConserved'
  <2>1. /\ slots' = slots /\ m.conn \in Conns
        /\ \E s \in Active : st' = [st EXCEPT ![m.conn] = IF @ # "storing" THEN @ ELSE s]
    BY <1>5 DEF Insert, TypeOK, Mails
  <2> QED
    BY <2>1, <1>3 DEF TypeOK
<1>6. CASE Abort
  BY <1>6, <1>3 DEF Abort, sessionVars
<1>7. CASE UNCHANGED vars
  BY <1>7, <1>3 DEF vars
<1> QED
  BY <1>1, <1>2, <1>4, <1>5, <1>6, <1>7 DEF Next

-----------------------------------------------------------------------------
(***************************************************************************)
(* Envelopes, inserts and answers: one lemma per kind of step.             *)
(***************************************************************************)
MailInv ==
  /\ TypeOK /\ EnvelopeHeld /\ PoolIsCurrent /\ StoredIsKnown
  /\ StoredBeforeAnswer /\ RefusedIsOver /\ EnvelopeOfOneTransaction /\ AnswersAreTrue

\* A connection is accepted, turned away or cut off (serve_smtp).
LEMMA LifeStep ==
  ASSUME MailInv, NEW c \in Conns, Accept(c) \/ Close(c)
  PROVE  MailInv'
<1> USE DEF Active, States
<1>1. /\ UNCHANGED <<listening, from, rcpts, txn, pool, stored, acked, refused>>
      /\ slots' \in Nat
      /\ \E s \in {"command", "turnedaway", "closed"} :
           /\ st' = [st EXCEPT ![c] = s]
           /\ s = "closed" \/ st[c] = "none"
  BY DEF MailInv, TypeOK, Accept, Close, mailVars
<1>2. TypeOK'
  BY <1>1 DEF MailInv, TypeOK
<1>3. EnvelopeHeld'
  BY <1>1 DEF MailInv, TypeOK, EnvelopeHeld
<1>4. PoolIsCurrent' /\ StoredIsKnown'
  BY <1>1 DEF MailInv, TypeOK, PoolIsCurrent, StoredIsKnown, Mail, Mails
<1>5. StoredBeforeAnswer' /\ RefusedIsOver' /\ EnvelopeOfOneTransaction' /\ AnswersAreTrue'
  BY <1>1 DEF MailInv, TypeOK, StoredBeforeAnswer, RefusedIsOver, EnvelopeOfOneTransaction,
              AnswersAreTrue, Mail
<1> QED
  BY <1>2, <1>3, <1>4, <1>5 DEF MailInv

\* MAIL, RCPT and DATA (handle_connection).
LEMMA EnvelopeStep ==
  ASSUME MailInv, NEW c \in Conns, MailFrom(c) \/ RcptTo(c) \/ Data(c)
  PROVE  MailInv'
<1> USE DEF Active, States
<1>1. /\ UNCHANGED <<listening, slots, txn, pool, stored, acked, refused>>
      /\ st[c] = "command"
      /\ \/ from' = [from EXCEPT ![c] = {txn[c]}] /\ UNCHANGED <<rcpts, st>>
         \/ rcpts' = [rcpts EXCEPT ![c] = @ \cup {txn[c]}] /\ UNCHANGED <<from, st>>
         \/ /\ from[c] # {} /\ rcpts[c] # {} /\ txn[c] < MaxTxn
            /\ st' = [st EXCEPT ![c] = "data"] /\ UNCHANGED <<from, rcpts>>
  BY DEF MailFrom, RcptTo, Data, mailVars
<1>2. TypeOK'
  BY <1>1 DEF MailInv, TypeOK
<1>3. EnvelopeHeld'
  BY <1>1 DEF MailInv, TypeOK, EnvelopeHeld
<1>4. \A d \in Conns : d # c => st'[d] = st[d] /\ from'[d] = from[d] /\ rcpts'[d] = rcpts[d]
  BY <1>1 DEF MailInv, TypeOK
<1>5. st'[c] \in {"command", "data"}
  BY <1>1 DEF MailInv, TypeOK
<1>6. PoolIsCurrent'
  <2> SUFFICES ASSUME NEW m \in pool
               PROVE  /\ m = Mail(m.conn)' /\ m.from = {m.txn} /\ m.rcpts = {m.txn}
                      /\ st'[m.conn] \in {"storing", "closed"}
    BY <1>1 DEF PoolIsCurrent
  <2>1. m.conn \in Conns /\ m.conn # c
    BY <1>1 DEF MailInv, PoolIsCurrent, TypeOK, Mails
  <2>2. Mail(m.conn)' = Mail(m.conn)
    BY <1>1, <1>4, <2>1 DEF Mail
  <2> QED
    BY <1>4, <2>1, <2>2 DEF MailInv, PoolIsCurrent
<1>7. StoredIsKnown'
  BY <1>1, <1>4 DEF MailInv, StoredIsKnown, TypeOK, Mails
<1>8. StoredBeforeAnswer'
  BY <1>1, <1>4, <1>5 DEF MailInv, StoredBeforeAnswer, Mail
<1>9. RefusedIsOver' /\ EnvelopeOfOneTransaction' /\ AnswersAreTrue'
  BY <1>1 DEF MailInv, RefusedIsOver, EnvelopeOfOneTransaction, AnswersAreTrue
<1> QED
  BY <1>2, <1>3, <1>6, <1>7, <1>8, <1>9 DEF MailInv

\* The terminator was read and the insert begins (handle_connection, enqueue).
LEMMA DataEndStep ==
  ASSUME MailInv, NEW c \in Conns, DataEnd(c)
  PROVE  MailInv'
<1> USE DEF Active, States
<1>1. /\ UNCHANGED <<listening, slots, from, rcpts, txn, stored, acked, refused>>
      /\ st[c] = "data" /\ st' = [st EXCEPT ![c] = "storing"]
      /\ pool' = pool \cup {Mail(c)}
  BY DEF DataEnd
<1>m. /\ Mail(c) \in Mails
      /\ Mail(c).conn = c /\ Mail(c).txn = txn[c]
      /\ Mail(c).from = from[c] /\ Mail(c).rcpts = rcpts[c]
  BY MailType DEF MailInv
<1>2. TypeOK'
  BY <1>1, <1>m DEF MailInv, TypeOK
<1>3. EnvelopeHeld'
  BY <1>1 DEF MailInv, TypeOK, EnvelopeHeld
<1>4. \A d \in Conns : Mail(d)' = Mail(d)
  BY <1>1 DEF Mail
<1>5. from[c] = {txn[c]} /\ rcpts[c] = {txn[c]}
  BY <1>1 DEF MailInv, EnvelopeHeld
<1>6. PoolIsCurrent'
  <2> SUFFICES ASSUME NEW m \in pool'
               PROVE  /\ m = Mail(m.conn)' /\ m.from = {m.txn} /\ m.rcpts = {m.txn}
                      /\ st'[m.conn] \in {"storing", "closed"}
    BY DEF PoolIsCurrent
  <2>1. CASE m = Mail(c)
    BY <1>1, <1>m, <1>4, <1>5, <2>1 DEF MailInv, TypeOK
  <2>2. CASE m \in pool
    BY <1>1, <1>4, <2>2 DEF MailInv, PoolIsCurrent, TypeOK, Mails
  <2> QED
    BY <1>1, <2>1, <2>2
<1>7. StoredIsKnown'
  BY <1>1 DEF MailInv, StoredIsKnown, TypeOK, Mails
<1>8. StoredBeforeAnswer'
  BY <1>1, <1>4 DEF MailInv, StoredBeforeAnswer, TypeOK
<1>9. Mail(c) \notin refused
  BY <1>m DEF MailInv, RefusedIsOver, TypeOK
<1>10. RefusedIsOver' /\ EnvelopeOfOneTransaction' /\ AnswersAreTrue'
  BY <1>1, <1>9 DEF MailInv, RefusedIsOver, EnvelopeOfOneTransaction, AnswersAreTrue
<1> QED
  BY <1>2, <1>3, <1>6, <1>7, <1>8, <1>10 DEF MailInv

\* The insert runs, whether or not its session still waits (enqueue).
LEMMA InsertStep ==
  ASSUME MailInv, NEW m \in pool, Insert(m)
  PROVE  MailInv'
<1> USE DEF Active, States
<1>1. PICK ok \in BOOLEAN :
        /\ UNCHANGED <<listening, slots, from, rcpts, txn, acked, refused>>
        /\ pool' = pool \ {m}
        /\ stored' = IF ok THEN stored \cup {m} ELSE stored
        /\ st' = [st EXCEPT ![m.conn] =
                    IF @ # "storing" THEN @ ELSE IF ok THEN "stored" ELSE "unstored"]
  BY DEF Insert
<1>2. /\ m \in Mails /\ m.conn \in Conns /\ m = Mail(m.conn) /\ m.txn = txn[m.conn]
      /\ m.from = {m.txn} /\ m.rcpts = {m.txn} /\ st[m.conn] \in {"storing", "closed"}
  BY MailType DEF MailInv, TypeOK, PoolIsCurrent, Mails
<1>3. TypeOK'
  BY <1>1, <1>2 DEF MailInv, TypeOK
<1>4. EnvelopeHeld'
  BY <1>1, <1>2 DEF MailInv, TypeOK, EnvelopeHeld
<1>5. \A d \in Conns : Mail(d)' = Mail(d)
  BY <1>1 DEF Mail
<1>6. \A d \in Conns : d # m.conn => st'[d] = st[d]
  BY <1>1 DEF MailInv, TypeOK
<1>7. st[m.conn] = "closed" => st'[m.conn] = "closed"
  BY <1>1, <1>2 DEF MailInv, TypeOK
<1>8. st[m.conn] = "storing" => st'[m.conn] = IF ok THEN "stored" ELSE "unstored"
  BY <1>1, <1>2 DEF MailInv, TypeOK
<1>9. PoolIsCurrent'
  <2> SUFFICES ASSUME NEW n \in pool, n # m
               PROVE  /\ n = Mail(n.conn)' /\ n.from = {n.txn} /\ n.rcpts = {n.txn}
                      /\ st'[n.conn] \in {"storing", "closed"}
    BY <1>1 DEF PoolIsCurrent
  <2>1. /\ n.conn \in Conns /\ n = Mail(n.conn) /\ n.from = {n.txn} /\ n.rcpts = {n.txn}
        /\ st[n.conn] \in {"storing", "closed"}
    BY DEF MailInv, PoolIsCurrent, TypeOK, Mails
  <2>2. n.conn # m.conn
    BY <1>2, <2>1
  <2> QED
    BY <1>5, <1>6, <2>1, <2>2
<1>10. StoredIsKnown'
  <2> SUFFICES ASSUME NEW n \in stored'
               PROVE  \/ n.txn < txn[n.conn]
                      \/ n.txn = txn[n.conn] /\ st'[n.conn] \in {"stored", "closed"}
    BY <1>1 DEF StoredIsKnown
  <2>1. CASE n = m /\ ok
    BY <1>2, <1>7, <1>8, <2>1
  <2>2. CASE n \in stored
    <3>1. /\ n.conn \in Conns
          /\ \/ n.txn < txn[n.conn]
             \/ n.txn = txn[n.conn] /\ st[n.conn] \in {"stored", "closed"}
      BY <2>2 DEF MailInv, StoredIsKnown, TypeOK, Mails
    <3> QED
      BY <1>2, <1>6, <1>7, <3>1
  <2> QED
    BY <1>1, <2>1, <2>2
<1>11. StoredBeforeAnswer'
  <2> SUFFICES ASSUME NEW d \in Conns, st'[d] = "stored"
               PROVE  Mail(d) \in stored'
    BY <1>5 DEF StoredBeforeAnswer
  <2>1. CASE d = m.conn
    BY <1>1, <1>2, <1>7, <1>8, <2>1
  <2>2. CASE d # m.conn
    BY <1>1, <1>6, <2>2 DEF MailInv, StoredBeforeAnswer
  <2> QED
    BY <2>1, <2>2
<1>12. RefusedIsOver'
  BY <1>1 DEF MailInv, RefusedIsOver
<1>13. EnvelopeOfOneTransaction'
  BY <1>1, <1>2 DEF MailInv, EnvelopeOfOneTransaction
<1>14. AnswersAreTrue'
  BY <1>1 DEF MailInv, AnswersAreTrue
<1> QED
  BY <1>3, <1>4, <1>9, <1>10, <1>11, <1>12, <1>13, <1>14 DEF MailInv

\* RSET, 552, 250 and 451 end a transaction (handle_connection).
LEMMA OverStep ==
  ASSUME MailInv, NEW c \in Conns, Rset(c) \/ DataTooLarge(c) \/ Answer(c)
  PROVE  MailInv'
<1> USE DEF Active, States
<1>1. /\ UNCHANGED <<listening, slots, pool, stored>>
      /\ st[c] \in {"command", "data", "stored", "unstored"}
      /\ (st' = st /\ st[c] = "command") \/ st' = [st EXCEPT ![c] = "command"]
      /\ from' = [from EXCEPT ![c] = {}] /\ rcpts' = [rcpts EXCEPT ![c] = {}]
      /\ txn' = [txn EXCEPT ![c] = @ + 1]
  BY DEF Rset, DataTooLarge, Answer, Reset, TransactionOver, mailVars
<1>2. txn[c] < MaxTxn
  BY <1>1 DEF MailInv, EnvelopeHeld, Rset, DataTooLarge, Answer
<1>3. \/ UNCHANGED <<acked, refused>>
      \/ st[c] = "stored" /\ acked' = acked \cup {Mail(c)} /\ UNCHANGED refused
      \/ st[c] = "unstored" /\ refused' = refused \cup {Mail(c)} /\ UNCHANGED acked
  BY DEF Rset, DataTooLarge, Answer, mailVars
<1>m. /\ Mail(c) \in Mails
      /\ Mail(c).conn = c /\ Mail(c).txn = txn[c]
  BY MailType DEF MailInv
<1>t. txn \in [Conns -> 0 .. MaxTxn] /\ MaxTxn \in Nat
  BY ServerAssumption DEF MailInv, TypeOK
<1>4. TypeOK'
  <2>1. txn' \in [Conns -> 0 .. MaxTxn]
    BY <1>1, <1>2, <1>t
  <2> QED
    BY <1>1, <1>3, <1>m, <2>1 DEF MailInv, TypeOK
<1>5. st'[c] = "command" /\ txn'[c] = txn[c] + 1 /\ from'[c] = {} /\ rcpts'[c] = {}
  BY <1>1 DEF MailInv, TypeOK
<1>6. \A d \in Conns : d # c => /\ st'[d] = st[d] /\ txn'[d] = txn[d]
                                /\ from'[d] = from[d] /\ rcpts'[d] = rcpts[d]
  BY <1>1 DEF MailInv, TypeOK
<1>7. EnvelopeHeld'
  BY <1>5, <1>6 DEF MailInv, EnvelopeHeld
<1>8. \A n \in pool \cup stored \cup refused : n.conn \in Conns /\ n.txn \in Nat
  BY <1>t DEF MailInv, TypeOK, Mails
<1>9. PoolIsCurrent'
  <2> SUFFICES ASSUME NEW n \in pool
               PROVE  /\ n = Mail(n.conn)' /\ n.from = {n.txn} /\ n.rcpts = {n.txn}
                      /\ st'[n.conn] \in {"storing", "closed"}
    BY <1>1 DEF PoolIsCurrent
  <2>1. n.conn \in Conns /\ n.conn # c
    BY <1>1, <1>8 DEF MailInv, PoolIsCurrent
  <2>2. Mail(n.conn)' = Mail(n.conn)
    BY <1>6, <2>1 DEF Mail
  <2> QED
    BY <1>6, <2>1, <2>2 DEF MailInv, PoolIsCurrent
<1>10. StoredIsKnown'
  <2> SUFFICES ASSUME NEW n \in stored
               PROVE  \/ n.txn < txn'[n.conn]
                      \/ n.txn = txn'[n.conn] /\ st'[n.conn] \in {"stored", "closed"}
    BY <1>1 DEF StoredIsKnown
  <2>1. \/ n.txn < txn[n.conn]
        \/ n.txn = txn[n.conn] /\ st[n.conn] \in {"stored", "closed"}
    BY DEF MailInv, StoredIsKnown
  <2>2. n.conn \in Conns /\ n.txn \in Nat
    BY <1>8
  <2>3. CASE n.conn = c
    BY <1>5, <1>t, <2>1, <2>2, <2>3
  <2>4. CASE n.conn # c
    BY <1>6, <2>1, <2>2, <2>4
  <2> QED
    BY <2>3, <2>4
<1>11. StoredBeforeAnswer'
  <2> SUFFICES ASSUME NEW d \in Conns, st'[d] = "stored"
               PROVE  Mail(d)' \in stored
    BY <1>1 DEF StoredBeforeAnswer
  <2>1. d # c
    BY <1>5
  <2>2. Mail(d)' = Mail(d) /\ st[d] = "stored"
    BY <1>6, <2>1 DEF Mail
  <2> QED
    BY <2>2 DEF MailInv, StoredBeforeAnswer
<1>12. RefusedIsOver'
  <2> SUFFICES ASSUME NEW n \in refused'
               PROVE  n.txn < txn'[n.conn]
    BY DEF RefusedIsOver
  <2>1. CASE n \in refused
    <3>1. n.conn \in Conns /\ n.txn \in Nat /\ n.txn < txn[n.conn]
      BY <1>8, <2>1 DEF MailInv, RefusedIsOver
    <3>2. txn'[n.conn] = txn[n.conn] \/ txn'[n.conn] = txn[n.conn] + 1
      BY <1>5, <1>6, <3>1
    <3> QED
      BY <1>t, <3>1, <3>2
  <2>2. CASE n = Mail(c)
    BY <1>5, <1>m, <1>t, <2>2
  <2> QED
    BY <1>3, <2>1, <2>2
<1>13. EnvelopeOfOneTransaction'
  BY <1>1 DEF MailInv, EnvelopeOfOneTransaction
<1>14. AnswersAreTrue'
  <2>1. st[c] = "stored" => Mail(c) \in stored
    BY DEF MailInv, StoredBeforeAnswer
  <2>2. ASSUME st[c] = "unstored" PROVE Mail(c) \notin stored \cup pool
    <3>1. Mail(c) \notin pool
      BY <1>m, <2>2 DEF MailInv, PoolIsCurrent
    <3>2. ~(txn[c] < txn[c])
      BY <1>t
    <3>3. Mail(c) \notin stored
      BY <1>m, <2>2, <3>2 DEF MailInv, StoredIsKnown
    <3> QED
      BY <3>1, <3>3
  <2> QED
    BY <1>1, <1>3, <2>1, <2>2 DEF MailInv, AnswersAreTrue
<1> QED
  BY <1>4, <1>7, <1>9, <1>10, <1>11, <1>12, <1>13, <1>14 DEF MailInv

\* Aborting the accept loop leaves the sessions alone (main, serve_smtp).
LEMMA QuietStep ==
  ASSUME MailInv, Abort \/ UNCHANGED vars
  PROVE  MailInv'
<1>1. /\ UNCHANGED <<slots, st, from, rcpts, txn, pool, stored, acked, refused>>
      /\ listening' \in BOOLEAN
  BY DEF Abort, vars, sessionVars, mailVars, MailInv, TypeOK
<1>2. TypeOK' /\ EnvelopeHeld'
  BY <1>1 DEF MailInv, TypeOK, EnvelopeHeld
<1>3. PoolIsCurrent' /\ StoredIsKnown' /\ StoredBeforeAnswer'
  BY <1>1 DEF MailInv, PoolIsCurrent, StoredIsKnown, StoredBeforeAnswer, Mail
<1>4. RefusedIsOver' /\ EnvelopeOfOneTransaction' /\ AnswersAreTrue'
  BY <1>1 DEF MailInv, RefusedIsOver, EnvelopeOfOneTransaction, AnswersAreTrue
<1> QED
  BY <1>2, <1>3, <1>4 DEF MailInv

-----------------------------------------------------------------------------
\* The server starts with all permits and no sessions (serve_smtp).
LEMMA InitServerInv == Init => ServerInv
<1> SUFFICES ASSUME Init PROVE ServerInv
  OBVIOUS
<1>1. TypeOK
  BY ServerAssumption DEF Init, TypeOK, States
<1>2. SlotsConserved
  <2>1. {c \in Conns : st[c] \in Active} = {}
    BY DEF Init, Active
  <2> QED
    BY <2>1, FS_EmptySet, ServerAssumption DEF SlotsConserved, Init
<1>3. EnvelopeHeld /\ PoolIsCurrent /\ StoredIsKnown
  BY DEF Init, EnvelopeHeld, PoolIsCurrent, StoredIsKnown
<1>4. StoredBeforeAnswer /\ RefusedIsOver /\ EnvelopeOfOneTransaction /\ AnswersAreTrue
  BY DEF Init, StoredBeforeAnswer, RefusedIsOver, EnvelopeOfOneTransaction, AnswersAreTrue
<1> QED
  BY <1>1, <1>2, <1>3, <1>4 DEF ServerInv

\* Permits, sessions, inserts and answers are consistent in every reachable
\* state (serve_smtp, handle_connection).
THEOREM ServerInvHolds == Spec => []ServerInv
<1>1. ASSUME ServerInv, [Next]_vars PROVE ServerInv'
  <2>1. MailInv
    BY <1>1 DEF ServerInv, MailInv
  <2>2. SlotsConserved'
    BY <1>1, SlotsStep DEF ServerInv
  <2>3. MailInv'
    BY <1>1, <2>1, LifeStep, EnvelopeStep, DataEndStep, InsertStep, OverStep, QuietStep DEF Next
  <2> QED
    BY <2>2, <2>3 DEF ServerInv, MailInv
<1> QED
  BY InitServerInv, <1>1, PTL DEF Spec

\* No permit is lost or handed out twice, for any number of connections and
\* however their sessions end (serve_smtp).
THEOREM PermitsAreConserved == Spec => []SlotsConserved
<1>1. ServerInv => SlotsConserved
  BY DEF ServerInv
<1> QED
  BY ServerInvHolds, <1>1, PTL

\* No insert that comes late contradicts a 250 or a 451, even one whose session
\* was cut off (handle_connection, enqueue).
THEOREM AnswersStayTrue == Spec => []AnswersAreTrue
<1>1. ServerInv => AnswersAreTrue
  BY DEF ServerInv
<1> QED
  BY ServerInvHolds, <1>1, PTL

\* No address leaks from one transaction of a connection into the message of
\* another (handle_connection).
THEOREM EnvelopesAreUnmixed == Spec => []EnvelopeOfOneTransaction
<1>1. ServerInv => EnvelopeOfOneTransaction
  BY DEF ServerInv
<1> QED
  BY ServerInvHolds, <1>1, PTL
=============================================================================
