----------------------------- MODULE SmtpServer -----------------------------
(***************************************************************************)
(* smtp/server.rs: the accept loop with its connection limit, and the      *)
(* sessions it spawns, each a command loop over one connection.  A session *)
(* hands the insert of its message to the blocking pool and waits for it;  *)
(* it may end at any await, and its permit goes with it.                   *)
(*                                                                         *)
(* An address stands for the transaction in which the client gave it: the  *)
(* number of transactions of its connection that were over by then.        *)
(*                                                                         *)
(* HELO, EHLO, NOOP, unknown commands, empty lines, malformed MAIL and     *)
(* RCPT, and DATA out of sequence are answered and change nothing.         *)
(***************************************************************************)
EXTENDS Integers, FiniteSets

CONSTANTS
  Conns,            \* the connections clients open
  MaxConnections,   \* smtp.max_connections
  MaxTxn            \* bound: transactions per connection

ASSUME ServerAssumption ==
  /\ IsFiniteSet(Conns) /\ MaxConnections \in Nat \ {0} /\ MaxTxn \in Nat

VARIABLES
  listening,  \* the accept loop has not been aborted
  slots,      \* permits left in connection_limiter
  st,         \* where each session is
  from,       \* the sender given: empty, or the transaction it was given in
  rcpts,      \* the transactions in which the recipients held were given
  txn,        \* history: transactions over, by an answer that ended them
  pool,       \* inserts handed to the blocking pool
  stored,     \* messages in the outbox
  acked,      \* messages answered with 250
  refused     \* messages answered with 451

vars == <<listening, slots, st, from, rcpts, txn, pool, stored, acked, refused>>
sessionVars == <<st, from, rcpts, txn>>
mailVars == <<pool, stored, acked, refused>>

States == {"none", "turnedaway", "command", "data", "storing", "stored", "unstored", "closed"}
Active == {"command", "data", "storing", "stored", "unstored"}

Mails == [conn : Conns, txn : 0 .. MaxTxn, from : SUBSET (0 .. MaxTxn), rcpts : SUBSET (0 .. MaxTxn)]

Mail(c) == [conn |-> c, txn |-> txn[c], from |-> from[c], rcpts |-> rcpts[c]]

Init ==
  /\ listening = TRUE /\ slots = MaxConnections
  /\ st = [c \in Conns |-> "none"]
  /\ from = [c \in Conns |-> {}] /\ rcpts = [c \in Conns |-> {}]
  /\ txn = [c \in Conns |-> 0]
  /\ pool = {} /\ stored = {} /\ acked = {} /\ refused = {}

-----------------------------------------------------------------------------
(***************************************************************************)
(* serve_smtp.                                                             *)
(***************************************************************************)
\* A permit is taken, or the connection is turned away with 421.
Accept(c) ==
  /\ listening /\ st[c] = "none"
  /\ \/ /\ slots > 0
        /\ slots' = slots - 1
        /\ st' = [st EXCEPT ![c] = "command"]
     \/ /\ slots = 0
        /\ st' = [st EXCEPT ![c] = "turnedaway"]
        /\ UNCHANGED slots
  /\ UNCHANGED <<listening, from, rcpts, txn, mailVars>>

\* A plausible defect: the permit is lost when a session is cut off while its
\* message is being stored.
CloseLeaking(c) ==
  /\ st[c] \in Active
  /\ st' = [st EXCEPT ![c] = "closed"]
  /\ slots' = IF st[c] = "storing" THEN slots ELSE slots + 1
  /\ UNCHANGED <<listening, from, rcpts, txn, mailVars>>

\* QUIT, the end of the stream, a line that is too long or not UTF-8, a read
\* timeout, an incomplete message, a failed write, or the session deadline:
\* handle_connection ends or is dropped, and the permit with it.
Close(c) ==
  /\ st[c] \in Active
  /\ st' = [st EXCEPT ![c] = "closed"]
  /\ slots' = slots + 1
  /\ UNCHANGED <<listening, from, rcpts, txn, mailVars>>

\* main aborts the task of serve_smtp; the tasks it spawned are detached.
Abort ==
  /\ listening
  /\ listening' = FALSE
  /\ UNCHANGED <<slots, sessionVars, mailVars>>

-----------------------------------------------------------------------------
(***************************************************************************)
(* handle_connection.                                                      *)
(***************************************************************************)
MailFrom(c) ==
  /\ st[c] = "command"
  /\ from' = [from EXCEPT ![c] = {txn[c]}]
  /\ UNCHANGED <<listening, slots, st, rcpts, txn, mailVars>>

RcptTo(c) ==
  /\ st[c] = "command"
  /\ rcpts' = [rcpts EXCEPT ![c] = @ \cup {txn[c]}]
  /\ UNCHANGED <<listening, slots, st, from, txn, mailVars>>

\* A plausible defect: only the sender is forgotten.
ResetSender(c) == from' = [from EXCEPT ![c] = {}] /\ UNCHANGED rcpts

\* from = None; recipients.clear().
Reset(c) == from' = [from EXCEPT ![c] = {}] /\ rcpts' = [rcpts EXCEPT ![c] = {}]

\* The client has been given the answer that ends its transaction.
TransactionOver(c) == txn' = [txn EXCEPT ![c] = @ + 1]

Rset(c) ==
  /\ st[c] = "command" /\ txn[c] < MaxTxn
  /\ Reset(c) /\ TransactionOver(c)
  /\ UNCHANGED <<listening, slots, st, mailVars>>

\* 354; before MAIL and RCPT the command is answered with 503.
Data(c) ==
  /\ st[c] = "command" /\ from[c] # {} /\ rcpts[c] # {} /\ txn[c] < MaxTxn
  /\ st' = [st EXCEPT ![c] = "data"]
  /\ UNCHANGED <<listening, slots, from, rcpts, txn, mailVars>>

\* 552; the rest of the message is not read.
DataTooLarge(c) ==
  /\ st[c] = "data"
  /\ st' = [st EXCEPT ![c] = "command"]
  /\ Reset(c) /\ TransactionOver(c)
  /\ UNCHANGED <<listening, slots, mailVars>>

\* The terminator was read: parse_data, and enqueue begins.
DataEnd(c) ==
  /\ st[c] = "data"
  /\ st' = [st EXCEPT ![c] = "storing"]
  /\ pool' = pool \cup {Mail(c)}
  /\ UNCHANGED <<listening, slots, from, rcpts, txn, stored, acked, refused>>

\* The blocking pool runs an insert, whether or not its session still waits.
Insert(m) ==
  /\ m \in pool /\ pool' = pool \ {m}
  /\ \E ok \in BOOLEAN :
       /\ stored' = IF ok THEN stored \cup {m} ELSE stored
       /\ st' = [st EXCEPT ![m.conn] =
                   IF @ # "storing" THEN @ ELSE IF ok THEN "stored" ELSE "unstored"]
  /\ UNCHANGED <<listening, slots, from, rcpts, txn, acked, refused>>

\* A plausible defect: the answer does not wait for the insert.
AnswerEarly(c) ==
  /\ st[c] \in {"storing", "stored", "unstored"}
  /\ IF st[c] = "unstored"
     THEN refused' = refused \cup {Mail(c)} /\ UNCHANGED acked
     ELSE acked' = acked \cup {Mail(c)} /\ UNCHANGED refused
  /\ st' = [st EXCEPT ![c] = "command"]
  /\ Reset(c) /\ TransactionOver(c)
  /\ UNCHANGED <<listening, slots, pool, stored>>

\* 250 or 451.
Answer(c) ==
  /\ \/ st[c] = "stored"   /\ acked' = acked \cup {Mail(c)} /\ UNCHANGED refused
     \/ st[c] = "unstored" /\ refused' = refused \cup {Mail(c)} /\ UNCHANGED acked
  /\ st' = [st EXCEPT ![c] = "command"]
  /\ Reset(c) /\ TransactionOver(c)
  /\ UNCHANGED <<listening, slots, pool, stored>>

Next ==
  \/ \E c \in Conns :
       \/ Accept(c) \/ Close(c)
       \/ MailFrom(c) \/ RcptTo(c) \/ Rset(c)
       \/ Data(c) \/ DataTooLarge(c) \/ DataEnd(c) \/ Answer(c)
  \/ \E m \in pool : Insert(m)
  \/ Abort

Spec == Init /\ [][Next]_vars

-----------------------------------------------------------------------------
\* The state has its type; slots never falls below zero, and no session's
\* transaction count leaves its bound (serve_smtp, handle_connection).
TypeOK ==
  /\ listening \in BOOLEAN /\ slots \in Nat
  /\ st \in [Conns -> States]
  /\ from \in [Conns -> SUBSET (0 .. MaxTxn)] /\ rcpts \in [Conns -> SUBSET (0 .. MaxTxn)]
  /\ txn \in [Conns -> 0 .. MaxTxn]
  /\ pool \subseteq Mails /\ stored \subseteq Mails /\ acked \subseteq Mails /\ refused \subseteq Mails

\* Every permit is in the semaphore or held by one live session, however the
\* sessions end (the _permit of serve_smtp's spawned task).
SlotsConserved == slots + Cardinality({c \in Conns : st[c] \in Active}) = MaxConnections

\* A stored message has a sender and recipients that were all given in its own
\* transaction: nothing leaks from one that was reset, refused, too large or
\* delivered before (handle_connection).
EnvelopeOfOneTransaction ==
  \A m \in stored : m.from = {m.txn} /\ m.rcpts = {m.txn}

\* What was answered with 250 is in the outbox, what was answered with 451 is
\* not and never will be: no late insert contradicts an answer.
AnswersAreTrue == acked \subseteq stored /\ refused \cap (stored \cup pool) = {}
=============================================================================
