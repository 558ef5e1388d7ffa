------------------------------- MODULE Outbox -------------------------------
(***************************************************************************)
(* The SQLite outbox of queue/store.rs: what each statement of             *)
(* MessageStore reads from, or writes to, the database.  Every operator    *)
(* below is one closure handed to with_conn, which runs it under the       *)
(* connection mutex, so that each is atomic in the modules that use it.    *)
(*                                                                         *)
(* A database is a record: the outbox table, a set of rows; seq, the       *)
(* AUTOINCREMENT counter of the outbox; and the dead_letter table.  A row  *)
(* keeps the columns the worker's decisions depend on: its id, the message *)
(* (from, to, subject and body are one opaque value), the failed attempts  *)
(* and next_attempt_at.                                                    *)
(***************************************************************************)
EXTENDS Naturals, FiniteSets

CONSTANTS
  Messages,     \* the emails that may be submitted
  MaxLen        \* queue.max_len; 0 means unlimited

ASSUME MaxLenAssumption == MaxLen \in Nat

Rows == [id : Nat, msg : Messages, attempts : Nat, next : Nat]

DeadRows == [msg : Messages, attempts : Nat]

Databases == [outbox : SUBSET Rows, seq : Nat, dead : SUBSET DeadRows]

EmptyDb == [outbox |-> {}, seq |-> 0, dead |-> {}]

(***************************************************************************)
(* enqueue: the cap is tested and the row inserted under one lock.  A new  *)
(* row is due at once (next_attempt_at = 0).                               *)
(***************************************************************************)
\* A plausible defect: the cap compared with > instead of >=.
FullOffByOne(d) == MaxLen > 0 /\ Cardinality(d.outbox) > MaxLen

Full(d) == MaxLen > 0 /\ Cardinality(d.outbox) >= MaxLen

\* A plausible defect: without AUTOINCREMENT the largest id is reused once
\* its row is gone.
InsertReusingIds(d, m) ==
  LET free == {n \in 1 .. d.seq + 1 : \A r \in d.outbox : r.id < n}
      id == CHOOSE n \in free : \A k \in free : n <= k
  IN [d EXCEPT !.outbox = @ \cup {[id |-> id, msg |-> m, attempts |-> 0, next |-> 0]},
               !.seq = IF id > @ THEN id ELSE @]

Insert(d, m) ==
  [d EXCEPT !.outbox = @ \cup {[id |-> d.seq + 1, msg |-> m, attempts |-> 0, next |-> 0]},
            !.seq = @ + 1]

(***************************************************************************)
(* claim_next_ready: the first due row in the order (next_attempt_at, id). *)
(***************************************************************************)
Ready(d, t) == {r \in d.outbox : r.next <= t}

\* A plausible defect: the queue is ordered by id alone.
BeforeById(r, s) == r.id < s.id

Before(r, s) == r.next < s.next \/ (r.next = s.next /\ r.id < s.id)

ClaimNextReady(d, t, r) ==
  /\ r \in Ready(d, t)
  /\ \A s \in Ready(d, t) : s = r \/ Before(r, s)

(***************************************************************************)
(* next_wakeup: the earliest next_attempt_at strictly after t, if any.     *)
(***************************************************************************)
Backing(d, t) == {r \in d.outbox : r.next > t}

\* A plausible defect: MAX where the query says MIN.
LastWakeup(d, t, r) == r \in Backing(d, t) /\ \A s \in Backing(d, t) : s.next <= r.next

NextWakeup(d, t, r) == r \in Backing(d, t) /\ \A s \in Backing(d, t) : r.next <= s.next

(***************************************************************************)
(* remove, dead_letter and reschedule address the row by its id.  The      *)
(* dead-letter row copies the attempts column as it stands, before the     *)
(* failure that exhausted the retries is counted.                          *)
(***************************************************************************)
Remove(d, id) == [d EXCEPT !.outbox = {r \in @ : r.id # id}]

\* A plausible defect: the copy and the delete are not one transaction, and
\* only the copy is kept.
DeadLetterCopy(d, id) ==
  [d EXCEPT !.dead = @ \cup {[msg |-> r.msg, attempts |-> r.attempts] :
                               r \in {s \in d.outbox : s.id = id}}]

DeadLetter(d, id) ==
  [d EXCEPT !.dead = @ \cup {[msg |-> r.msg, attempts |-> r.attempts] :
                               r \in {s \in d.outbox : s.id = id}},
            !.outbox = {r \in @ : r.id # id}]

Reschedule(d, id, attempts, at) ==
  [d EXCEPT !.outbox = {IF r.id = id THEN [r EXCEPT !.attempts = attempts, !.next = at]
                                     ELSE r : r \in @}]
=============================================================================
