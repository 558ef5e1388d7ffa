---------------------------- MODULE MonitorProofs ---------------------------
(***************************************************************************)
(* A theorem about Monitor for any number of messages, starts and failed   *)
(* queries.                                                                *)
(***************************************************************************)
EXTENDS Monitor, FiniteSetTheorems, TLAPS

(***************************************************************************)
(* The inductive invariant.  A count is the size of some set, and between  *)
(* them the sets of the two queries cover what is still on record.         *)
(***************************************************************************)
OnRecord == (round.pending \cup round.dead) \cap (pending \cup dead)

RoundType ==
  round \in [pending : SUBSET Messages, dead : SUBSET Messages, outage : BOOLEAN, failed : BOOLEAN]

\* Nothing on record, now or when the round began, can be stored again.
RecordIsStored ==
  /\ pending \subseteq Messages /\ dead \subseteq Messages
  /\ pending \subseteq stored /\ dead \subseteq stored
  /\ round.pending \subseteq stored /\ round.dead \subseteq stored

\* What the first query missed is among the dead letters when the second runs.
QueueCounted ==
  mpc = "dead_letter_len" /\ ~round.failed =>
    \E Q \in SUBSET Messages : queued = Cardinality(Q) /\ OnRecord \subseteq Q \cup dead

BothCounted ==
  mpc = "report" /\ ~round.failed =>
    \E Q, D \in SUBSET Messages :
      queued = Cardinality(Q) /\ dead_letter = Cardinality(D) /\ OnRecord \subseteq Q \cup D

MonitorInv == RoundType /\ RecordIsStored /\ QueueCounted /\ BothCounted

-----------------------------------------------------------------------------
\* The monitor has not started (main).
LEMMA InitMonitorInv == MInit => MonitorInv
<1> SUFFICES ASSUME MInit PROVE MonitorInv
  OBVIOUS
<1>1. RoundType /\ round.pending = {} /\ round.dead = {}
  BY DEF MInit, NewRound, RoundType
<1>2. RecordIsStored
  BY <1>1 DEF MInit, Init, RecordIsStored
<1>3. QueueCounted /\ BothCounted
  BY DEF MInit, QueueCounted, BothCounted
<1> QED
  BY <1>1, <1>2, <1>3 DEF MonitorInv

\* The queue moves under a round: what was on record may only leave it, and
\* dead letters stay (AtLeastOnce).
LEMMA QueueMoves ==
  ASSUME MonitorInv, QueueStep
  PROVE  MonitorInv'
<1>1. /\ UNCHANGED <<mpc, queued, dead_letter>>
      /\ round' = [round EXCEPT !.outage = @ /\ pending' # {}]
  BY DEF QueueStep, counts
<1>2. round.outage \in BOOLEAN
  BY DEF MonitorInv, RoundType
<1>3. RoundType' /\ round'.pending = round.pending /\ round'.dead = round.dead
      /\ round'.failed = round.failed
  BY <1>1, <1>2 DEF MonitorInv, RoundType
<1>4. PICK m \in Messages : Store(m) \/ Ack(m) \/ Post(m) \/ Settle(m) \/ GiveUp(m)
  BY DEF QueueStep, Next
<1>5. RecordIsStored' /\ dead \subseteq dead' /\ OnRecord' \subseteq OnRecord
  <2>1. CASE Store(m)
    BY <1>3, <2>1 DEF Store, MonitorInv, RecordIsStored, OnRecord
  <2>2. CASE Ack(m) \/ Post(m)
    BY <1>3, <2>2 DEF Ack, Post, MonitorInv, RecordIsStored, OnRecord
  <2>3. CASE Settle(m)
    BY <1>3, <2>3 DEF Settle, MonitorInv, RecordIsStored, OnRecord
  <2>4. CASE GiveUp(m)
    BY <1>3, <2>4 DEF GiveUp, MonitorInv, RecordIsStored, OnRecord
  <2> QED
    BY <1>4, <2>1, <2>2, <2>3, <2>4
<1>6. QueueCounted'
  <2> SUFFICES ASSUME mpc = "dead_letter_len", ~round.failed
               PROVE  \E Q \in SUBSET Messages : queued = Cardinality(Q) /\ OnRecord' \subseteq Q \cup dead'
    BY <1>1, <1>3 DEF QueueCounted
  <2>1. PICK Q \in SUBSET Messages : queued = Cardinality(Q) /\ OnRecord \subseteq Q \cup dead
    BY DEF MonitorInv, QueueCounted
  <2>2. OnRecord' \subseteq Q \cup dead'
    BY <1>5, <2>1
  <2> QED
    BY <2>1, <2>2
<1>7. BothCounted'
  <2> SUFFICES ASSUME mpc = "report", ~round.failed
               PROVE  \E Q, D \in SUBSET Messages :
                        queued = Cardinality(Q) /\ dead_letter = Cardinality(D) /\ OnRecord' \subseteq Q \cup D
    BY <1>1, <1>3 DEF BothCounted
  <2>1. PICK Q, D \in SUBSET Messages :
          queued = Cardinality(Q) /\ dead_letter = Cardinality(D) /\ OnRecord \subseteq Q \cup D
    BY DEF MonitorInv, BothCounted
  <2>2. OnRecord' \subseteq Q \cup D
    BY <1>5, <2>1
  <2> QED
    BY <2>1, <2>2
<1> QED
  BY <1>3, <1>5, <1>6, <1>7 DEF MonitorInv

\* A round begins (run_monitor).
LEMMA RoundBegins ==
  ASSUME MonitorInv, Start \/ Wake
  PROVE  MonitorInv'
<1>1. mpc' = "len" /\ round' = NewRound(pending, dead, ~online) /\ UNCHANGED avars
  BY DEF Start, Wake, BeginRound
<1>2. RoundType' /\ round'.pending = pending /\ round'.dead = dead
  BY <1>1 DEF MonitorInv, RecordIsStored, RoundType, NewRound
<1>3. RecordIsStored'
  BY <1>1, <1>2 DEF MonitorInv, RecordIsStored, avars
<1>4. QueueCounted' /\ BothCounted'
  BY <1>1 DEF QueueCounted, BothCounted
<1> QED
  BY <1>2, <1>3, <1>4 DEF MonitorInv

\* Either query, when it fails (run_monitor).
LEMMA QueryFailed ==
  ASSUME MonitorInv, QueryFails, UNCHANGED avars
  PROVE  MonitorInv'
<1>1. round' = [round EXCEPT !.failed = TRUE]
  BY DEF QueryFails
<1>2. RoundType' /\ round'.pending = round.pending /\ round'.dead = round.dead /\ round'.failed
  BY <1>1 DEF MonitorInv, RoundType
<1>3. RecordIsStored'
  BY <1>2 DEF MonitorInv, RecordIsStored, avars
<1>4. QueueCounted' /\ BothCounted'
  BY <1>2 DEF QueueCounted, BothCounted
<1> QED
  BY <1>2, <1>3, <1>4 DEF MonitorInv

\* store.len(), when it succeeds.
LEMMA QueueIsCounted ==
  ASSUME MonitorInv, mpc' = "dead_letter_len", queued' = Cardinality(pending), UNCHANGED <<avars, round>>
  PROVE  MonitorInv'
<1>1. RoundType' /\ RecordIsStored' /\ OnRecord' = OnRecord /\ dead' = dead
  BY DEF MonitorInv, RoundType, RecordIsStored, OnRecord, avars
<1>2. pending \in SUBSET Messages /\ OnRecord \subseteq pending \cup dead
  BY DEF MonitorInv, RecordIsStored, OnRecord
<1>3. QueueCounted' /\ BothCounted'
  BY <1>1, <1>2 DEF QueueCounted, BothCounted
<1> QED
  BY <1>1, <1>3 DEF MonitorInv

\* store.dead_letter_len(), when it succeeds.
LEMMA DeadAreCounted ==
  ASSUME MonitorInv, mpc = "dead_letter_len", mpc' = "report",
         dead_letter' = Cardinality(dead), queued' = queued, UNCHANGED <<avars, round>>
  PROVE  MonitorInv'
<1>1. RoundType' /\ RecordIsStored' /\ OnRecord' = OnRecord /\ round' = round
  BY DEF MonitorInv, RoundType, RecordIsStored, OnRecord, avars
<1>2. QueueCounted'
  BY DEF QueueCounted
<1>3. BothCounted'
  <2> SUFFICES ASSUME ~round.failed
               PROVE  \E Q, D \in SUBSET Messages :
                        queued = Cardinality(Q) /\ dead_letter' = Cardinality(D) /\ OnRecord \subseteq Q \cup D
    BY <1>1 DEF BothCounted
  <2>1. PICK Q \in SUBSET Messages : queued = Cardinality(Q) /\ OnRecord \subseteq Q \cup dead
    BY DEF MonitorInv, QueueCounted
  <2>2. dead \in SUBSET Messages
    BY DEF MonitorInv, RecordIsStored
  <2> QED
    BY <2>1, <2>2
<1> QED
  BY <1>1, <1>2, <1>3 DEF MonitorInv

\* The steps that touch neither the queue nor the counts in use (main,
\* run_monitor).
LEMMA OtherMonitorSteps ==
  ASSUME MonitorInv, Network \/ Connect \/ Report \/ Stop \/ UNCHANGED mvars
  PROVE  MonitorInv'
<1>1. UNCHANGED <<avars, queued, dead_letter>> /\ (mpc' = mpc \/ mpc' \in {"sleep", "down"})
  BY DEF Network, Connect, Report, Stop, mvars, counts
<1>2. RoundType' /\ round'.pending = round.pending /\ round'.dead = round.dead
      /\ round'.failed = round.failed
  <2>1. CASE Network
    <3>1. round' = [round EXCEPT !.outage = @ /\ ~online'] /\ round.outage \in BOOLEAN
      BY <2>1 DEF Network, MonitorInv, RoundType
    <3> QED
      BY <3>1 DEF MonitorInv, RoundType
  <2>2. CASE round' = round
    BY <2>2 DEF MonitorInv, RoundType
  <2> QED
    BY <2>1, <2>2 DEF Connect, Report, Stop, mvars
<1>3. RecordIsStored' /\ OnRecord' = OnRecord /\ dead' = dead
  BY <1>1, <1>2 DEF MonitorInv, RecordIsStored, OnRecord, avars
<1>4. QueueCounted' /\ BothCounted'
  BY <1>1, <1>2, <1>3 DEF MonitorInv, QueueCounted, BothCounted
<1> QED
  BY <1>2, <1>3, <1>4 DEF MonitorInv

\* The counts of a round stand for sets that cover what is on record, in every
\* reachable state (run_monitor).
THEOREM MonitorInvHolds == MSpec => []MonitorInv
<1>1. ASSUME MonitorInv, [MNext]_mvars PROVE MonitorInv'
  <2>1. CASE QueueStep
    BY <1>1, <2>1, QueueMoves
  <2>2. CASE Start \/ Wake
    BY <1>1, <2>2, RoundBegins
  <2>3. CASE QueryLen
    BY <1>1, <2>3, QueryFailed, QueueIsCounted DEF QueryLen
  <2>4. CASE QueryDeadLetterLen
    BY <1>1, <2>4, QueryFailed, DeadAreCounted DEF QueryDeadLetterLen
  <2>5. CASE Network \/ Connect \/ Report \/ Stop \/ UNCHANGED mvars
    BY <1>1, <2>5, OtherMonitorSteps
  <2> QED
    BY <1>1, <2>1, <2>2, <2>3, <2>4, <2>5 DEF MNext, Round
<1> QED
  BY InitMonitorInv, <1>1, PTL DEF MSpec

\* Though the two counts of a status line are taken one after the other, no
\* message that stays on record is missing from both (run_monitor).
THEOREM StatusMissesNothing == MSpec => []NothingUncounted
<1>1. ASSUME MonitorInv PROVE NothingUncounted
  <2> SUFFICES ASSUME mpc = "report", ~round.failed
               PROVE  queued + dead_letter >= Cardinality(OnRecord)
    BY DEF NothingUncounted, OnRecord
  <2>1. PICK Q, D \in SUBSET Messages :
          queued = Cardinality(Q) /\ dead_letter = Cardinality(D) /\ OnRecord \subseteq Q \cup D
    BY <1>1 DEF MonitorInv, BothCounted
  <2>2. IsFiniteSet(Q) /\ IsFiniteSet(D)
    BY MonitorAssumption, FS_Subset
  <2>3. IsFiniteSet(Q \cup D) /\ IsFiniteSet(Q \cap D)
        /\ Cardinality(Q \cup D) = Cardinality(Q) + Cardinality(D) - Cardinality(Q \cap D)
    BY <2>2, FS_Union, FS_Subset
  <2>4. Cardinality(OnRecord) <= Cardinality(Q \cup D) /\ IsFiniteSet(OnRecord)
    BY <2>1, <2>3, FS_Subset
  <2>5. /\ Cardinality(Q) \in Nat /\ Cardinality(D) \in Nat /\ Cardinality(Q \cap D) \in Nat
        /\ Cardinality(OnRecord) \in Nat
    BY <2>2, <2>3, <2>4, FS_CardinalityType
  <2> QED
    BY <2>1, <2>3, <2>4, <2>5
<1> QED
  BY MonitorInvHolds, <1>1, PTL
=============================================================================
