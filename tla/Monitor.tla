------------------------------- MODULE Monitor ------------------------------
(***************************************************************************)
(* run_monitor of main.rs, watching the queue the way AtLeastOnce promises *)
(* it behaves: two counts taken one after the other while the worker goes  *)
(* on, a status line, and a warning when the dead letters have grown.      *)
(* Dead letters and the queue outlive the process, what the monitor knows  *)
(* does not.                                                               *)
(***************************************************************************)
EXTENDS AtLeastOnce, Integers, FiniteSets

CONSTANTS
  MaxStarts,     \* bound: starts of the process
  MaxFails       \* bound: queries that fail

ASSUME MonitorAssumption ==
  IsFiniteSet(Messages) /\ MaxStarts \in Nat /\ MaxFails \in Nat

VARIABLES
  mpc,               \* where the monitor is; "down": no process runs
  queued,            \* the result of store.len()
  dead_letter,       \* the result of store.dead_letter_len()
  last_dead_letter,  \* its result in the round before
  connected,         \* the flag main sets once connect has succeeded
  online,            \* the homeserver can be reached
  starts, fails,     \* counters for the bounds
  round,             \* history: the dead letters and the other messages on record
                     \* when the round began, whether the homeserver has been out of
                     \* reach with mail waiting ever since, whether a query failed
  deadSeen,          \* history: the dead letters dead_letter counts
  warnedDead,        \* history: the dead letters a warning has counted
  warnedQueuing      \* history: the last round warned of mail queuing unconnected

counts == <<queued, dead_letter>>
known == <<last_dead_letter, connected>>
warnings == <<warnedDead, warnedQueuing>>
bounds == <<starts, fails>>
mvars == <<avars, mpc, counts, known, online, bounds, round, deadSeen, warnings>>

NewRound(p, d, down) == [pending |-> p, dead |-> d, outage |-> down /\ p # {}, failed |-> FALSE]

MInit ==
  /\ Init
  /\ mpc = "down" /\ queued = 0 /\ dead_letter = 0 /\ last_dead_letter = 0
  /\ connected = FALSE /\ online \in BOOLEAN /\ starts = 0 /\ fails = 0
  /\ round = NewRound({}, {}, FALSE)
  /\ deadSeen = {} /\ warnedDead = {} /\ warnedQueuing = FALSE

-----------------------------------------------------------------------------
(***************************************************************************)
(* What the monitor watches.                                               *)
(***************************************************************************)
\* The queue changes under the monitor.
QueueStep ==
  /\ mpc # "down" /\ Next
  /\ round' = [round EXCEPT !.outage = @ /\ pending' # {}]
  /\ UNCHANGED <<mpc, counts, known, online, bounds, deadSeen, warnings>>

Network ==
  /\ online' = ~online
  /\ round' = [round EXCEPT !.outage = @ /\ ~online']
  /\ UNCHANGED <<avars, mpc, counts, known, bounds, deadSeen, warnings>>

\* The closure main passes to run_with_reconnect: connect, then the flag, which
\* nothing takes back.
Connect ==
  /\ mpc # "down" /\ online /\ ~connected
  /\ connected' = TRUE
  /\ UNCHANGED <<avars, mpc, counts, last_dead_letter, online, bounds, round, deadSeen, warnings>>

-----------------------------------------------------------------------------
(***************************************************************************)
(* run_monitor.                                                            *)
(***************************************************************************)
\* The watchdog is pinged, and the round's first query comes next.
BeginRound ==
  /\ mpc' = "len"
  /\ round' = NewRound(pending, dead, ~online)

Start ==
  /\ mpc = "down" /\ starts < MaxStarts
  /\ starts' = starts + 1
  /\ BeginRound
  /\ last_dead_letter' = 0 /\ connected' = FALSE
  /\ UNCHANGED <<avars, counts, online, fails, deadSeen, warnings>>

\* unwrap_or(0)
QueryFails ==
  /\ fails < MaxFails /\ fails' = fails + 1
  /\ round' = [round EXCEPT !.failed = TRUE]

\* store.len()
QueryLen ==
  /\ mpc = "len" /\ mpc' = "dead_letter_len"
  /\ \/ queued' = Cardinality(pending) /\ UNCHANGED <<fails, round>>
     \/ queued' = 0 /\ QueryFails
  /\ UNCHANGED <<avars, dead_letter, known, online, starts, deadSeen, warnings>>

\* A plausible defect: the dead letters are counted first, before the queue.
QueryDeadLetterLenFirst ==
  /\ mpc = "dead_letter_len" /\ mpc' = "report"
  /\ \/ dead_letter' = Cardinality(round.dead) /\ deadSeen' = round.dead /\ UNCHANGED <<fails, round>>
     \/ dead_letter' = 0 /\ deadSeen' = {} /\ QueryFails
  /\ UNCHANGED <<avars, queued, known, online, starts, warnings>>

\* store.dead_letter_len()
QueryDeadLetterLen ==
  /\ mpc = "dead_letter_len" /\ mpc' = "report"
  /\ \/ dead_letter' = Cardinality(dead) /\ deadSeen' = dead /\ UNCHANGED <<fails, round>>
     \/ dead_letter' = 0 /\ deadSeen' = {} /\ QueryFails
  /\ UNCHANGED <<avars, queued, known, online, starts, warnings>>

\* A plausible defect: a count is warned about only if a round saw none before.
ReportFirstOnly ==
  /\ mpc = "report" /\ mpc' = "sleep"
  /\ warnedDead' = IF dead_letter > 0 /\ last_dead_letter = 0 THEN warnedDead \cup deadSeen ELSE warnedDead
  /\ warnedQueuing' = (~connected /\ queued > 0)
  /\ last_dead_letter' = dead_letter
  /\ UNCHANGED <<avars, counts, connected, online, bounds, round, deadSeen>>

\* The status line and the two warnings.
Report ==
  /\ mpc = "report" /\ mpc' = "sleep"
  /\ warnedDead' = IF dead_letter > last_dead_letter THEN warnedDead \cup deadSeen ELSE warnedDead
  /\ warnedQueuing' = (~connected /\ queued > 0)
  /\ last_dead_letter' = dead_letter
  /\ UNCHANGED <<avars, counts, connected, online, bounds, round, deadSeen>>

\* MONITOR_INTERVAL_SECONDS have passed.
Wake ==
  /\ mpc = "sleep"
  /\ BeginRound
  /\ UNCHANGED <<avars, counts, known, online, bounds, deadSeen, warnings>>

\* Shutdown, or the process is killed.
Stop ==
  /\ mpc # "down" /\ mpc' = "down"
  /\ UNCHANGED <<avars, counts, known, online, bounds, round, deadSeen, warnings>>

Round == Start \/ QueryLen \/ QueryDeadLetterLen \/ Report \/ Wake

MNext == QueueStep \/ Network \/ Connect \/ Round \/ Stop

MSpec == MInit /\ [][MNext]_mvars

\* The monitor's task is scheduled, and the process is started again.
FairMSpec == MSpec /\ WF_mvars(Round)

-----------------------------------------------------------------------------
\* The state has its type (run_monitor).
MTypeOK ==
  /\ mpc \in {"down", "len", "dead_letter_len", "report", "sleep"}
  /\ queued \in Nat /\ dead_letter \in Nat /\ last_dead_letter \in Nat
  /\ connected \in BOOLEAN /\ online \in BOOLEAN
  /\ starts \in 0 .. MaxStarts /\ fails \in 0 .. MaxFails
  /\ round \in [pending : SUBSET Messages, dead : SUBSET Messages, outage : BOOLEAN, failed : BOOLEAN]
  /\ deadSeen \subseteq dead /\ warnedDead \subseteq dead /\ warnedQueuing \in BOOLEAN

\* A status line accounts for every message that was on record when its round
\* began and still is, though it may have moved from the queue to the dead
\* letters between the two queries (run_monitor).
NothingUncounted ==
  mpc = "report" /\ ~round.failed =>
    queued + dead_letter >= Cardinality((round.pending \cup round.dead) \cap (pending \cup dead))

\* Every dead letter is warned about in the end, across restarts and failed
\* queries, unless the process is stopped for good (run_monitor).
DeadLettersWarned ==
  \A m \in Messages : m \in dead ~> m \in warnedDead \/ (mpc = "down" /\ starts = MaxStarts)

\* "It also logs a `warn` when it is queuing mail without a Matrix connection ...
\* so a silent delivery outage is visible" (README.md): a round through which the
\* homeserver was out of reach and mail was waiting warns of it (run_monitor).
OutageIsVisible == mpc = "sleep" /\ round.outage /\ ~round.failed => warnedQueuing
=============================================================================
