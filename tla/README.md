# A TLA+ verification of chimney-post

chimney-post receives email over SMTP, stores it in a SQLite outbox and posts
it to a Matrix room. Its one promise is that an email it has accepted is not
lost: it is kept until it is in the room, or has been moved to the
`dead_letter` table after its retries were used up. The code that has to keep
that promise runs as several tasks with cancellable futures, a blocking pool, a
network that loses answers and a process that may stop between any two steps.
This directory models that code, checks it with TLC and proves the central
results with TLAPS.

## The system

| Component | State | Operations | Interacts with |
|---|---|---|---|
| `MessageStore` (queue/store.rs) | tables `outbox` and `dead_letter`, AUTOINCREMENT counter, a `Notify` | `enqueue`, `claim_next_ready`, `mark_delivered`, `reschedule`, `dead_letter`, `next_wakeup`, `len`, `dead_letter_len` | each call is a closure run on a blocking thread under the connection mutex; `enqueue` notifies the worker |
| `DeliveryWorker` (queue/worker.rs) | its position in the loop, the row it claimed, its local `now` | `run_with_reconnect`, `run`, `idle_wait`, `deliver_one`, `handle_failure`, `backoff_seconds` | store, Matrix client, shutdown channel |
| SMTP server (smtp/server.rs) | semaphore of `max_connections`; per session the sender, the recipients, the line and the data being read | `serve_smtp`, `handle_connection`, `read_line_limited_bytes`, `read_data`, `parse_mail_from`, `parse_rcpt_to` | store (`enqueue`), parser |
| Parser and MIME (smtp/parser.rs, smtp/mime.rs) | none | `parse_data`, part selection, HTML to text | SMTP server |
| Matrix client (matrix/client.rs) | crypto store and device on disk, logged-in session, known room state | `connect`, `send_message` | homeserver, worker |
| Routing, formatting (matrix/routing.rs, matrix/formatter.rs) | rules, template | first matching rule, rendering | Matrix client |
| Configuration (config.rs) | settings | `load_from_path`, `apply_env_overrides`, `validate` | all |
| Process (main.rs, the systemd unit) | shutdown watch channel, tasks | load, bind, signal, abort of the accept loop, drain, exit; restart on failure | all |
| Monitor (main.rs) | last dead-letter count, `connected` | periodic report of queue lengths, two warnings | store (reads) |

What is hard here, and to test least of all (each is listed with its line in
`PROJECT.json`, "hazards"):

* a **crash or a lost answer** between the post, the answer and the removal of
  the row, and a request that arrives after the worker has given it up;
* **wake-ups**: an insert between the worker's empty query and its sleep, and
  a sleep that must end for the earliest backing-off row;
* **cancellation**: a session dropped at its deadline while its insert is
  running on a thread that cannot be cancelled;
* **storage errors** at each single write, after the effect it should record
  has happened;
* **shutdown** during each kind of wait, and mail that comes in meanwhile;
* **durability**: `synchronous=NORMAL` in WAL mode, where a power loss takes
  back commits, removals and ids;
* **chunks**: a byte stream cut anywhere, two loops that share its buffer, and
  a size limit that is tested before and after dot-unstuffing;
* **envelopes** on one connection after a refused, reset or oversized message,
  and their way through the recipients column to a routing rule;
* **the crypto store**: deleted file by file when it is another device's, with
  failures and kills in between, before the homeserver has been asked;
* **late errors**: a configuration that passes readiness and then fails in
  every connect;
* **what the operator is told**: two counts taken one after the other, a flag
  that is set once;
* **limits**: a queue at its cap, connection permits,
  line and message budgets, saturating arithmetic.

## The modules

```
Outbox ── Delivery ─┬─ DeliveryRefinement ─┬─ MCDelivery
                    │      (AtLeastOnce)   └─ DeliveryProofs ─┬─ WakeupProofs
                    │                                         └─ PowerLossProofs
                    └─ PowerLoss ─┬─ MCPowerLoss
                                  └─ PowerLossProofs
AtLeastOnce ── Monitor ── MonitorProofs
SmtpServer ─┬─ MCSmtpServer          SmtpRead ─┬─ MCSmtpRead
            └─ SmtpServerProofs                └─ SmtpReadProofs
Config ── MatrixClient ─┬─ MCMatrixClient
                        └─ MatrixClientProofs
Backoff, Routing, MailParser, Html ── Algorithms ─┬─ MCAlgorithms
                                                  └─ AlgorithmsProofs
```

**Outbox** holds the SQL statements as operators on a database record (`outbox`
rows, `seq`, `dead` rows). Sender, recipients, subject and body are one opaque
message; the columns a decision depends on (`id`, `attempts`,
`next_attempt_at`) are kept. `Insert`, `Remove`, `DeadLetter` and `Reschedule`
are the writes, `ClaimNextReady` and `NextWakeup` the two ordered queries,
stated as the predicates their `ORDER BY ... LIMIT 1` and `MIN` define.

**Delivery** is the life of a message. One action is what happens between two
awaits:

* *Sessions* (`sub[m]`): `Submit` (the message was read, `enqueue` is called),
  `RunInsert` / `InsertFails` (the closure on the blocking pool),
  `EnqueueReturns` (`notify_one`), `Answer` (250 or 451) and `Cancel` (the
  session future is dropped, at each of those awaits). A dropped session leaves
  its insert running: `detached` becomes `silent` when the row is committed
  without anyone to notify the worker.
* *Worker* (`pc`, `held`, `sampled`, `wake`): `BeginConnect`, `ConnectOk`,
  `ConnectErr` for `run_with_reconnect`; `ClaimRow`, `ClaimNone`, `ClaimErr`,
  `DrainComplete`, `Park`, `ParkAfterError`, `Notified`, `SleepEnds`,
  `ShutdownChanged` for the loop of `run`; `SendRequest`, `SinkOk`, `SinkErr`,
  `MarkDelivered`, `RecordFailure`, `StoreWriteErr` for `deliver_one` and
  `handle_failure`. `StoreWriteErr` is the code's "logged, no more": the row
  stays as it was and is due at once.
* *Homeserver* (external): a request is accepted once per session and
  transaction id; a repeated one is answered with the first event. A request
  the worker gave up on stays in flight and may arrive at any later time.
* *Shutdown channel* (`shutdown`, `seen`): `borrow` reads the value, `changed`
  reports a change once. After `ShutdownChanged` has ended the idle wait and
  the drain goes on, a storage error is slept out (`SleepEnds`).
* *Process*: `Signal`, `Exit`, `Crash`, `Start`. The database, the room and the
  requests in flight outlive it; everything else is reset. `Exit` is possible
  at any time after `Signal`, because the drain timeout may pass.

`Session` is the scope of transaction ids: with a password every start logs in
anew (`FreshSession`), with an access token `connect` restores the same session
at every start. The repository's README only speaks of the first case; see the
findings. (A homeserver that keys transaction ids by device rather than by
login also gives a password with a pinned `device_id` the second case.)

**AtLeastOnce** is the promise without the mechanism: five sets of messages
(stored, acknowledged, pending, posted, dead) and five steps.
**DeliveryRefinement** maps Delivery to it, and **Monitor** is composed with it.

**PowerLoss** adds to Delivery the database as it stands on the disk: `Flush`
(a checkpoint or the system's writeback) and `PowerFails`, which ends the
process with the database of the last flush.

**SmtpServer** is the accept loop with its semaphore, and every session's
command loop: which commands change the envelope, when it is reset, when an
insert is handed to the pool, which answer follows, and that a session may end
at every await. An address is represented by the transaction in which the
client gave it, which is what tells a leaked recipient from a proper one.

**SmtpRead** is one session's reader, byte by byte: `Fill` is `fill_buf`
waiting for a chunk of any size, `Take` one turn of the loop of
`read_line_limited_bytes`, `LineTooLong` its budget. `DataLine`,
`DataTerminator` and `DataEof` are `read_data`, `CommandLine` and `CommandEof`
the command loop that reads on from the same buffer; `Cut` is a timeout or a
broken connection. A byte is CR, LF, a dot or another. The module also says,
without chunks or buffers, what a stream means: its lines, where the message
ends (`MessageEnd`) and what it is (`Body`).

**Config** is what `load_from_path` accepts: each setting right or wrong, the
credentials told apart further (absent, blank, a reference to the environment,
given). **MatrixClient** is the process from `load_default` to `send_message`:
`Load`, `Bind`, `Prepare` (what `connect` parses), `Restore` and `Login` (the
two ways in, which open the crypto store), `RemoveFile` and `Rebuild`
(`reset_crypto_store` and the second try), `Whoami`, `Sync`, `Reconnect`, then
`JoinRoom`, `QueryEncryption` and `Post`. `Kill` ends it anywhere, `Edit` lets
the operator change the file while it is down, and the room may become
encrypted at any time. The crypto store is the device whose keys it holds.

**Monitor** is `run_monitor` over a queue that moves as AtLeastOnce allows:
`QueryLen`, `QueryDeadLetterLen` and `Report` are three steps, each query may
fail (`unwrap_or(0)`), and the process may be restarted.

**Backoff** is `backoff_seconds` in saturating arithmetic of a given width; the
MC modules use it for the delays of Delivery. **Routing** follows an envelope
from the MAIL and RCPT commands through `parse_data`, the newline-joined
recipients column and the router. **MailParser** has the MIME walk over trees
of parts and the header split it falls back to. A message is a function from
the places of its parts (`<<2, 1>>` is the first part of the second part of the
message) to what the walk looks at, the number of its parts included; `Depth`
bounds the nesting, and a message has no other bound. **Html** is
`html_to_text` over tokens: the three loops that move a cursor over the text
are one `Walk`, given what is written at each token and where the cursor goes
next. **Algorithms** evaluates each of them on every input of its constants and
states what it should return. Loops and recursive functions of the code are
recursive functions over numbers or places, so that they can be evaluated by
TLC and proved about.

Operators marked "A plausible defect" are variants of the definition below
them, never used by a specification; they record which mistake each property
would catch.

### Abstractions worth knowing

* The clock is read just before the claim and the two are one step. A row
  inserted between them is due in either order (`next_attempt_at = 0`).
* Reading the shutdown flag and the `next_wakeup` query are one step (`Park`);
  no other task changes a backing-off row.
* The worker's locals are reset at the end of an iteration (`NextIteration`),
  as they go out of scope in the code.
* There is one clock. In the code `next_attempt_at` is wall time and sleeps are
  monotonic time; setting the clock back is not modelled.
* Failure outcomes are free: any store call, connect, query or send may fail,
  within the named bounds `MaxFaults` and `MaxFails`; sends may always fail.
* In Delivery the route, join and encryption checks of `send_message` are one
  alternative: the send fails before a request has left (`SinkErr`). They are
  apart in MatrixClient and Routing.
* In SmtpServer reading a message is one step with three outcomes; SmtpRead
  shows which outcome a stream has. SmtpRead in turn does not tell commands
  apart, except that one may end the session.
* History variables (`fails`; `txn`; `torn`; `wipes`, `lateError`; `round`,
  `deadSeen`, `warnedDead`) are read by properties only.

## What TLC checks

| Run | Instance | Shows |
|---|---|---|
| `delivery_crash` | 2 messages, 1 retry, one session (an access token) across 2 starts, crash and signal at every step | `NoLoss`, `KeysNeverCollide`, `NoDuplicatePosts`, `DeadOnlyAfterRetries`, `NoLostWakeup`, `SleepCoversRetries`, `NewMailFirst`, `KeepsPromise` (Delivery implements AtLeastOnce) |
| `delivery_liveness` | 1 message, 1 retry, crashes and a storage or connect failure at any step, a new session per start, fairness | `Inv` (the inductive invariant of the proofs, with `NoLoss` and `DeadOnlyAfterRetries` among its parts), `OncePerSession`, `EventuallySettled`, `ShutdownStopsWorker` |
| `power_fresh` | 2 messages, `max_len` 1, power loss at every step, a new session per start | `FlushedNeverLost`, `RefusedLeavesNoTrace`, `QueueBounded` |
| `smtp_server` | 3 connections, 2 permits, 2 transactions each | `SlotsConserved`, `AnswersAreTrue`, `EnvelopeOfOneTransaction` |
| `smtp_read` | every stream of up to 7 bytes (6 with carriage returns), every way of cutting it, `max_size` 2, commands of 3 bytes | `AcceptedIsSent`, `RefusedIsTooLarge`, `BufferBounded`, `CommandsAreLines`, `SessionEnds` |
| `matrix_client` | 2 devices, every way to give the credentials, 1 edit, 2 starts, 2 failures | `TypeOK`, `NoLateConfigError`, `ConnectedAsConfigured`, `PinnedWipedOnce`, `PinnedKeysKept`, `NoPlaintext`, `EventuallyConnects` |
| `monitor` | 2 messages, 2 starts, 1 failed query | `NothingUncounted`, `DeadLettersWarned` |
| `algorithms` | all inputs of MCAlgorithms: 8-bit backoff, envelopes with up to 2 recipients and 2 rules, trees of up to 3 parts, up to 5 lines, documents of up to 6 tokens | `MatchesExactFormula`, `RoutedAsGiven`, `RecipientsSurvive`, `ShowsFirstText`, `AttachmentsNamed`, `SplitAtFirstBlank`, `VisibleTextKept`, `TidyText` |

Four more runs end in a counterexample and belong to the findings below.

**Bounds.** Two messages are the least at which ids can collide, one message
can overtake another, and two sessions can want the last place in the
queue. One retry gives an initial attempt, a reschedule and a dead letter; two
starts put a crash before, between and after every pair of steps. The delays
are 2 and 3 ticks, the idle sleep 4, the error waits 1, so that every order of
these deadlines occurs; the run about power loss, which checks nothing about
time, shortens the idle sleep to 1. The clock runs freely up to `ClockBound`;
beyond it, it advances only while the worker sleeps and a row is stored or a
stop request has been consumed, which keeps the state space finite and cuts off
nothing a stored row or a stop could depend on.
Storage and connect failures are tried with one message, under crashes; with
several messages `DeadOnlyAfterRetries`, `NoLostWakeup`, `SleepCoversRetries`
and `NewMailFirst` are proved for any number of failures (below).
Seven bytes hold a stuffed line, a terminator of either form and a command
behind it, or a line beyond its budget at every fill of the message; with
`max_size` 2 the boundary lies inside them. Two starts, two failures and one
edit are enough for a reset of the crypto store that is cut short, finished by
the next attempt, and met again under another file. Eight bits put both
saturations of `backoff_seconds` inside the attempts tried. Messages and
connections are symmetric in the safety runs; the runs with liveness use no
symmetry. Deadlock is not checked: a service that has been stopped, or a
session that has been closed, rightly does nothing more.

**Fairness.** In Delivery: weak fairness of the worker's steps (the runtime
polls a ready task, and connect and send end in an answer or a timeout), of the
clock, of the exit of a process whose worker has stopped (`main` awaits it and
returns), and of the start after a crash (`Restart=on-failure` in the systemd
unit). None is assumed of the senders, of signals, crashes or failures, or of
the homeserver's handling of sends: a connected worker whose sends are never
answered settles a message by its dead letter. Connecting is different:
attempts are counted only by a connected worker, so a homeserver that is out of
reach from the start leaves rows pending for as long as it is. `ConnectErr` is
bounded by `MaxFaults`, and `EventuallySettled` says what happens once
`connect` succeeds. In SmtpRead: the session's task is polled, and the client
sends what it has and closes, or is cut off by `smtp.timeout`. In MatrixClient
and Monitor: the process is scheduled and systemd starts it again; failures
are bounded there, so that "in the end" means once they stop.

## What is proved

Eight modules hold theorems, for every value of the constants: any messages,
retries, starts, failures, delays and limits, any connections and permits, any
streams and chunks, any configurations and devices, any mail and any widths of
integers. The assumptions are the `ASSUME`s of the modelling modules:
parameters are natural numbers, `Delay` is defined for each retry, `NoRow` is
not a row, connections and the monitor's messages are finitely many, what an
operator gives is a configuration, a message is a finite tree of parts of
bounded depth (what mailparse returns), and an address is neither empty nor a
newline. The theorems about power loss also assume `FreshSession`: without it
they are false (see the findings).

**DeliveryProofs**: `TypeCorrect`; `InvHolds`; `NothingIsLost` (`NoLoss`);
`PostedOncePerSession`; `NoKeyCollision`; `GivesUpOnlyWhenExhausted`;
`RefusalIsClean`; `PostedOnceWithToken` (`NoDuplicatePosts`, when the session
lasts); `DeliveryKeepsPromise`. `NoLoss` is not inductive. `MarkDelivered` removes a row, so the row
must be known to be posted: `HeldIsLive`. It is known to be posted because an
event has the row's key, so keys must speak of one message each: `RequestKeys`.
A new row must not get an id that an old request carries: `RowIds` and the
bound of keys by `seq` in `RequestKeys`. A new row's message must not have been
sent before: `UnstoredIsUnknown`. The removal by id must take one row and no
other message's row: `RowIds` and `OneHome`. For `DeadOnlyAfterRetries` the
persisted count must not exceed the real failures: `AttemptsCounted`. `Inv` is
the conjunction. Its proof has a lemma for each kind of step: `QuietSteps`,
which leave tables and network alone (by `Frame`), `InsertStep`, `NetworkSteps`
and `SettlingSteps`; the lemmas on Outbox say which rows each statement leaves.

**WakeupProofs**: `NoWakeupIsLost`, `NoRetryIsOverslept`, `CapIsKept`,
`NewMailGoesFirst`. `NoLostWakeup` and `SleepCoversRetries` are inductive given
`Inv`; the first needs `UnstoredIsUnknown`, so that an insert does not concern
a row already there. That new mail goes first needs `DueTimes`: a row that was
never tried has `next_attempt_at` 0 and a row that failed has not, because the
clock never reads 0. The cap needs the outbox to be finite.

`DeliveryKeepsPromise` says that Delivery implements AtLeastOnce. `RunInsert`
is `Store`, the 250 is `Ack`, a request the homeserver accepts is `Post`,
`MarkDelivered` is `Settle` (allowed because of `HeldIsLive`), the exhausting
`RecordFailure` is `GiveUp`, and all other steps stutter.

**PowerLossProofs**: `PowerInvHolds`; `WhatReachedTheDiskIsSafe`
(`FlushedNeverLost`); `KeysSurvivePowerLoss`, `OncePerSessionAfterPowerLoss` and
`GivesUpLateAfterPowerLoss`, which are properties of Delivery that survive a
power loss. `Inv` does not: unflushed rows are lost, and their ids are given
out again, so `NoLoss` and `RequestKeys` are false. `PowerInv` therefore speaks
of one session (`SessionKeys`, `KeysAreIds`), and says of both databases, the
one the process sees and the one on the disk, that they are `Sound` with
respect to the stations and failures there have been: these only grow, so a
database taken back in time stays sound (`StaysSound`). A new session per start
separates the ids given out before a power loss from those given out after it.

**SmtpServerProofs**: `PermitsAreConserved`, `AnswersStayTrue`,
`EnvelopesAreUnmixed`. `ServerInv` follows a message from its envelope
(`EnvelopeHeld`) to the pool, where it is exactly its session's message as long
as the session waits or was cut off (`PoolIsCurrent`), to the outbox
(`StoredIsKnown`, `StoredBeforeAnswer`). Then a 451 can only be given for a
message no insert is left of, and no later insert can be for a transaction that
is over (`RefusedIsOver`).

**SmtpReadProofs**: `ReadInvHolds`, `MemoryIsBounded`, `CommandsAreWholeLines`,
`AcceptedMessagesAreSent` (`AcceptedIsSent`), `RefusedMessagesAreTooLarge`.
`ReadInv` says that the line read so far is the piece of the stream that ends
at `pos` (`LineIsPiece`), began at a line's start (`LineBeginsRight`), has no
line feed but its last byte (`NoInnerNewline`), and is returned only when it is
complete or the client has closed (`LineIsWhole`). A refused message breaks
this for what is read after it (`torn`), as it does in the code. For the
message, `Copied` says that `data` is the copy of the stream up to the line
being read: byte k of it is the k-th byte that is kept, where the rank of a
byte is how many bytes up to it are no stuffing (`Rank`). One more line adds
that line to the copy, or the line without its first dot, and no terminator has
been passed. A refusal comes either from the line budget or from the total; in
both cases the kept bytes before the end of the message are more than
`max_size`, since the rank only grows.

**MatrixClientProofs**: `ClientTypeCorrect`, `ConfigErrorsComeEarly`, `ConnectsAsConfigured`,
`StoreIsNotChurned`, `ConfiguredKeysKept`, `NothingInTheClear`. `ClientInv`
says that a running process works with a configuration `validate` accepted
(`Loaded`), that from the login on session, store and pinned device agree
(`SessionKeys`, `Confirmed`), that a reset only begins on another device's
store (`ResetOthersOnly`), and that after one the store can only become the
pinned device's (`WipedForPin`).

**MonitorProofs**: `StatusMissesNothing`. A count is the size of a set; what
the first query did not see and is still on record must be among the dead
letters when the second one runs (`QueueCounted`), since a stored message never
returns to the queue (`RecordIsStored`).

**AlgorithmsProofs**: for every input. The library's induction theorems cannot
be used here, so the module has its own, about sets instead of predicates:
`UpTo` (a set that has 0 and the successor of each of its members has every
number up to n) follows from the existence of least numbers; `LoopExists` and
`LoopRuns` (a loop over 1 .. n has states), `TreeRecursion` (a function that calls
itself for longer places only is well defined), `TreeInduction`, `SeqInduction`
(entry by entry) and `LengthInduction` (from shorter to longer) follow from it.

* `BackoffIsExact`: when a power or a product saturates, the exact value
  exceeds the width, so the cap decides in both (`SaturationIsHarmless`).
* `RecipientsComeBack`: after n recipients the joined text is one address per
  odd position and a newline between (`JoinShape`); splitting reads it back
  token by token (`SplitLoop`, `DecodeEncode`). It needs that no recipient is
  empty or a newline, which `parse_rcpt_to` sees to.
* `RoutingFollowsTheEnvelope`: the addresses of the queued message are those
  the client gave (`RecipientsLemma`, `MatchesGiven`).
* `SubjectAndBodyAreFound`: `ScanInv` describes the loop's state after n lines
  by those lines alone: whether a blank one was seen, the body so far, and the
  subject with whether a fold would still continue it (`SubjectIs`).
* `RenderedTextIsTidy`: whatever the earlier passes return is a sequence
  (`WalkTyped`); a line of `collapse_spaces` is `Neat`, with a pending gap only
  after a word; the lines kept are `Spaced`, and `blankRun` is positive when the
  last of them is blank.
* `VisibleTextIsKept`: the property compares the text with the glyphs outside
  script and head elements, and each pass is shown to keep them. A well-formed
  document is a token that opens no element, or a whole element, and a shorter
  well-formed document (`RestPaired`); for both, what `strip_elements` writes
  (`StripsToken`, `StripsElement`) and what is visible (`VisibleToken`,
  `VisibleElement`) change alike, hence `StripKeepsVisible` by
  `LengthInduction`. The cursor of a pass may be shifted: once it stands at a
  text, what came before does not matter (`StripShift`), and it goes through a
  head element in the script and style passes unchanged (`StripThrough`). On
  what is left, tags and entities are replaced token by token (`DropTagsMaps`,
  `DecodeEntitiesMaps`, composed by `MappedTwice`): decoding last is why an
  escaped angle bracket survives. `tidy` keeps the glyphs in each of its loops
  (`LinesKeepGlyphs`, `CollapseKeepsGlyphs`, `AddKeepsGlyphs`,
  `CutKeepsGlyphs`).
* `FirstTextIsShown`, `NoAttachmentIsMissed`: by induction over the tree, the
  text found at a place is the first candidate below it in document order
  (`FindsFirst`), and the list collected there has exactly the attachments below
  it, in order (`CollectsAttachments`). Both rest on `EarlierPartFirst`: what
  is below an earlier part comes before what is below a later one.

Only model-checked: the liveness properties (`EventuallySettled`,
`ShutdownStopsWorker`, `SessionEnds`, `EventuallyConnects`,
`DeadLettersWarned`); fairness and ENABLED are outside the prover's reach.
Every invariant and every action property that a passing run checks is also
proved.

## Findings

Each is a statement of the repository that a run refutes; `PROJECT.json` quotes
it with its line.

* `power_acked`: `enqueue` is documented to return once the row is "committed
  to disk". With `synchronous=NORMAL` in WAL mode the commit is not flushed,
  and a power loss after the 250 loses the message. A crash of the process
  alone loses nothing (`NoLoss`).
* `restart_duplicate`: the README says that a crash between a successful send
  and the removal redelivers "as a genuine duplicate (the restart is a new
  session, so the transaction id no longer dedupes it)". With an access token
  the restart is no new session: `connect` restores the configured one, the
  transaction id depends on the row's id only, and the homeserver answers the
  second send with the first event. `RestartDuplicates` states the README's
  sentence and is refuted; with `FreshSession = TRUE` in `DeliveryRestart.cfg`
  it holds. The other side of it is `NoDuplicatePosts` in `delivery_crash`,
  proved as `PostedOnceWithToken`. No harm is done, but an operator who can
  choose the login would want to know; it rests on the homeserver remembering
  the id until the restart.
* `html_header`: `strip_elements` is documented to remove the named elements,
  which are script, style and head. It looks for `<head` and does not look
  where the name ends, so a `<header>` element goes too, with its content.
  Apart from such documents nothing visible is lost (`VisibleTextKept`).
* `monitor_outage`: the README says the monitor warns "when it is queuing mail
  without a Matrix connection", so that an outage is visible. The flag it looks
  at is set by the first connect and never cleared: an outage that begins later
  is not warned about until messages are dead-lettered.

Also seen while modelling, without a run of their own:

* With an access token, a power loss that also takes back the AUTOINCREMENT
  counter lets a new message reuse an id, hence the transaction id, of one
  already posted; the homeserver answers with the old event, and the message is
  removed as delivered. (`FlushedNeverLost` fails with `FreshSession = FALSE`
  in `PowerFresh.cfg`; with a new session per start it holds.)
* A session dropped between the commit and `notify_one` leaves a row the worker
  is not told of. It is found after the idle sleep: this is the `silent` case
  of `NoLostWakeup`, and `EventuallySettled` shows that it is found.
* A message committed between the last empty claim and the check of the
  shutdown flag is due when the worker stops and is not drained. It stays in
  the outbox for the next start.
* Aborting the accept loop does not end the sessions it spawned, which go on
  storing and acknowledging mail during the drain. None of it is lost.
* A failure that cannot be recorded (`StoreWriteErr` after `SinkErr`) is not
  counted, so a message may be attempted more often than `max_retries` says;
  `DeadOnlyAfterRetries` is therefore a lower bound only.
* After a 552 the rest of the message is read as commands (`torn`); the
  buffers stay bounded and the session ends all the same.
* A room that becomes encrypted after the connect is refused, with
  `require_e2ee`, until the next connect: `sync_once` runs only there.

## What is not modelled

* Formatting of messages (a minijinja template) and the wording of the
  attachment note: no state, and no decision depends on them.
* The error type and the library glue, which are declarations, and the
  installation files, of which only `Restart=on-failure` is used.
* Matrix itself: the homeserver is what `connect` and `send_message` rely on,
  and the SDK's crypto store is the device whose keys it holds. mailparse,
  SQLite and the async runtime are modelled from how the code uses them.
* Time inside a session: `smtp.timeout` and `max_session_seconds` may fire at
  any await, in particular at once.
* A wall clock that is set back.

## What is left to do

* The composition of SmtpRead, SmtpServer and Delivery in one module, and a
  second clock for `next_attempt_at`.
