# BlackBear Edge Bridge in TLA+

The bridge (BEB) stands between a PLC that speaks MQTT and an Odoo server that
speaks XML-RPC. It stores what the PLC reports, submits it to Odoo until Odoo
accepts it, answers the PLC with Odoo's ACK, counts production for ever, and
passes commands of Odoo on to the PLC. This directory holds models of it, the
configurations that check them with TLC, and proofs checked by TLAPS. Every
definition is translated from the code; `PROJECT.json` names the lines.

## 1. The system

### Components

| component | code | state it keeps | operations | modelled |
|---|---|---|---|---|
| durable queue | `app/database.py` 180-800 | table `mqtt_messages` (SQLite, WAL) | `save_message`, `claim_pending_messages`, `mark_completed`, `mark_failed`, `reset_stale_processing` | `MessageQueue` |
| queue worker | `app/queue_worker.py` | batch, active submission and child in memory | `run_once`, `_process_record`, `_submit_with_hard_timeout`, `recover_stale_processing`, `start`, `stop` | `QueueWorker` |
| production records and summary | `app/database.py` 940-1130, 1445-1785; `app/sqlite_lifecycle.py` | tables `production_records`, `daily_production_summary` | upsert and increment, reconciliation at startup, cleanup every 24 h | `ProductionLifecycle` |
| command API | `app/api.py`; `app/database.py` 226-426 | table `api_commands` | `POST /api/v1/plc/command`; read-only routes | `CommandApi` |
| MQTT client | `app/mqtt_client.py`; `app/database.py` 844-917 | paho connection and network thread, replay throttle columns | `_on_connect`, `_on_message`, duplicate ACK replay, publications | `AckReplay` |
| readiness monitor | `app/readiness.py` | debounced state READY / NOT_READY / UNKNOWN | `run_check_once`, `BR` publications | `Readiness` |
| Odoo client | `app/odoo_client.py` | cached uid and proxies | `authenticate`, `submit_print_data`, `check_readiness` | `OdooSession`, `Readiness` |
| PLC message parser | `app/message_parser.py`; `payload_from_record` | none | parsing at the intake and before each submission | `PlcMessage` |
| worker's health | `app/queue_worker.py` 71-140, 290-320 | heartbeat, current record | what the worker leaves behind, `health_snapshot` | `WorkerHealth` |
| wiring | `app/main.py` | threads | startup and shutdown order | in each model |
| command validation, configuration, logging, HTTP server, dashboard queries, scripts | the rest | none | pure or read-only | no |

### How they interact

- **Threads**: paho's network thread (`_on_message`), the worker thread, the
  watchdog thread, the lifecycle thread, the readiness thread, the API's event
  loop, and one child process per submission. There is no lock between them but
  SQLite's: every function of `database.py` opens its own connection.
- **SQLite**: `_open_connection` begins a *deferred* transaction in WAL mode. A
  transaction that reads first and writes later is refused at once (and not
  after the 30 s busy timeout) when another connection committed in between.
  Only `claim_pending_messages` and the replay throttle take the write lock
  first.
- **MQTT** is QoS 0: messages and ACKs can be lost, and the PLC resends. An
  exception in `_on_message` ends paho's network thread.
- **The container** is restarted by its policy (`docker-compose.yml`,
  `restart: unless-stopped`); everything but the database file is lost.

### What is hard, and what correct means

- *Queue and worker.* The watchdog takes rows back that the worker still holds
  in memory; `mark_completed` and `mark_failed` overwrite any status. A message
  must be settled once and for good, Odoo asked a bounded number of times, a
  timed-out record left to the operator, and an ACK sent only for a durable
  completion.
- *Production.* `summary_applied` is the only trace of what was counted, and the
  cleanup deletes it. Each accepted message must be counted exactly once in the
  permanent summary, whatever was deleted since.
- *Command API.* Check, insertion, publication and stored response are separate
  steps with failures between them. A key must be published once within its
  time to live, and nobody may be told something untrue.
- *MQTT intake and replay.* The handler runs several transactions against the
  cleanup; a throttle counts attempts and not receipts, and stores their times
  truncated. Replays must stay within their budget, and a PLC that keeps
  resending must hear its ACK in the end.
- *Readiness.* Checks last long, may be answered from a cached uid, and their
  results alternate; `BR` has two publishers (monitor and API) without a lock.
  The state must change only after a debounce of equal results, and in the end
  be what the PLC heard.
- *Odoo session.* The worker's uid is all it knows of Odoo. An outage must not
  use up the retries of the rows in the queue.
- *Labels.* Two functions read the same value by different rules; what one
  accepts the other should submit, with nothing cut off.
- *Health.* Only the age of two timestamps tells a stuck worker from a slow one.

The hazards are listed in `PROJECT.json` at the lines where they bite, those no
property covers yet included.

## 2. The modules

| module | what it is |
|---|---|
| `MessageQueue` | the table `mqtt_messages` and the transactions on it, as operators |
| `QueueWorker` (extends it) | worker, child, watchdog, MQTT callback, shutdown, crash, restart; properties and inductive invariant |
| `QueuePromise` | the abstract specification: messages are open, done or dead, once and for good |
| `MCQueue` | the prompt variant of the specification and the README's claims, for TLC |
| `QueueWorkerProofs` | the proofs about `QueueWorker` |
| `ProductionLifecycle`, `MCLifecycle`, `ProductionLifecycleProofs` | records, summary, reconciliation, cleanup |
| `DailyLedger` | the abstract specification of the summary: a view of a ledger that only grows |
| `CommandApi`, `MCCommandApi`, `CommandApiProofs` | the command handler and its audit table |
| `CommandPromise` | the abstract specification of the handler: decided once, told once and truly |
| `AckReplay`, `MCReplay`, `AckReplayProofs` | the MQTT connection, the intake and the duplicate ACK replay |
| `ReplayBudget` | the abstract specification of the throttle: grants in a window |
| `Readiness`, `MCReadiness`, `ReadinessProofs` | monitor, its Odoo session, the API's refresh of `BR=1` and what the PLC heard |
| `OdooSession`, `OdooSessionProofs` | the worker's and the children's Odoo clients and what an outage costs |
| `PlcMessage`, `PlcMessageProofs` | a message's value as the parser and as the worker read it |
| `WorkerHealth`, `WorkerHealthProofs` | heartbeat, current record and the health report |

Definitions whose comment begins with "Mutated form of" are not part of the
models. Each is a plausible mistake in the definition that follows it, listed
under `mutants` with the property it must break.

### MessageQueue and QueueWorker

`status`, `retryCount`, `age` and `lastError` are the columns control depends
on; `age` is the time since `last_attempt_at`, because only differences are
ever compared, and saturates one tick above the stale limit. A row's id stands
for its message: ids are handed out in order and the hash is UNIQUE.

The worker's program counter `phase` stops at each point where another thread
can act:

| phase | in the code |
|---|---|
| `idle`, `polling` | `_run_loop` waits; `run_once` authenticates and claims |
| `ready` | between two rows of the claimed batch |
| `registered` | the active submission is set, the child not started |
| `waiting` | `process.join(timeout)`; the child logs in and asks Odoo (`ChildSubmits`), once more after an authentication-like Fault |
| `settled` | the result is classified, nothing written |
| `completing` | `mark_completed` between its SELECT and its UPDATE |
| `publishing` | COMPLETED is committed, the ACK not sent |

`calls` counts the requests of the running child, which survive it in `submits`: a
child killed by its timeout or a crash may have made none, one or two. `snapshotStale`
says that another connection committed while `mark_completed`
held its read snapshot: `Complete` is then impossible and `CompletionRefused`
the only way on. `wdTargets` is what the watchdog computed before its UPDATE
(`WatchdogLooks`, `WatchdogRecovers`). `Claim` takes rows out of `wdTargets`,
since their new `last_attempt_at` no longer matches the cutoff. `RunOnceRaises`
is every exception that leaves `run_once`. `OtherTableWritten` stands for commits on
other tables; the cleanup's deletion of COMPLETED rows is `ProductionLifecycle`'s, and
here such a row stays. `Stop`, `Exit` and `Start` are
shutdown, end and restart of the process, possible in every phase.

### ProductionLifecycle

Every action is one transaction. `row` and `record` follow a message through
`mqtt_messages` and `production_records`; `counted` is history. The initial
states include databases of an earlier version: rows completed with an ACK
(which reconciliation will count), or without one (which nothing ever selects).
`first` and `last` of a summary name the rows whose ACK and time it shows.
`Start` is `reconcile_completed_production_records`, which `main` runs before
any thread: at most a batch of rows, in id order, of which some may be skipped
by the exception handler, with or without their record written. `Cleanup`
deletes raw rows first, then audit rows of the API (whose number is a choice
here), then records, all within one batch size. What is left out: a statement that fails after
the increment and before `summary_applied = 1` within a transaction that still
commits (there is no savepoint), which takes an I/O error SQLite survives.
`KeepsLedger` maps the counted rows and their completion times to the ledger of
`DailyLedger`, which is stored nowhere: a step of the bridge enters rows, once and
for good, or changes neither the ledger nor the summary.

### CommandApi

One action per transaction or publication of `plc_command`. `key` is the header
(a value, empty, or missing: an empty header is stored as a value and not
looked up), `valid` the verdict of size limit, JSON decoder and
`validate_plc_command`. `HoldsLoop` is the event loop: the coroutine awaits only
the body, so from its first step after that (`Check` or `Reject`) to its answer
no other request is handled. `StoreFails` is any refused transaction, `Restart`
the end of the process, `Cleanup` the lifecycle thread, all possible between
two steps. `Deliver` is the refresh of `BR=1` that precedes a print job together
with the publication itself; either may fail and both leave the row as it is.
`KeepsCommandPromise` maps requests past `new` to those that asked, `outcome` to a
fate (open, published, withheld) and `reply` to what was told; 409 and 500 tell
nothing. Table, event loop, clock, cleanup and restarts disappear in the mapping.

### AckReplay and ReplayBudget

paho's network thread runs `_on_message` to its end before it takes the next
message. `at` stops where another connection can commit: between the lookup and
the insertion of `save_message` (`inserting`), before the duplicate's row is
read again (`reading`), between the clock reading of
`record_ack_replay_attempt` and its write lock (`attempting`), and before the
publication (`replaying`). `dead` is the network thread after an exception left
`_on_message`; nothing starts another. Times are kept as ages: `gap` is what the
attempt computes from its clock reading, `lag` how old that reading is when the
decision is committed, and `phase` and `frac` follow the clock within a second,
because `_format_timestamp` drops the fraction. `recent` is history: the ages of
the grants. `KeepsBudget` says that the two columns implement `ReplayBudget`, an
abstract budget of grants in a sliding window, with window and interval short
by what truncation takes off. The worker's own first ACK is in `QueueWorker`.

### Readiness

One check is `StartCheck` (the clock is read), `Version`, `Authenticate` where
the uid is absent or due for revalidation, and then `HandleSuccess` or
`HandleFailure`, with any number of ticks in between. `elapsed` and `span` are
ages at the clock reading; `run`, `runAge` and `span` are history, the latest
results without an opposite one. `Confirm` sets the state and `PublishBr` makes
the one attempt to publish it. `ReadReady` and `RefreshReady` are the two steps
of the API before a print job; the second one sends nothing if it finds MQTT
disconnected. `br` is what the PLC heard last; a restart leaves
it as it is. `sender` is history: whose publication was the last one, or that it
was lost.

### OdooSession

`uid` is the worker's client; each child has a client of its own, which logs in
(`login`), executes, and after a Fault that reads like one of authentication
logs in once more (`relogin`). `Answers` are the ways in which Odoo fails, as
the client's exceptions tell them apart; an answer that is neither a Fault nor a
transport error, such as one that does not parse, leaves the client as it was raised. `outages`, `charged`, `lost`,
`manual` and `odd` are history; `odd` says that Odoo has failed in a way the
client does not report as what it is. Business refusals, dying children and rows that go stale
in memory are left to `QueueWorker`.

### PlcMessage

A value is a sequence of tokens, the classes of text that the two readers tell
apart; its envelope says whether it decodes to a JSON object of one supported
field. Three tokens are blanks: the space, at which the parser splits, the newline,
which its compact pattern does not match, and every other character that `str.strip`
removes. `IsLabel` is the reference definition, written with quantifiers and not
after the code.

### WorkerHealth

The worker's steps with the time each may take (`Limit`); `late` records that
one took longer. `beat` is the age of the heartbeat as `health_snapshot` reads
it, from a timestamp without its fraction of a second; `current` that of the
record begun last. `spent` is history: how long the last call to Odoo since the
heartbeat took. The thread's end is not modelled: it catches every exception.

## 3. The runs

Where a module names a `FairSpec`, its passing run checks that; it implies `Spec`,
so safety and liveness are one run.

| run | bounds | shows |
|---|---|---|
| `queue_faults` | 2 rows, the second refused by the worker, 2 attempts, children of up to 2 requests, batches of 2, 2 shutdowns or crashes, refused writes | `IInv`, both budgets, ACK only when completed, finality of completed and timed-out rows, refinement of `QueuePromise`, every stored row settles |
| `queue_success` | 2 rows, batches of 1 | violated: an accepted message is submitted again |
| `queue_timeout` | 1 row, 1 crash | violated: a timed-out message is submitted again |
| `lifecycle` | 3 rows, 3 contents, 2 summary keys, batches of 2 (cleanup) and 1 (reconciliation), 4 ticks | `IInv`, counted once, exact summary, safe cleanup, resends recognised, refinement of `DailyLedger` |
| `api_commands` | 3 requests, a key, the empty key and none, 1 fault, 2 ticks | `IInv`, published once per key, true answers, 409 only after a fault, refinement of `CommandPromise` |
| `replay_budget` | 2 messages, 2 replays in 6 ticks, 3 apart, seconds of 2 ticks, 1 restart, refused writes | `IInv`; the throttle implements `ReplayBudget`; a PLC that keeps resending hears its ACK |
| `replay_reconnect` | 1 message | violated: the bridge reconnects |
| `ready_debounce` | delays of 3 and 5 ticks, revalidation after 4, 1 restart, lost publications, print jobs | `IInv`; changes are debounced; the PLC disagrees with the state only by a lost or overtaking publication; recovery and loss are reported in the end |
| `ready_race` | delays of 1 tick, print jobs | violated: a PLC with `BR=1` hears of NOT_READY |
| `session_outage` | 3 rows, batches of 2, 2 attempts, all five answers, 2 outages, 1 restart | `IInv`; an outage costs a row one attempt; submissions never go back, and end; the queue drains |
| `message_forms` | values of up to 6 tokens of 7 kinds | types; what is stored is a label, in its fields; what ends with its table is submitted |
| `health_alarm` | batches of 2, threshold of 6 ticks and submissions of up to 9, the proportion of the defaults (60 s, 90 s) | `IInv`; no alarm without a slow call or an exception, stuck workers reported, alarms end |

**Why the bounds are enough.** A batch of two rows is what it takes for one to
wait while the other is submitted; two attempts distinguish a retry from the
last one; two crashes allow one during the recovery from the other. In the lifecycle, three rows in batches of two leave one uncleaned, a
reconciliation batch of one leaves rows uncounted at every start, and four
ticks with a retention of one let the first row be deleted, stored again and
deleted once more. Three requests under one key are an original, its duplicate
and a use after the time to live; with one fault each step between two
transactions can be the interrupted one. In the replay two grants per window make
the third one wait, a second of two ticks is the shortest that truncation can
cut, and the second message shows that rows do not share their budget. The
readiness delays differ from each other and from the revalidation, so that a
check can be longer than each of them. Two outages with a login between them
are what distinguishes one charge per outage from one charge per batch. Six
tokens hold two models, a blank, a serial, a table and one token too many. A threshold
below the submission's limit makes the worker raise the alarms that `AlarmsAreTrue` has
to account for. The proofs hold for every bound.

`CHECK_DEADLOCK FALSE` is set where the bounded model or the modelled part really
ends: the command API after its last request and tick, the replay once the
network thread is dead and every row is in its last state, and a message once it
is submitted or refused.

**PromptSpec** (in `MCQueue`) lets time pass only while the worker waits for
its interval, for authentication or for a child within its limit. The violated
runs of the queue use it, so that what they show is not due to a slow machine.

**Fairness** (in `QueueWorker`) is that of the threads' loops. Worker and
watchdog loop with timed waits until the stop event, each call they make
returns, `join` by its timeout; time passes; a stopping process ends after its
bounded joins, and the container's restart policy starts it again. `Claim` has
strong fairness: Odoo authenticates again and again, if not always. Nothing is
assumed of the child, of Odoo's answers, of MQTT or of the PLC, and refused
writes may strike any row. In `AckReplay` the handler goes on, a client without
its broker tries again, and QoS 0 loses neither every copy of a message that the
PLC repeats nor every copy of an ACK (strong fairness of `Deliver` and
`Replay`); a subscription is assumed where the property names it. In `Readiness`
the monitor's loop goes on, calls to Odoo end by their socket timeout and
handlers of the API run to their end; nothing is assumed of publications, and the
properties name the loss, and the refresh that overtakes, as the only reasons for
the PLC to have heard something else. In `OdooSession` the worker goes on, calls end and the watchdog passes;
of Odoo nothing is assumed but what the property's premise says. In
`WorkerHealth` every step ends. The command API and the lifecycle have no
liveness property: the one ends with its client, the other with its thread, and
neither waits for anything.

### What the violated runs say

1. `queue_success`: a commit of any other connection between `mark_completed`'s
   SELECT and UPDATE loses the completion, and the message is printed again.
2. `queue_timeout`: a crash between the killing of the child and `mark_failed`
   makes a manual-verification record retryable.
3. `replay_reconnect`: a commit of any other connection between the lookup and the
   insertion of a new message, or the deletion of a duplicate's row after it was
   read, ends paho's network thread. The bridge then neither receives nor
   reconnects until it is restarted.
4. `ready_race`: the API's `BR=1` may follow the monitor's `BR=0`, and stays.

A fifth disagreement needs no run of its own. `README.md:277` of the bridge says that
any successful XML-RPC return completes the row; `AckedIsCompleted`, which holds, says
that only a success with an ACK does. A success without a valid ACK is stored as FAILED
and not retried, any other return without success as FAILED. It is listed under
`findings` with the passing run `queue_faults`.

### Where the properties end

Several properties hold only up to a limit that the code has and its documents do
not mention. The limit is part of the property, or an assumption on constants:

- `RetryBudget` says `MaxRetries + 1`, and `QueuePromise` lets a message that
  looks failed be completed: the watchdog protects only the active submission. A
  row that waits in the batch for longer than the stale limit becomes FAILED and
  is submitted all the same, which the status diagram (`README.md:242`) excludes.
- `SubmissionBudget` is twice `ODOO_MAX_RETRIES`: attempts are charged per child, and a
  child asks Odoo a second time after a Fault that reads like an authentication error
  (`odoo_client.py:186-189`). Each request may print a label.
- `PublishedOncePerKey` takes a retention no shorter than the time to live: the
  cleanup of `api_commands` does not look at the latter.
- `PendingOnlyAfterFault`: 409, "still being processed" (`api.py:590`), is given
  only when nothing is being processed.
- `ReplayBudget` is implemented with window and interval short of a second,
  which `_format_timestamp` truncates.
- `OutageCostsOneRetry` ends with the first answer that makes `odd` true: a login
  that ends in an XML-RPC Fault is none of the two errors after which the worker
  drops its uid, and it goes on claiming. At startup the same Fault ends the
  process, before the MQTT loop that would store messages has begun; `QueueDrains`
  holds only because the container starts it again.
- `AlarmsAreTrue` does not say that an alarm means a stuck worker: with the defaults a
  submission that takes more than about 60 of its 90 s raises one. It says that nothing
  but such a call, or an exception, does.
- `TrimmedIsSubmitted` is about values without a blank after their table: the
  parser strips the value (`message_parser.py:91`), the worker does not
  (`queue_worker.py:679`), so that one with such a blank is stored and refused at
  every attempt.
- `AlarmsAreTrue` (for the record's age) and `AlarmsEnd` exclude a worker that an exception left with a
  record begun: it skips `finish_record`, and an idle worker is then reported
  unhealthy until it begins another record.

## 4. The proofs

All theorems are about `Spec` and hold for every value of the constants that
satisfies the named assumptions in the modules (naturals; at least one attempt
and a batch of at least one row; model values that are distinct).

**QueueWorkerProofs.** None of the properties is inductive: whether a row may be
charged again depends on what the worker holds in memory. `IInv` adds

- `WorkerInv`: phase, batch and current row go together, and a row about to be
  completed was accepted by Odoo;
- `RowInv`: what a status says of the row's other columns (a PROCESSING row has
  an attempt left, a timeout text means exhausted and out of the worker's hands);
- `HeldInv`: a held row is PROCESSING, or FAILED and charged at most up to the
  limit, because the watchdog took it back;
- `CreditInv`: the requests made, plus those a claim or a running child may still make,
  never exceed `ChildCalls` (two) for each attempt charged and for PROCESSING. This is
  what bounds requests by twice `MaxRetries` even though a charge can be lost or
  doubled.

One lemma per action shows that it preserves `IInv`, with one step per conjunct.
`SettledRowStays` gives the two finality properties at once, since completed and
timed-out rows are out of the worker's hands. `PromiseKept` maps every step to
a step of `QueuePromise` or a stutter.

**ProductionLifecycleProofs.** `IInv` ties `counted` to the record: a record
says whether its row was counted as long as there is one, and it goes only
after its row, because the batch of the cleanup is spent on raw rows first
(`RecordsGoAfterRows`): while any old raw row remains, the raw rows have used
the whole batch up and `Left` is zero. `CountingIsExact` shows that an
increment by a set of rows keeps count, first and last exact; it rests on
`EarliestIsFirst` and `LatestIsLast`, which say that the rows chosen exist.
`LedgerKept` is the refinement of `DailyLedger`: `ExactIsView` reads the view off
`SummaryIsExact`, and `StepEnters` shows of every action that what is counted
stays so, at the same time.

**CommandApiProofs.** `RequestInv` ties the phase of a handler to its row,
outcome and reply; `KeyInv` says that a key is stored twice only when the
earlier row was deleted, a retention later. `KeyPublishedOnce` assumes
`Ttl <= Retention`; without it the cleanup deletes a response while its key is
alive, and the command can be published again. `PromiseKept` is the refinement of
`CommandPromise`. A stored response stands for the fate that `outcome` holds
(`StoredIsFate`), and an answer is the first its client gets, because `reply` is
empty until `done`. So every answer is a `Tell` (`VerdictKeeps`) or a
`TellNothing` (`ExcuseKeeps`), and `Reject` and `Deliver` are the only decisions.

**AckReplayProofs.** `RecentInv` is what the columns know of the grants: the stamp
is less than a second older than the youngest grant, and the count is no smaller
than the number of grants still in the window. `AttemptInv` says that the age an attempt
computed is not undercut while it waits for the lock. `ReplayKeepsBudget` maps
each grant to a grant of `ReplayBudget` by them, a deletion to a `Forget` and
everything else to a tick or a stutter.

**ReadinessProofs.** `TimersInv` says that a running timer is no older than the
run of equal results it measures, `ReadingInv` that what a check noted at its
clock reading still holds when its result is in. `ReadinessIsDebounced` follows
for all delays, with checks of any length. `HeardInv` is what the PLC heard: a
confirmed state is published before the next check begins, and a refresh says
`BR=1` whatever the state has become. `PlcHearsTheState` follows from it.

**OdooSessionProofs.** `ChargedInv` is the core: while the worker holds a uid, or
a row is in its memory, the outage that may be under way has not charged that
row. `OutagesAreCheap` follows by counting charges and restarts. Its premise
`Reported` is that Odoo has not yet failed in another way than the client reports.
`SubmissionsAdvance` proves the ranking `StepsLeft` by which every submission ends;
that its calls return, which is fairness, is left to TLC (`SubmissionsEnd`).

**PlcMessageProofs.** `IInv` ties the stage to what the readers found; the work is in
the operators. `LastPosition`, `LastSpace` and `LastModel` say where the library's
searches stop, `StripCuts` and `StripPart` which interval `Strip` keeps, `DigitsOfPart`
what the digit test accepts, and `FieldsAre` puts them together: what a value is split
into depends on its last space, or else on its last model. `LabelSplits` shows that
the code cuts a label at the places `IsLabelAt` names, `SplitIsLabel` that what it
cuts is a label. `IntakeStoresLabels` follows, for values of any length, where the run
stops at six tokens.

**WorkerHealthProofs.** `IInv` makes the heartbeat's age up from the call to Odoo since
(`spent`, or `here` while it lasts) and what the steps around it may take, and bounds it
from below by the step under way; `AgesAreTrue` is that part. `NoAlarmWithoutSlowCall`
and `StuckWorkerIsReported` are its two sides. Neither assumes anything of the
threshold, so both cover the defaults, where it is below the limit of a submission.

**Checked by TLC alone**: all liveness properties (`EverySettles`,
`RepeatedIsAnswered`, `RecoveryIsReported`, `LossIsReported`, `SubmissionsEnd`,
`QueueDrains`, `AlarmsEnd`), because liveness under fairness is beyond the
prover; and the violated properties. Every other property of a passing run is stated
by a theorem.

## 5. What is not modelled

- Texts, log lines, the dashboard routes and the answers of `/health` other than
  the worker's: reads without state. The cache of the database status only
  delays a read.
- `validate_plc_command`: its verdict is the choice of `valid` in `CommandApi`. It
  is a table of allowed values, and a specification of it would repeat it.
- The HTTP server thread: `uvicorn` is a library, and no state of the bridge
  depends on when it starts or stops.
- JSON and UTF-8 decoding, sockets and TLS, the paho client below its callbacks:
  libraries, of which the models keep what the code sees.
- Summary dimensions beyond their identity, `VACUUM`, negative or zero batch sizes
  and retries, negative retentions, clocks that go backwards.
- A statement that fails within a transaction that still commits (an I/O error
  SQLite survives).
- Startup and shutdown as a whole (`main`): each model has the start and the end
  of its own threads, in every phase. Nothing is handed from one component to
  another at either moment but what SQLite keeps.
- Compositions. Each component is checked against everything the others can do
  to it (their commits, deletions and restarts at any moment), which includes
  what a composed model would allow and more. A composition of `QueueWorker` with
  `ProductionLifecycle` would share only the transaction of `mark_completed`,
  which is one action in both.
