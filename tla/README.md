# onWatch: a verification development

TLA+ models of onWatch, model-checked with TLC and, where stated, proved with
TLAPS. The modules are written from the Go code; every definition that stands
for code names its lines in `PROJECT.json` (`map`). Contents: the inventory of
the system, the modules and how they correspond to the code, the runs and their
bounds, fairness, the proofs, the disagreements found, what is not modelled, the
plan.

## 1. The system

onWatch polls AI providers for quotas and collects usage lines of local tools.
It runs as one dashboard process, or as a central server with one collector per
device that ships usage and quota observations over HTTP.

    local tools --> source reader --> source-output files (one per UTC day)
                                          |  (byte offsets in collector-state.json)
                                          v
                                  collector runtime --> spool --> HTTP --> ingest server
                                      |     ^                               |
                       quarantine <---+     +--- desired configuration <----+--> central usage store
                                                                            |     (receipts, usage, archive)
                       provider quota APIs --> quota polling --> spool      +--> observations --> quota monitor
                                                                            |
                  device / owner commands and web handlers -----------------+

    provider agents --> trackers --> provider stores --> notifications, web UI
          ^                  |
    agent manager      session manager        poll health supervision

### Inventory

**Collector spool** (`internal/collector/spool.go`). State: one segment file per
UTC day, `state.json` with a cursor per segment, partial files. Operations:
`NewSpool` (recovers torn tails), `Append`, `Batch`, `Ack`, `SetError`, `Status`;
three of them also sweep acknowledged segments. One goroutine calls them; the
`collector status` command opens the same directory from another process without
the collector's lock. Hard: a crash between any two file operations, writes cut
short, the cap, the second process. Correct when an accepted event stays until
the server has answered for it, the cursor never runs ahead, the cap holds and no
torn bytes are destroyed.

**Collector runtime and upload protocol** (`runtime.go`, `client.go`,
`internal/ingestserver/server.go`, `internal/ingest/types.go`). State: source
offsets and the authorization pause, in memory and in `collector-state.json`;
two quarantine files. One `select` loop serves tickers for collection, upload
and heartbeat. Hard: the order append / save offset / remove file; a request that
times out and is processed later; 401 against a restart; a poison line; the same
event twice in one batch. Correct when no line is lost between two places, a
saved pause holds, and everything is delivered in the end.

**Central usage store** (`internal/store/central.go`,
`api_integrations_store.go`). State: receipts per device and event id, usage rows
unique by fingerprint, the hourly archive with the fingerprints of what it
contains. Operations: `StoreIngestBatch` (one transaction per batch), local
ingest, retention compaction. Hard: at-least-once delivery from several devices,
enrichment after the fact, retention between a delivery and its replay, rollback.
Correct when every usage counts once and an acknowledged event has a receipt.

**Poll ownership and device configuration** (`central.go`, `central_binding.go`,
`device_command.go`, `internal/collector/quota.go`). State: the active owner of
each account, the desired configuration and revision of each device, what each
collector has adopted. Operations: assign, unassign, revoke, bind; heartbeat,
adoption, upload of observations. Hard: commands that are two transactions, kills
between them, configurations read at authentication and adopted later. Correct
when a device is told to poll only what it owns, a revision names one
configuration, and current observations are accepted.

**Poll health supervision** (`internal/notify/poll_health.go`). State: one
persisted row per account, the in-app alert, the message under way. Outcomes are
recorded under a lock; messages are sent outside of it and their results recorded
later. Hard: a result that comes back after its incident, cancellation, crashes
between send and record, failed writes. Correct when there is one alert, no
repeated message within the cooldown, no recovery without a failure, and an
incident that lasts is announced.

**Agent manager** (`internal/agent/manager.go`). State: the map of running
agents and their goroutines. `Start`, `Stop`, `TriggerPoll(All)`, `StopAll`
release the lock between looking, constructing, removing and waiting. Correct
when no run escapes the map and no caller waits for ever.

**Quota cycle trackers** (`internal/tracker`). State: the open cycle and the
history of each quota in the tables, what the tracker remembers of the last
snapshot. One operation, `Process`, with two to four statements. Hard: a reset is
told from an early, moving, jittery, absent or late reset time and from the use;
statements fail in between; a restart forgets the memory; `UsageSummary` reads
while a poll writes. Correct when a cycle is closed for a reset and for nothing
else, in order, and counts no use twice; what falls short of this is in section 6.

**Provider agents** (`internal/agent`, `internal/api`), **Codex account manager**.
State: the token in the client, the pause and its failure counters, the
credentials on disk which another program renews and its user replaces. Hard:
refresh tokens that work once, a token read before and sent after a change on
disk, failed writes of new tokens, which Cursor keeps in two places, a pause that must end by itself. Correct when
no spent token is sent again, a refused token stays out until there is another,
an outage is told, and a login is used.

**Quota notifications** (`internal/notify/notify.go`, `pace.go`) and **session
detection** (`session_manager.go`). State: the notification log, the pace states in
memory, the open session. They run at the end of every poll, after the tracker and
the reset callbacks that `main.go` wires. Hard: a delivery and its log row are two
steps, the reset of a period must clear the log, the pace is restored from it after
a restart. Correct when a threshold is told once per period and not missed in the
next, and no session stays open.

**Central quota monitor** (`central_monitor.go`, `store/central_observations.go`,
`notify/quiet_weekly.go`). State: a cursor among the settings, one weekly checkpoint
per provider. Hard: the cursor is saved after the handling, uploads come late or
from a clock ahead, several accounts and two callers share the checkpoint, and the
claim precedes the delivery. Correct when the newest observation of an account is
never passed over and a week brings one message.

**Data transfer** (`store/transfer.go`). State: in the usage store, the rows that
come from other installations and the mapping from their identity there to a row
here. Operations: export, and import as one transaction. Hard: an archive is
imported again, late, out of order or through a third installation, while devices
deliver the same usage and retention archives it together with its mapping. Correct
when an archive adds its usage once.

**Agent usage source reader** (`internal/agentusage/collector.go`). State: the seen
keys in memory and in `.agent-usage-seen`, the output file of the day. Operation:
`CollectOnce`, called by the collector's runtime before it reads those files. Hard:
lines and keys are written one by one and either write may stop in the middle or be
torn; what a later run knows is what it finds on disk. Correct when no line it takes
for written is lost on the way to the server.

**Antigravity wake** (`antigravity_wake.go`): exclusion,
cooldown, a persisted result. **Backup**, **self-update**, **cycle migration**: sequences of file or database operations that
can be cut. **Web sessions and rate limiting** (`internal/web/middleware.go`).
**Process identity and daemon lifecycle**, **dashboard handlers**, **provider
stores**, **API clients**, **menubar**, **metrics and configuration**: start-up
wiring, I/O, queries and data conversion.

`PROJECT.json` lists every part with its files and status, and under `hazards`
what is hard to test, at its line, with the property that covers it or the reason
none does.

## 2. Modules

| module | models | composed with |
|---|---|---|
| `DurableQueue` | what a durable queue promises: accepted events stay pending until delivered | abstract specification of the next two |
| `Spool` | `spool.go`, one action per file operation, crashes between them; `SpecWithStatus` adds the status process | implements `DurableQueue` |
| `UsagePipeline` | the source reader, `runtime.go` and the ingest endpoint: output files and keys, offsets, spool, pause, quarantine, late and lost requests | implements `DurableQueue` |
| `IngestStore` | the usage half of `StoreIngestBatch`, local ingest and retention | the server behind `UsagePipeline` |
| `DataTransfer` | export and import of usage as operators on a database; the import is one more writer of it | extends `IngestStore`, shares its run |
| `PollOwnership` | owners, configurations, device commands and collectors, one transaction per action | uses the receipts of ingest in their simplest form |
| `PollHealth` | one account of the notification engine: critical sections of `pollHealthMu` and the sending goroutine | |
| `AgentManager` | the critical sections of `manager.go`, two web requests, `StopAll`, and the goroutine of each run | |
| `QuotaCycles` | the eleven trackers, one operator each, over the cycle tables; the provider is the environment | hands its resets to `QuotaAlerts` |
| `ProviderAuth` | one Codex, Cursor, Gemini or Claude agent and its credentials, from one read, write or request to the next | |
| `QuotaAlerts` | what a poll does with an answer: store, track, reset, notify, session | takes the reset from the tracker as given |
| `CentralMonitor` | the monitor's loop, the table of observations, and `checkQuietWeekly` with its two callers | reads what `PollOwnership` accepts |
| `SpoolProofs`, `UsagePipelineProofs`, `CentralMonitorProofs`, `PollHealthProofs`, `PollOwnershipProofs`, `QuotaAlertsProofs` | theorems of the modules they are named after | |
| `StoreProofs` | sums over finite sets; theorems of `IngestStore` with `DataTransfer`, and of `QuotaCycles` | extends the three |
| `AgentProofs` | theorems of `AgentManager` and of `ProviderAuth` | extends the two |
| `MC*` | the instances for TLC: model values and symmetry | |

How state and actions correspond to the code:

* `Spool`. `live`, `files`, `torn`, `partials` are the directory; `saved` is
  `cursorState.Offsets` in `state.json` and `mem` the copy in memory; `pc`, `op`,
  `ev`, `cur`, `upto`, `batch` are where the one goroutine stands. A record is one
  unit of size, a torn tail one more. Every sweep of the code is the actions
  `SweepStat`, `SweepUnlink`, `SweepDone` inside the call that makes it.
* `UsagePipeline`. `queue` is the spool as `Spool` shows it to its caller. Lines
  and events are in bijection (an event id is a digest of its line). A file is the
  sequence of its lines and an offset counts lines, because the code only ever
  stores offsets behind a newline. A line that was appended to a torn one is `glued`:
  nobody can parse it, and the runtime keeps its bytes in the source quarantine.
  `seen` and `seenFile` are the reader's keys in memory and on disk, `Known` what a
  `CollectOnce` starts from, `torn` the files whose last record is cut. `Collect` is
  the call that succeeds; `AppendFails`, `KeysFail` and `CollectCrashes` are the
  places where it stops (`m` lines belong to sources it had finished). `late` holds requests the client gave up on;
  they may still be processed, once, at any time.
  `spoolTorn` names the days whose segment ends in a torn record: `Append` refuses
  them until `Start` has run `recoverPartialTails`; `spent` is what acknowledged
  records of segments not yet reclaimed and torn tails take of the cap, any number
  that the sizes of real events allow. `Stop` is the restart without a fault.
* `IngestStore`. `db` is the committed database, `work` what the open transaction
  sees. `storeIngestEvent` is one action per outcome; the guards are disjoint and
  cover every case. Identity, fingerprint and metadata are fields of a small
  record; a payload is a token count and a set of metadata fields, and enriching
  is growing that set.
* `DataTransfer`. `Import` and `Export` take a database and return the result of the
  transaction, or the archive: the same operators serve this server and a third
  installation that imports from it. `booked` in the database adds up what was ever
  inserted, for the properties only. `records` are the rows of
  `data_transfer_records` for usage, `imported` the hourly rows with the scope of
  another installation, `prints` in them what they sum up, for the properties only.
  A refused import changes nothing and is no step.
* `PollOwnership`. `SetPollOwner`, `ClearPollOwner` and the other operators of
  the first section are the store's transactions; a command is a process that runs
  them one after the other and may be killed in between. Its `cli` record is what
  the command has read. `answer` is a request of a collector: the configuration
  it carries was read at its start.
* `PollHealth`. `row` is the persisted row, `send` the in-memory attempt, `job` what
  the call that holds `pollHealthMu` has still to write: alert, row and claim are three
  statements, dismissal and reset two, and the process may die between any of them.
  `lost` counts, for the properties only, the alerts that this or a failed write leaves
  without a row, or a row without. Time is
  the three thresholds the code compares against: ages are `none`, `recent`,
  `old`, and `later` is the comparison of the two timestamps.
* `AgentManager`. `call` holds the local variables of the call each caller is in;
  one action lies between two `Lock`/`Unlock` pairs. `run` is the goroutine that
  `Start` launches. A goroutine slot is reused once nobody refers to its run.

* `QuotaCycles`. `st` is what one tracker and its table hold: `active`, a summary of
  the closed cycles, and `mem`, the maps of the tracker (lost at a restart). A
  tracker is an operator from a state, a snapshot and the statement that fails to a
  result, because nothing else writes the table; only `UsageSummary` reads between
  two polls, as two steps. Use is counted in units larger than every percentage the
  trackers compare with. `provider` is the truth the snapshots sample. `half` marks the
  one place where the memory falls behind the table: a cycle has been opened and the
  write that would have moved the memory to it, or its own update, has failed.
  `recounted` adds up the use of the periods in which Codex gave a false 0% to a tracker
  that had no value to hold it against. Two quotas of Synthetic are checked, with one
  operator: `synthetic` announces fixed ends, `search` an end one window, an hour, after
  every answer, while its hours begin at any time of the clock's hour (`FirstEnds`).
* `ProviderAuth`. Tokens are numbers in the order of issue, an access and a refresh
  token under one number; `disk` is the credentials file or keychain, `db` the Gemini
  tokens in the settings table. Cursor's are in its SQLite database (`disk`) and in the
  keyring (`db`), the database is read first, and a save is up to four writes, one step
  each (`poll.writes`); it is reported when each token has reached some place
  (`poll.kept`). A write to a place without tokens, which may not be there at all, fails
  without counting as a fault. `sent` holds the one-time refresh tokens an agent has used,
  without those that a failed write or a stop has left in a place. `agent` holds the
  fields of the agent and its client, `poll` the local variables of the poll under way. `named` holds, for the properties
  only, what a poll has left the agent paused for: an access token, and for Gemini the
  refresh token it failed with. Another program acts between any
  two steps. A 429 and a server error are one failure, a cancelled context and a
  disabled provider change nothing. Claude's own token rotation (`anthropic_agent.go`)
  is not reached: `main.go:1098-1138` never gives an agent both the credentials and
  the switch that it needs.
* `QuotaAlerts`. `poll.pc` is where the poll stands; every statement, delivery and
  callback is a step that may fail and before which the process may stop. `log` is
  the table, `pace` the map in memory, `sm` the session manager. `VeryOver` keeps the
  order of `EvaluateWeeklyPace`: more use and less time are further ahead.
* `CentralMonitor`. `rows` is the table in the order of the ids. A batch is the set
  of ids left, cut anywhere for the limit of 100. The time is `monitor.at` for the
  loop and `now` when a call passes its guards, as in the code. A call holds
  `weeklyMu` from `Lock` to `Return`. Use of half and more is the choice `low`.

Definitions with an underscore and a comment that begins with `Mutant` are broken
variants of the definition next to them; no specification uses them. For each
property of each run `PROJECT.json` names one such variant that violates it.

## 3. Runs

| run | question | bounds | distinct states |
|---|---|---|---|
| `spool` | does the collector alone keep its events, cap, cursor and torn bytes, and is it a durable queue | 2 events that may each be appended again, 2 segments, 2 days, cap 3, batch 2 | 395,506 |
| `spool_status_loss` | *violated*: can `collector status` run beside the daemon | cap 2 | |
| `ingest_store` | does every usage count once under replay, enrichment, conflict, rename, retention, rollback, and an imported archive once | 2 devices, 6 forms of 2 usages, requests of 1 or 2 events, 2 cutoffs, 2 archives | 1,599,774 |
| `usage_pipeline` | is any line lost, does a pause hold, is it a durable queue, is everything delivered | an ordinary, an unreadable and a refused line, found one at a time, spool of 2, 2 days, 1 fault, any restarts | 393,792 |
| `poll_ownership` | do owners, configurations and collectors agree, and do they converge, with one command at a time | 2 devices, 1 account that needs a binding, revisions to 2, 2 faults | 233,106 |
| `poll_ownership_commands` | what holds when two commands interleave | 1 device, 2 accounts (one to bind), revisions to 2 | 1,509,165 |
| `poll_health` | one alert, no storm, no false recovery, lasting incidents announced | threshold 3, 3 incidents, 4 faults | 626,367 |
| `agent_manager` | does a run escape, does a call hang | 2 providers, 2 requests and the shutdown, 2 goroutines | 317,002 |
| `quota_cycles` | is a reset seen, only a reset, in order, counted once, while a summary is read | 11 trackers (12 quotas), period 4, 7 units of time (6 of Codex and Gemini), use to 2 a period, 1 failed statement | 2,964,385 |
| `provider_auth` | is a spent or refused token sent again, is a pause told, does a login end it | 7 kinds of agent, 3 tokens, 2 failures to a pause, 1 fault | 1,184,348 |
| `quota_alerts` | is an alert told once, in every period, apart; do sessions end | 2 periods, thresholds 2 and 3, use to 4, 2 faults | 2,771,989 |
| `central_monitor` | does the cursor skip a newest observation, does a week bring two messages | 2 accounts, 3 observations, a week of 4, 4 units of time, clocks 1 ahead, any faults | 8,470,464 |

Why the bounds are enough to be interesting:

* Two segments let a segment be swept while the next one is in use and let a name
  be created after a removal whose cursor was not saved. Cap 3 with two events is
  filled by a repeated record and a torn tail. Crashes, failed writes and lost
  answers are not bounded: only segments and days are.
* Two days are what makes a source file removable. Three lines are one of each
  fate. The spool of two is filled by a line that was appended twice, or by a torn
  tail beside a record; the second day has a segment of its own when the first is torn. One fault of
  any kind is enough to separate what is in memory from what is on disk and to
  leave a request on its way; that more faults change nothing for safety is what
  the proofs of section 5 say. The reader finds one new line at a time, so that a
  batch fails before, in or after its line; a part of a longer batch needs `MaxNew = 2`,
  which the proofs cover.
* The lines of `ingest_store` are chosen so that each outcome of
  `storeIngestEvent` occurs: the same event, with more metadata, with other
  tokens, at another time, the same usage under another id, and another usage. The
  second cutoff archives in two steps, so that an hourly row is added to. The two
  archives are the same installation before and after its own retention: they
  overlap, one of their rows was delivered by a device, and either may come first.
  TLC evaluates the two conditions on archives that `HistoryIsTakenOnce` assumes
  (`OneIdentity`, `OneHour`) on them.
* Two revisions let a collector skip one; the observation of the older revision is
  still in its spool when the newer is current. Two faults are a killed command
  and a restarted collector. In `poll_ownership` only one command runs at a time,
  as with one operator; the run with two commands states what holds without that
  assumption, and section 6 what does not.
* Threshold 3 lets missed intervals jump over an evaluation; three incidents let a
  message outlive its own incident and find the next one recovered, too. Four
  faults let every kind of write fail in one incident.
* Two goroutines are the one that winds down and its successor; `Install` waits
  for a free one, which is a restriction of the model only and does not touch
  waiting callers.

* A period of 4 and 7 units of time give each tracker an ordinary period, an early
  and a due reset, and polls that are left out for longer than the grace; 6 are
  enough for Codex and Gemini, whose resets are seen at the first answer or the one
  after it. A request for a summary is over before the poll after the next. The grace and the
  tolerance are one unit, a jittered or rolling reset time differs by one, and the shift threshold
  is two. One failed statement separates a table from a memory; a second would
  only repeat that. Two glitches have a true answer between them; the second, after a
  restart, adds to what the first had counted again. Of the search quota, whose hours
  begin anywhere, the 7 units hold a full hour of the clock within a running period.
  A fixed end of Synthetic is reset early in no run: it would be seen when its end moves
  to another hour.
* Three tokens are the first, its renewal and a login. Two failures make a pause
  that is neither the first refusal nor always. One fault is a lost answer after
  which the provider has spent the refresh token, a restart between a renewal and
  its save, or a write of Cursor's to a place that holds tokens; an agent starts with
  tokens in either place or in both. States that differ only in tokens nobody holds are
  one to TLC (`View` in `MCProviderAuth`): such a token does not come back, so that
  their futures are the same. Without the view TLC finds 4,225,618 states and the same
  answers, in four minutes instead of one and a half.
* Use to 4 passes the warning, the critical threshold and a second pace alert
  (2 apart). Two periods are enough for a row of the first to meet an alert of the
  second. Two faults lose a write and restart the engine that would remember it.
* Two accounts with weeks a day apart share the checkpoint; a week of four units lets
  both windows come within the run, and three rows are an older and a newer
  observation of one account and one of the other. `Delay` is 0: a late upload is one
  with an older capture time than a row before it, which a clock that is one unit
  ahead gives as well.

Symmetry is used in runs without liveness only: events, devices and commands are
interchangeable there.

Deadlock is checked in all runs.

## 4. Fairness

* `UsagePipeline`: weak fairness of what the goroutine does after it has chosen a
  ticker, of the service manager's restart and of the server's answers; strong
  fairness of each ticker's branch, because a Go `select` picks among the ready
  cases at random and a ticker that is due stays due. `EveryLineDelivered` assumes
  that the token stays accepted from some point on; without an operator's repair
  the code stays paused by design. It also assumes `[]<>(spoolTorn = {})`: whenever a
  short write has torn the spool, somebody restarts the collector. Without it TLC
  finds the line that waits for ever, since the process neither repairs the segment
  nor exits (section 7).
* `PollOwnership`: weak fairness of a device's request, of the server's answer and
  of the adoption: the heartbeat ticker and the HTTP handler. Commands and faults
  are finite by their bounds. Nothing is assumed of polling.
* `PollHealth`: weak fairness of the writes of a call, of the monitor's evaluation,
  of the sending goroutine and of the clock; strong fairness of the goroutine's second
  half, which waits for `pollHealthMu`: a Go mutex is handed to a goroutine that has
  waited for a millisecond. Poll outcomes are not fair: a poller may fall silent.
  A message comes back before a cooldown has passed, because every channel has a
  timeout of seconds.
* `ProviderAuth`: weak fairness of the poll's next step (the ticker goes on, requests
  have timeouts) and of the clock that ends Gemini's retry window. Nothing is assumed
  of users, owners and providers.
* `QuotaAlerts`: weak fairness of the poll's next step.
* `AgentManager`: weak fairness of each caller and each goroutine; an agent is
  only assumed to return once it has been cancelled.

## 5. Proofs

The modules are checked by `tlapm` with no assumption but the named `ASSUME` of
each component (finite bounds are positive naturals, special values are not
members of the sets). All proofs are for every value of the constants.

**`SpoolProofs`** proves `Spec => []I` for `I` = `TypeOK`, `UnackedPreserved`,
`CursorBehindDelivery`, `WithinCap`, the action properties `SavedCursorMonotone` and
`TornPreserved`, and the refinement `ImplementsQueue`. The argument is one inductive
invariant, `IInv`, because none of the properties is inductive alone.
`NamesFresh`: a name that was never created has no records and no cursor, and a
removed one at most a stale cursor that no new segment inherits; this is why a
crash between a removal and the save of the cursor is harmless. `CursorsAgree`: on
segments that exist the cursor in memory is the saved one. `BatchCovers`: the
records between the cursor and the end of the batch in flight are the batch, so
acknowledging passes nothing that was not sent. `Locals`: the segment a sweep is
about to remove is fully acknowledged. `Behind` and `Kept` are the two promises in
their raw form: what the cursor has passed is delivered, and what was accepted and
not delivered is in some live segment. `CapInv` adds for the cap that the room for a
record is still there when it is written, and that a removed segment leaves no torn
tail behind (`DiskShrinks`, `DiskGrows`: no step takes more than one unit). The last
two properties add that a segment which is
written to has no torn tail (`WritesCleanly`) and that a batch on its way is still
queued (`BatchIsQueued`). For the refinement `Queued` states what a directory would
upload as a function of segments, records and cursor: a sweep, a save or a new
segment leaves it as it is, a write adds its event (`RecordQueued`), and an
acknowledgement takes out only what has been answered for.

**`UsagePipelineProofs`** proves `TypeOK`, `NothingLost`, `PauseHolds`, and
`ImplementsQueue`, the refinement of `DurableQueue`: the initial states map to
initial states, and each action maps to `Accept`, `Stray`, `Deliver`, `Forget` or a
stutter. The strengthening `IInv` says that a line behind either offset is kept
(`ReadIsKept`: stored, quarantined or queued), as is the line the offset is about to
pass (`LineKept`); that an offset which a failed save left on disk belongs to a past
day and never meets a line (`OffsetsWithin`); that a line whose key the reader has, in memory or on disk, is
kept or in a file (`Somewhere`), which `ReadStep` shows for every way a `CollectOnce`
can end, with any number of new lines; that an answer with results accounts
for every event of its request (`AnswerCovers`), and a request on its way carries
only events that are queued or answered for (`LateKept`); and that the pause is
on disk before it counts (`PauseSaved`).

**`AgentProofs`** proves `TypeOK`, `NoOrphan` and `RegisteredRuns` of the manager. They
are inductive together with the types and with `Keyed` (a call knows its provider
unless it is the shutdown's). The heart is `Unused`: `Install` never reuses a
goroutine that a waiting call or the map still names.

Its second part proves `RefreshTokenOnce`, `NamedStaysOut` and `PausedIsTold` of
`ProviderAuth`, for every kind of agent and any number of tokens, failures and faults.
None is inductive. `Where` says which places of a poll a kind of agent can be at: only
Codex, Cursor and Gemini renew, only one Claude agent borrows. `Renewal` is what makes a
refresh token safe to send: whatever a poll has read or a place holds has not been sent
yet, or it is what the save in this very poll replaces. Of Cursor's two places the
database may hold it until the second of the four writes, the keyring until the last
(`Unwritten`). `NamedInv` has
four forms, because each agent keeps a refused token out in its own way: a Codex and a
Claude agent stay paused while the file has the token they failed with, a Cursor agent
takes no token from the file that it failed with, and Gemini goes by refresh tokens and
tries again when the retry window ends. `Told`: a poll that
skips a paused agent in silence began paused, and an agent that began paused has told.

**`CentralMonitorProofs`** proves `TypeOK`, `CursorMeansHandled` and
`OneWeeklyMessage`, for any accounts, uploads and faults. `CursorInv` adds to the
first promise what holds while a batch is under way: its ids are beyond the cursor,
ascending, and every id between the cursor and the batch that is not in it is no
longer an account's newest (`BatchOK`); an upload can only take that away from an id,
never give it back. `WeeklyInv` is the mutex (who is between `read` and the return
holds it, nobody else), the claim (a call at `send` owns the checkpoint and has sent
nothing for it yet), and that every message is a week before the checkpoint's
attempt or is it. `HalvesApart` is the one fact of arithmetic: two midpoint windows
that meet belong to weeks whose ends are less than a week apart, which is why the
test of the attempt and not of the cycle alone keeps accounts with different weeks
apart.

**`StoreProofs`** has five parts.

*Sums.* The model adds tokens with `SumFunctionOnSet` of the community modules, which is
defined by a recursive function on sets. That the function exists (`SumsExist`) and is
unique (`SumsAgree`) is not an axiom: it is proved over the size of the set and by a
minimal counterexample (`MinimalSet`, from `NatLessThanWellFounded` and `WFMin`), which
needs no theorem with an operator parameter. From `SumUnfolds` follow the facts the store
needs: a sum over disjoint sets (`SumDisjoint`), without an element (`SumTakeOut`), under
a renaming (`SumRenamed`).

*The store*, with imports among the writers: `TypeOK`, `CountedOnce`, `UsageConserved` and
`AnsweredIsCounted`. A database is `Good` when a usage was inserted exactly if it is a raw
row or archived, at most once and not as both (`Counted`), every receipt names a usage
that was inserted (`Backed`), and the tokens of raw rows, of the archive and of imported
hourly rows are those ever inserted (`Conserved`). `IInv` says so of the committed
database and of the open transaction's, and that each answer which is no rejection has its
receipt where it was written: in the transaction while it is open (`Kept(results, work)`),
in the database once the response leaves (`Kept(replies, db)`). One lemma for each kind of
write says that a good database stays good: `InsertKeeps`, `ReceiptKeeps`, `EnrichKeeps`,
`MergeKeeps`, `CompactKeeps`, `ImportKeeps`. An import rests on the fingerprint being
unique in an archive, which the exporting table's index gives (`ArchiveType`), and on the
test of rows and tombstones (`Fresh`).

*What is stored stays*: `StoredForGood`, an action property that no run lists. `Remembers`
compares the database before and after a step: a receipt goes on naming its event, usage and
row; a raw row keeps its id, time and tokens until its fingerprint is in the archive; the
archive's fingerprints and imported hours stay; what the dashboard sums never falls and no
id is used again. A commit replaces the whole database, so the invariant that the open
transaction remembers what it began from (`MemoryStays`) is what keeps a commit
from undoing an earlier one. `UsagePipeline` rests on it when it says that the server never forgets an
accepted event. The metadata of a row are outside (an enrichment replaces them).

*Import records*: `TransferredOnce`, for archives that meet two conditions. `OneIdentity`:
no archive brings this server's own rows under its own identity, and an identity names one
usage. The code gives the second (`source_record_id` is an `AUTOINCREMENT` id); the first
leaves out archives of this server's own export, and a server that comes back from a
backup. `OneHour` asks the same of hourly rows, so an hour that was compacted further
between two archives is outside the theorem (the code skips it, section 6, 10).
`ReimportIsIdle` needs only the first. The invariant is `Recorded`: a record that names an
archived row leads to the raw row of that usage (`Points`), and whatever archive was
imported, each usage in it is a raw row or archived and each hourly row is here under its
identity (`Held`); retention drops records and never makes an archive new again. That a
relay counts nothing twice (`RelayAddsNothing`) compares the two imports of a third
installation usage by usage.

*Quota cycles*: `CyclesTypeOK`, `CyclesInOrder`, `NoFalseReset`, `ResetIsSeen`,
`TrackedWasUsed` and `SummaryMissesNothing`, for any window, grace, tolerances, use and
number of failed statements (`CyclesConstants` asks that a period be longer than what a
tracker allows for jitter and for a moving end). The eleven trackers are first shown to do
no more than `Processed` says, an operator that tells a first cycle, a reset, a cycle that
goes on and a held back answer apart. `CyclesInv` then needs no tracker: `PeriodRuns` (the
announced end lies ahead), `Shown` (an open cycle shows the end of its own period, and the
end of a later period is out of the tolerance's reach), `Remembered` (what the tracker
remembers is of the open cycle unless `half`), `Glitches` (a false answer of Codex is alone
and carries no use), `Order`, and `UseCounted` (what the next snapshot will add may be
counted, too: it was used, or a false answer that met no value has it `recounted`). The
search quota is apart (`Hourly`): its cycle keeps the end it was opened with, an hour
after its start, so that this end and a new one are in different hours exactly when the
start and the clock are (`SearchReset`).

**`PollHealthProofs`** proves `TypeOK`, `OneAlert`, `NoAlertStorm` and
`RecoveryAnswersFailure`, for any threshold, number of incidents and faults. Its
invariant relates three records that the code keeps apart: the row, the message under
way and what the channels have heard. `Numbered` orders the incidents; `Remembers`: a
row whose failure was heard within the cooldown holds an attempt that keeps it from
being due; `Claimed`: a message under way left its attempt in the row of its incident
before it was sent; `Announced`: who is told of a recovery was told of the failure,
also when the recovery waits for the failure message to come back. `Counted` and
`Named` follow an alert from its creation into the row, over the steps of the call and
a kill between them: every alert that is neither the row's nor the call's is in `lost`.

**`PollOwnershipProofs`** has two parts. For any number of commands that interleave,
the types (of the record of each command too) and `RevokedOwnsNothing` are inductive;
`NoSilentHandoff` and `BindingEditsOne` follow, the latter because the swap compares
what the preview read. `ConfigNamesOwned`, `CollectorsAgree` and
`CurrentPollsAccepted` are false then (section 6, 2) and are proved of the behaviours
that keep assignments `Apart`: while "device assign" is between its steps, no other
command edits the row of its device or ends the ownership it took, as a lock on the
device would see to. Bindings, revocations and assignments of other devices still
interleave: a binding needs no lock, since its swap compares. `OneCommandIsApart` proves
that a single command-line process, the one of the run `poll_ownership`, always keeps to
it. There the invariant adds `Held` (what a command has read is still so, and it owns what it is about to
configure) and `Follows` (whatever a collector, its file or a request under way
carries has at most the current revision, and that revision's configuration; an
observation of the current revision is of an assigned account).

**`QuotaAlertsProofs`** proves `TypeOK`, `AlertedOnce`, `PeriodIsAlerted`, `PaceSpaced`
and `SessionsOK` for any thresholds, periods and faults. `Order` relates the open cycle
to the periods that were seen: before the tracker has seen a snapshot an old cycle
means a reset to come (`ResetAhead`), after it a reset that failed (`ResetFailed`), which
costs a lost write. `Budget` charges each alert to its row in the log or to a lost
write, and gives the row no credit while a reset may still delete it; `RowOfPeriod` is
the converse, a row that no reset is going to delete is of this period; `PaceOK` says
the same of the pace alert, its row and what the engine remembers.

Every safety property of a passing run, invariant, action property or refinement, is
proved; four theorems of `PollOwnershipProofs` and two of `StoreProofs` have the hypotheses
named above. Proving has corrected the model where TLC's small instances could not:

* `QuotaCycles`: with two failed statements `NoFalseReset` and `TrackedWasUsed` were
  violated, because `half` was not set when the creation of a cycle had failed and the
  update of the one opened at the next poll failed, too. `HalfOpened` names the condition.
* `ProviderAuth`: `NamedStaysOut` was too strong for Gemini. When a renewal was answered,
  a login came before its save and the write to the settings table failed, the agent
  paused for an access token that it may rightly try with another refresh token:
  `named` holds pairs.
* `IngestStore`: `TypeOK` now types every field, sums included; without it nothing says
  that a sum is a number.

Only model-checked: liveness and everything under fairness (`EveryLineDelivered`,
`Converges`, `LastingFailureIsTold`, `CallsReturn`, `LoginRecovers`, `SessionEnds`), which
need `ENABLED` and which the provers cannot do. `CyclesTypeOK`, `AuthTypeOK` and
`CyclesInv` are proved and listed by no run.
`Spool`'s `CursorBehindDelivery` and `SavedCursorMonotone`, and `AgentManager`'s
`RegisteredRuns`, are proved and no longer listed by a run.

## 6. Where code and documents disagree

The first has a run that TLC finishes with a counterexample (`findings`
in `PROJECT.json`). The eleventh and the thirteenth are stated as action properties,
`DriftIsIgnored` and `SavedIsRead`, which no run lists: TLC refutes either in seconds
when it takes the place of the properties in `MCQuotaCycles.cfg` (with `Kinds = {"search"}`)
or `MCProviderAuth.cfg` (with `Kinds = {"cursor"}`). The others were found on the way; the properties of the passing
runs are stated so that they hold in spite of them, and say so.

1. `collector status` sweeps the live spool without the lock: between its size test
   and its unlink the daemon can append a record, which is then lost although
   `Append` reported success (`spool_status_loss`).
2. `device assign` writes owner and configuration in two transactions
   (`device_command.go:114`); an `unassign` in between is undone, and the device polls
   what it does not own, against `docs/central-hosting-operations.md:89`.
3. A replay that adds metadata to a usage whose row was archived meanwhile is
   rejected as a payload conflict (`central.go:579`), against the comment at
   `central.go:574` that such a replay is acknowledged.
4. A second short incident while a message is being sent cancels or replaces the
   recovery of the first (`poll_health.go:224`): the last word the channels heard is a
   failure, against `poll_health_test.go:210`. `RecoveryAnswersFailure` states the
   direction that holds.
5. `Stop` takes a run from the map before it has ended (`manager.go:118`), so a
   concurrent `Start` runs the shared agent object twice, against `manager.go:64`.
6. Gemini tokens that were saved to the settings table after a renewal take
   precedence over the credentials file (`gemini_credentials.go:66`), so a new login
   is not seen, against `docs/GEMINI_SETUP.md:84-95`.
7. `CloseOrphanedSessions` ends an orphan at the time of the start-up; its comment
   (`store.go:1491`) speaks of an estimate from the snapshots.
8. Reset callbacks and checks do not always name one quota: the callback of a second
   Codex account has no account (`main.go:1503`), the Antigravity debouncer
   (`main.go:1515`) may drop a reset, so rows of the last period can stay and hide an
   alert of the next.
9. Four of the central monitor's trackers are not told the account
   (`central_monitor.go:72-76`): two accounts of Claude, Gemini or Antigravity share one
   cycle.
10. An archive exports its hourly rows without the fingerprints behind them
  (`transfer.go:110` and the tables beside it), and the overlap test sees only raw
  rows that are mapped to the same origin (`transfer.go:907`). A usage that a device
  delivered here, or that was imported raw and archived here since, counts a second
  time when an hourly row of its installation is imported, against
  `docs/central-hosting-operations.md:127` and, over a relay that has archived it,
  `docs/DATA_TRANSFER.md:44`. An hourly row that has grown since it was imported is
  skipped (`transfer.go:1356-1368`), and once a row that a device delivered has been
  archived here, its archive is refused as a whole (`transfer.go:1731`).
11. Synthetic's search quota announces "now + 1 hour", and ends are compared by whole
  hours (`tracker.go:121`): the first poll in another hour of the clock closes the cycle
  of a period that runs on, against the comment above it ("ignoring minute-level drift",
  `tracker.go:115-119`). `NoFalseReset` says what is left: not
  twice in one hour of the clock. A real reset within the hour is seen when the hour is
  over.
12. One false 0% does not close a Codex cycle, as `codex_tracker.go:142` promises, but the
  tracker remembers it when it has no value to hold it against, as after a restart
  (`codex_tracker.go:144`, `236`); the next true answer then adds the use of the whole
  period, which the cycle may have counted before. `TrackedWasUsed` allows exactly that
  use, once for each such answer.
13. A save of Cursor's tokens is reported as made when each token has reached the SQLite
  database or the keyring (`cursor_token_unix.go:188`), and the database is read first
  (`cursor_token_unix.go:55`): when the write to it failed, the next renewal sends the
  refresh token that was just used and the new one is not read, against
  `cursor_token.go:204`. `RefreshTokenOnce` promises nothing of a
  token that a failed write has left in one of the two places.

## 7. Not modelled, and why

Of the data transfer, the fingerprint aliases of older versions with the receipts
they retarget, the tables other than usage, accounts, settings and devices are left
out; what they do to an import of usage is refuse it, which changes nothing.
Parsers, pricing, HTTP clients, JSON, SQL text, templates and desktop integration
are data conversion or I/O without a protocol. Token creation and rotation are the
one bit `authorized` of `UsagePipeline`. An in-app alert whose row
is not written, because the write fails or the process dies before it
(`poll_health.go:425-428`), is created again by the next outcome and stays until the
dashboard dismisses it: `OneAlert` allows one such alert for each time this happened,
and for each dismissal that failed. The arithmetic of missed intervals
is replaced by every count it can yield. The environment parsing of
`config.go` and the notification switches are constants. What is left for later
modules is in the plan. Of the notifications, overrides, the under-use slots of the
day and the channels are left out; of the agents, rate limits, the fetch of a
plan's tier and Cursor's preference for another account in the keyring when the one in the
database is free (`cursor_token_unix.go:56`); of the monitor, observations that an import adds without a receipt,
which its query never returns. A 400 that the whole batch gets for a wrong clock repeats
for ever in the code; no document promises otherwise, and the server of
`UsagePipeline` answers batches whose ids differ. A torn record of the source reader
is one that cannot be parsed: an output line cut exactly before its newline is a
complete JSON text, which `loadSeenFromOutput` takes for written after a restart,
while the runtime waits for a newline that only another line of the same day brings.
After a short write to the spool (`spool.go:204`) the daemon refuses all lines of that
day ("repair required", `spool.go:191-194`) and its torn segment may keep a small spool
full beyond midnight; only a restart recovers it (`runtime.go:87`), and nothing in
the code brings one about. `EveryLineDelivered` therefore has the restart as its premise.

## 8. Plan

Done, in the order of importance: spool, store, pipeline with its source reader, ownership, poll health,
agent manager; then quota cycles, credentials, quota alerts and sessions, central
monitor, data transfer. Next, in this order:

1. `AntigravityWake`: exclusion, cooldown, persisted result.
2. `UpdateSwap` and backup: two renames with crashes and rollback.
3. The positions the source reader keeps in the files of the local tools.

Theorems next: `TransferredOnce` for hours that grow between two archives. As it stands
it is false of them (section 6, 10), so the statement has to count an hour up to what
it grew by.
