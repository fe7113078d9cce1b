# WhatsUpp in TLA+

WhatsUpp (`README.md`, `internal/`) is one Go binary. The *hub* checks services,
keeps incidents in SQLite, pushes alerts to ntfy and serves a dashboard; *agents*
push the metrics of their hosts to it. The modules in this directory model the
parts of it in which goroutines, calls that fail, restarts and time meet, TLC
checks them on small instances, and TLAPS proves the properties of the core for
every value of the constants.

All line numbers refer to the source at the commit beside this directory.

## Inventory

| Part | State | Operations | Talks to | Hard behaviour |
|---|---|---|---|---|
| Check pipeline (`hub/hub.go`, `scheduler.go`, `monitor.go`, `incidents.go`) | monitor states, result channel, incident rows | check, send, `processResult`, `HandleTransition`, `ReloadConfig`, `resolveStaleIncidents` | alerter, store, WebSocket hub | lock held for one of four steps, reload against goroutines and results in flight, restarts, full channel |
| Alerter (`alerting/ntfy.go`) | time of the last DOWN alert, muted set | `SendDown`, `SendRecovery`, `SendNewPort`, `SendPortGone`, mute | ntfy | deduplication against mutes, failed pushes and restarts |
| Life cycle (`hub/hub.go`, `api/handlers.go`, `cmd/whatsupp`) | configuration file, scheduler pointer | `New`, `Run`, `Close`, `PutConfig`, `ReloadConfig` | file system, scheduler | requests that overlap with nothing locked, shutdown in between |
| WebSocket hub (`api/websocket.go`) | map of clients, four kinds of channels | register, unregister, broadcast, evict, quit | browsers | closed channels, full buffers, one goroutine as sender and receiver |
| Agent (`agent/`) | buffer of batches, backoff | collect, flush, push | hub over HTTP | lost, late and repeated requests, partial flushes |
| Staleness checker (`hub/staleness.go`) | heartbeats, incidents `agent:<host>` | `Check` | store, alerter | read-then-insert, pushes between the steps |
| Security scans (`hub/hub.go`, `checks/security.go`) | scans, baseline | scan, compare, hysteresis, alert, fold, accept | store, alerter, operator | alerts and baseline are not one transaction, acceptance in between |
| Scan schedule (`hub/cron.go`) | - | `nextCronTime` | - | boundaries of fields, no match |
| Downsampler (`hub/downsampler.go`, `store/`) | raw, 5-minute, 15-minute, hourly and daily tables | aggregate, delete | store | tickers with no order between them, windows missed over restarts |
| Mutes (`api/handlers.go`) | rows and memory | `ToggleMute` | store, alerter | overlapping toggles, rows that fail to load |
| Login, sessions, agent keys (`api/auth.go`, `middleware.go`) | attempts per address, sessions | login, renew, expire, log out, clean up | store | windows and lockouts with several logins under way, renewal against logout and clean-up |
| Configuration file (`config/config.go`) | - | `Load`: defaults and validation | hub | numbers that nothing checks |
| Checkers, collectors, queries, dashboard | - | input and output | - | none that a model would show |

What makes each modelled part correct is stated as its properties, below; the
components that are left out, with the reason, are in `PROJECT.json`, and so is the
list of hazards with the line where each one bites.

## Modules

`MonitorState` and `Alerter` are shared by the modules that need them.

| Module | Models | How |
|---|---|---|
| `MonitorState` | `MonitorState.RecordResult` | operators on values; the failure counter saturates at the largest threshold, which it is only compared with |
| `Alerter` | `NtfyClient` | one operator per method, the outcome of the push as an argument; times are ages that saturate at the reminder interval |
| `MonitorPipeline` | the check pipeline | extends the two; one action per step of a scheduler goroutine and of `processResult`; reload, mute, restart, and the environment |
| `MonitorPipelineProofs` | - | the theorems about it |
| `BroadcastLog` | - (abstract) | a log and readers that see a contiguous piece of it |
| `SeqFilter` | the loops of `MetricBuffer.Add` and `LoginRateLimiter.Allow` that drop what is too old | a recursive function on sequences |
| `SeqFilterProofs` | - | lemmas about it: what it keeps, in which order |
| `WSHub` | WebSocket hub | `Run` at its select or in a fan-out; a send on an unbuffered channel is one step of both sides; implements `BroadcastLog` |
| `WSHubProofs` | - | the theorems about it, and the refinement |
| `AgentPush` | agent loop, buffer, push, `PostAgentMetrics` | one request is one step with every outcome for the two sides; late requests are kept aside |
| `Staleness` | `StalenessChecker.Check` | extends `AgentPush`, instantiates `Alerter`; one action per store call or push |
| `StalenessProofs` | - | the theorems about the two |
| `SecurityDrift` | scans of one target | one action per store call or push of `processScanResult`, and of `AcceptBaseline` |
| `SecurityDriftProofs` | - | the theorems about it |
| `ConfigReload` | `PutConfig`, `ReloadConfig`, `Run`, `Close` | one action per file operation and per access to the scheduler pointer |
| `ConfigReloadProofs` | - | the theorems about it |
| `ConfigFile` | `Load` | operators from a configuration to the one that runs, and a predicate for those it accepts |
| `CronSchedule` | `nextCronTime`, `runSecurityScanSchedule` | operators from an expression and a calendar to the times of the scans |
| `CollectorBackoff` | `Backoff`, and `Agent.collect` as far as it uses it | operators on the state of one collector |
| `Downsampling` | `Downsampler`, the aggregates and deletions of the store, the choice of a table | one action per SQL statement of each of the four goroutines; restarts, failures, slow runs and late batches |
| `DownsamplingProofs` | - | the theorems about it |
| `RestApi` | `Login` with `LoginRateLimiter`, `NewAuthMiddleware`, `Logout`, `ToggleMute` | one action per store call and per method of the limiter; any number of requests |
| `RestApiProofs` | - | the theorems about it |

The `MC*` modules extend a specification for TLC and add the model values of the
`.cfg` files. Definitions marked "Mutant" in the modules are faulty variants of the
operator that follows; they are not used by the specification and serve to show
that each property notices a plausible bug.

### MonitorPipeline

A monitor's goroutine (`runner`) is at its check, waiting to send, asleep or off.
The main goroutine (`proc`) takes a result (`Receive`), runs the state machine under
the lock (`Record`), updates the incident rows (`UpdateIncident`) and alerts
(`SendAlert`). Any other action may come in between. `ReloadStop` and `ReloadSwap`
are the two halves of a reload, with `wg.Wait` between them; `Restart` ends the
process at any point and starts it with another configuration. What a restart
leaves is the database and what the operator's phone last said (`page`).

A store call or push that fails is logged and forgotten by the code. The history
variable `drift` records for each monitor why the database or the phone may
differ from the state machine; the invariants say that *nothing else* makes them
differ.

* `IncidentsAgree`: an outage has its open row, unless exactly that row could not be
  created; and nobody has more rows than that, unless a row could not be resolved or
  the monitor was removed while DOWN. A row that could not be created is forgiven for its own
  outage only (`DriftAfter`); a row that was left over stays until a restart resolves it,
  since `HandleTransition` resolves one row at a time.
* `NewOutageNotDeduplicated`: the alert of a new outage is not swallowed.
* `PhoneAgrees`: what the operator was last told is the status.
* `OutageDetected`, `RecoveryDetected`: lasting changes end up recorded.
* `ReloadFinishes`: a reload does not hang on goroutines that wait to send.

### WSHub

A reader that ends sends its client on `unregister` (`Unregister`, together with `Run`) and
then closes the connection (`ReaderClose`), so that a writer may still be at work in between.

`ChannelsOpen` excludes the two panics (a send on a closed channel, a second
close); `NoGaps` says that a registered client is given every message once and in
order; `ImplementsBroadcastLog` is the refinement; `LeaversUnregistered` and
`ClosedMeansClosed` say that connections are taken down.

`Evict` is where `Run` blocks for ever: no action leaves that state, so
`LeaversUnregistered` is stated for behaviours that never get there, and
`SlowClientEvicted` is violated.

### AgentPush and Staleness

A unit of time is the agent's interval. A request is lost, is handled with its
answer lost, or arrives after the client has given up; heartbeats carry the time
of the batch. `OldestFirst` and `TwoBuffered` are about the buffer, `OneIncident` and
`AlertHasIncident` about the checker's incidents, `DeathNoticed` and `ReturnNoticed`
about the whole chain from the agent to the incident.

### SecurityDrift

`known` is the set of ports the operator takes to be open from what WhatsUpp said.
`BaselineIsKnown` (nothing becomes normal untold) and `AlertsOnce` (nothing is told
twice) hold except for the ports in `excused`: those whose alert could not be
recorded in the baseline, or whose accepted state a scan in flight overwrote.
`NoFalseAlarm` is the purpose of the hysteresis, `BaselineConverges` says that it
delays no change for ever.

### ConfigReload

Nothing locks one `PUT` of the configuration against another. The second of two
reloads that stop one scheduler closes a closed channel; the panic is caught by
`middleware.Recoverer` (`api/router.go:34`). `OldSchedulersStopped` and `NoHalfReload` say
that this leaves the hub in order: no scheduler of an old configuration goes on,
and once all requests are answered one runs, for the monitors the states are of.
`AloneApplied` says that a request that overlaps no other is applied as it was sent,
whatever mess earlier ones made of the files. Requests are refused (`Refuse`), and writes of the
file fail half way (`WriteFails`), at any time. What is not excluded is that
overlapping reloads start one scheduler twice, which the hazards list.

### ConfigFile, CollectorBackoff and CronSchedule

The three are pure and have no state of their own, so that they are operators which named
assumptions check against what the code says of itself, over all inputs within bounds:
`LoadedRuns` (in `MCConfigReload`) that a configuration which `Load` accepts, and that
has no negative number, is one that the rest of the program can run - exactly if its dns
monitors have an interval, since `applyDefaults` gives them none and `time.NewTicker`
panics on zero; `BackoffDelays` and `BackoffRuns` (in `MCStaleness`) that the delay
doubles up to its maximum, and that a collector which works again is attempted at the
latest the maximum after, whatever came before; `ScheduleKept` (in `MCSecurityDrift`) that a
scan begins at every minute its expression allows, unless one is under way, on a small
calendar whose clock may be set forward and back; and `ScheduleLives` that the limit of
366 days lets no schedule for a time of the year end, the leap day excepted. TLC
evaluates them in `config_reload`, `staleness` and `security_drift`; with a limit one
minute shorter, or without the exceptions, the last is false.

### Downsampling

A row is abstracted to the set of the raw rows it was computed from, which is what
averages, sums and extrema of it depend on. `db` has for every table and start of a
window the *sequence* of its rows: the tables of check results have no unique key, and
a window that is aggregated twice has two. Each goroutine has a list of statements
left (`todo`), the clock as its run read it (`at`) and its next tick (`fire`); the
statements of different goroutines interleave. The first tick of a ticker is a period after
the start of the hub, so that a restart changes where in a window the ticks are; the
daily timer always fires at midnight. `upset` records the times at which something
went wrong, and `Calm` bounds what a property excepts.

* `HourlyComplete`: an hour becomes one row that counts each of its checks, at the second
  tick after its start, in whatever phase.
* `AgentTiersComplete`: the same of the five-minute and hourly rows of the agents; the
  hourly row may lack the last five minutes, but only if the tickers fire together.
* `DailyAllButLast`: the row of a day is made of all hours but the last. The hourly
  row of 23:00 is only there at the first tick *after* midnight, when the row of the day
  has been computed, and it is not computed again.
* `LiveZoomServed`: no deletion takes away a row that a range ending now is answered with.
* `Retained`: no row outlives its retention by more than the period of its goroutine.

`FifteenComplete` and `UptimeCoversDay` are violated. The query for fifteen
minutes writes `(bucket / 900) * 900 AS bucket ... GROUP BY host, bucket, metric_name`;
SQLite resolves `bucket` to the column of the table, so that there is a group for each
five minutes, and `ON CONFLICT` lets the last of the three replace the others. `Counted`
models this.

### RestApi

`RateLimited`: in any window at most `Limit` attempts are let through, and after `Threshold`
failures without a success none until the lock is over, in whatever order the logins under
way come to their end and whenever the cleanup runs. `EndedStaysEnded`: a session that
was logged out, or ran out while no request was about to renew it, lets no request through
again - which rests on `RenewSession` being an `UPDATE`. `MutesAgree`: rows and memory mute
the same names, except for names whose toggles met or whose rows could not be loaded at
the start, and for those until the next toggle on its own.

## Runs

| Run | Question | Bounds |
|---|---|---|
| `pipeline_safety` | do database, deduplication and phone agree with the state machine? | one monitor, thresholds 1 and 2, channel of 2, reminder interval 2, 3 flips, 2 reloads, 1 restart, 2 failures |
| `pipeline_live` | are lasting changes recorded, do reloads end? | two monitors on a channel of one slot, threshold 1, 1 flip, 1 reload, 1 restart |
| `wshub` | no panic, no gap, clean ends, implements the log? | two connections, buffers of one message, two messages |
| `staleness` | one incident, nothing unnoticed? | one agent, buffer of 3, ages 2, one fault (a late request, a failing store call, a restart of the hub); the network flips without bound |
| `security_drift` | told once, never untold, converges? | two ports, hysteresis 2, 3 flips, 1 scan that misses ports, 1 acceptance, 2 failures or restarts |
| `config_reload` | are overlapping reloads left in order? | three requests, two at a time, one with an invalid body; start and close |
| `downsampling` | which windows become rows, what is deleted, what do queries find? | hour of 4 units, day of 2 hours, two days and a bit; start at 3; one restart, failed statement, slow run or late push anywhere before the first midnight |
| `rest_api` | do limits, ended sessions and mutes hold? | two requests at a time, two sessions, one name, 2 attempts in a window of 2, lock of 3 units after 3 failures, one failing call or restart |
| `ws_eviction` | does eviction end? violated | as `wshub`, smaller |
| `flush_rebuffer` | is what a failed flush did not send put back? violated | as `staleness`, without faults |
| `fifteen_minutes` | does a row of fifteen minutes count the first five? violated | as `downsampling`, without faults |
| `uptime_24h` | does the uptime of a day cover the day? violated | as `downsampling`, without faults |

The exact values are in the `.cfg` files. Each one is the smallest at which what it
bounds interacts with the rest: a threshold of 2 separates a failure from an outage;
a channel of two slots can hold results of one monitor from before and after a
reload; three flips make an outage, a recovery and a second outage, which is what
deduplication is about; a hysteresis of 2 with one bad scan and three flips lets a
change be held back, confirmed and undone; buffers of one slot are full after one
message; a second reload is what meets the leftovers of the first. In `downsampling` a
restart at each time from 3 to 8 gives the tickers every phase against the hour and the
day, and the two days after it show every window of each kind complete; the widths keep
their divisions and the retentions their least sizes (`RetentionFits`, which an assumption
also checks for the constants of the code), raw checks being kept for less than a day as in
the code. In `rest_api` a lock that is longer than the window, and more failures than
attempts in a window, keep the two limits apart, and two requests at a time are what
overlapping toggles, renewals and logins need. Monitors, agents and
targets share no state but the result channel and the order of the main loop (each
incident, alert and baseline has its name), which is why one of a kind is enough
for safety, and the theorems make no assumption on their number.

The four violated properties are statements of a comment of the code which it
does not live up to; `PROJECT.json` quotes them under `findings`.

`WSHub`, `ConfigReload`, `Downsampling` and `RestApi` are checked without deadlock detection:
the hub may be shut down (and blocks in an eviction, which `SlowClientEvicted` is about),
and the number of messages and requests, the clock, and the number of sessions are bounded.

## Known divergences without a run

What follows was met while modelling. The modules have it as the code does it; the
properties except it by name, or do not speak of it.

* No reminder of a monitor that stays DOWN is ever sent: `processResult` calls `SendDown` at a
  transition only (`hub/hub.go:523`), although `down_reminder_interval` promises one.
* A restart resolves the incidents of monitors that are still down, and a lasting outage is
  recorded as two (`Restart` in `MonitorPipeline`).
* A port whose push failed is folded into the baseline and never reported (`excused` in
  `SecurityDrift`).
* Two `PUT` requests share `config.yml.tmp`, and one may rename the file that the other is
  writing (`torn` in `ConfigReload`).
* The row of a day lacks the hour from 23:00; windows that end while the hub is down are
  never aggregated; if a tick slips over the end of an hour, checks get no row for one
  hour and, two ticks falling in one hour, a second row for another.
* A schedule whose next time is more than 366 days away ends for ever (`hub/hub.go:604`): one for
  29 February, for a weekday on a date, or for a time of one day of the year that the clock
  skips. The first number of a step may be out of range (`cron.go:73`), so that a
  field allows nothing.
* A reload applies the monitors. Agent keys, the settings of ntfy, security targets and
  their schedules stay as they were at the start of the hub.
* An SSL expiry is alerted at every check of a day on which it is due (`hub/hub.go:574`).
* The retention that `README.md:258-266` names for raw check results (30 days) is 12 hours.
* A collector interval longer than the maximal backoff is waited for in full the first
  time, and a cycle that comes early by the jitter of the ticker skips a retry.
* Overlapping toggles of one name leave rows and memory apart until the next toggle.
* Logout does not look at the error of the deletion; the session then stays valid. A
  request that found a session valid renews it although it runs out in between.

## Fairness

* `MonitorPipeline`: weak fairness for every step of a goroutine that can go on
  (checks end at their timeout, store calls and pushes return, tickers fire).
  Strong fairness for the send and the exit of a scheduler goroutine: senders
  blocked on a channel are served first come first served, and a `select` chooses at
  random among its ready cases. No fairness for reloads, restarts, mutes or services.
* `WSHub`: the same reading of channels and `select` for `Register`, `Unregister` and
  `Quit`; a write ends at its deadline of 10 seconds; a read on a connection that was
  closed on this side fails, and the reader closes its connection once it is unregistered.
  Nothing makes a browser read, leave or answer.
* `Staleness`: time passes, the ticker of the checker and its calls go on, a running
  agent goes through its cycle. Nothing makes the network work.
* `SecurityDrift`: there is a next scan (`CronSchedule` says when there is), and calls return.
* `ConfigReload`: a handler that can go on does, and goroutines whose channel is
  closed end, since a check has a timeout.
* `Downsampling` and `RestApi` state none. That a run comes to its end before time goes on is
  a guard of `Pass` (a slow run is one of the faults), so that "in the end" is "by the
  second tick", which is an invariant.

## Proofs

`MonitorPipelineProofs` proves, from the named assumptions on the constants
(`MaxThresholdAssumption`, `ReminderAssumption`, `PipelineAssumption`: the thresholds, the
reminder interval and the channel's capacity are positive, the bounds are natural
numbers) and for any set of monitors:

* `TypeCorrect`: `Spec => []TypeOK`;
* `IncidentsAgreeAlways`, `NewOutageNeverDeduplicated`, `PhoneAgreesAlways`: the three
  safety invariants.

None of the three is inductive: they speak of the states between two results, and
say nothing of those in which the state machine has moved and the rest has not.
`IInv` adds, for each monitor, that a transition in flight is its last one
(`FlightInv`), and that the incident row, the remembered alert and the phone are
equal to the status *before* the transition for as long as it has not passed the
stage that updates them (`IncidentInv`, `AlertInv`, `PhoneInv`, with `Reported`). `IncidentInv`
counts the rows that are due at that status (`Due`), whatever is left over besides.
`TypeOK /\ IInv` is preserved by each action of `Next`, one lemma per action; the
actions that leave the variables of `IInv` alone share one.

`DownsamplingProofs` proves, from `DownsamplingAssumption` alone (the widths divide each other, those
below the day are different, and retention covers the ranges of each tier, what each aggregate reads and two windows of each table;
`MCDownsampling` asserts that the code's constants do), for all widths and retentions, any
number of faults and any clock:

* `TypeCorrect`: `TypeOK`. A row counts raw rows of its own window only, for a window is
  aggregated from windows that lie in it (`CountedType`, from the lemmas about multiples of a width);
* `LiveZoomServedAlways`: the action property `LiveZoomServed`. The invariant says that the clock
  of a run is never ahead (`RunInv`), without which a deletion could reach into the ranges asked
  for, and that the statements left are those of its goroutine;
* `RetainedAlways`: `Retained`. The three invariants that follow speak of the *last tick* of a
  goroutine, which is its next one less its period, and `TickInv` relates it to the clock: when
  nothing is wrong at a time, a run that is under way then began at that time, which is its tick,
  and no ticker is behind. `RetainInv` says that a table whose deleter has been through since
  its last tick, undisturbed (`Cleaned`), has no row older than its retention before that tick.
  An aggregate may insert a row afterwards whose window began almost two windows before,
  which is why two windows have to be kept;
* `HourlyCompleteAlways` and `AgentTiersCompleteAlways`: `HourlyComplete` and
  `AgentTiersComplete`, from one invariant about every window of five minutes, of fifteen and of an
  hour (`WiderInv`). An undisturbed window is either waiting for its tick, and then less than
  two windows have passed since it began and all that it will be computed from is there, or the tick
  has been and its row is right (`WindowOk`). What it is computed from are raw rows, which no
  deletion reaches before the tick (`RawKept`), or for an hour of the agents its rows of five minutes,
  which are already right and which the deletion of the same run may not reach until the hour
  has counted them (`FiveKept`, `AgentHourWaits`). `OrderInv` says which statements the
  run of the hour has left, that a run which did not begin at this time was upset, and that the
  ticks come whole periods after the start. From the last follows the bound on the race of two tickers:
  at a tick of a wider window all its rows of five minutes have had theirs, but for
  the last one, and that one only when the phases meet (`FivesInTime`, with `Raced`);
* `DailyAllButLastAlways`: `DailyAllButLast`, with an invariant of the same kind about midnight
  (`DayOk`). That the last hour is missing needs `PhaseInv`, from `OrderInv`: the ticks of the hour
  keep their distance from the start of the hub, so that a row comes at the end of its hour only if
  all do.

`RestApiProofs` proves, for any sets of requests, sessions and names and any limits:

* `TypeCorrect`: `TypeOK`, with `CoreType`, the part that the next two need;
* `EndedStaysEndedAlways`: with `EndedInv`, that a session never issued has no row, and that one
  which ended is gone, or expired with no renewal under way that could revive it;
* `MutesAgreeAlways`: with `MuteInv`, that a toggle which met no other is the only one of its
  name between its read and its last write, so that rows and memory differ by exactly
  what it has still to do;
* `RateAlwaysLimited`: with `LimitInv`, that what the limiter remembers of the window is every
  attempt it let through (`CountedInv`), although it drops old ones at other moments than they
  leave the window, and that it has counted every guess since the last login and locks the
  address for long enough after the last (`LockInv`), although checks end in any order.

`WSHubProofs` proves, for any set of connections, capacities and messages:

* `TypeCorrect`, `ChannelsAlwaysOpen`, `NoGapsEver`: the safety invariants, from `HubInv`. It
  says for each connection which of its parts exist (`JoinInv`), that the message Run
  distributes is the last one accepted (`RunInv`), and where in the accepted messages what was
  shown, what is in the writer's hand and what is buffered begin and end (`StreamInv`).
  It speaks of positions and not of concatenations, so that a send, which appends, and a
  receive, which takes the head away, both disturb a single end of a piece;
* `HubImplementsLog`: the refinement, that each step of the hub is a step of `BroadcastLog` or
  leaves the log alone, and the initial states are the log's.

`SecurityDriftProofs` proves, for any set of ports, any hysteresis and any number of faults:

* `TypeCorrect`: `TypeOK`;
* `BaselineAlwaysKnown`, `NoAlertTwice`: from `KnownInv`, which relates the scan being processed
  to the rows and the baseline it was read with (`ScanInv`), and, while alerts are sent one by
  one, what the operator knows to what has been told so far (`AlertInv`);
* `FalseAlarmTakesMisses`: while fewer scans have missed ports than the hysteresis asks to agree,
  `NoFalseAlarm` holds. The invariant `AlarmInv` says that what never was open is in no
  scan and no baseline (`NeverSeen`) and that a run of scans without a port that was open
  all along is as long as the scans that missed ports allow (`MissesCounted`). The
  corollary `NoFalseAlarmHolds` is for instances like that of the run, where the bound on the misses
  is below the hysteresis. With as many misses as the hysteresis the code does raise a false
  alarm: that is what a hysteresis means, and nothing contradicts it.

`ConfigReloadProofs` proves, for any finite set of requests:

* `TypeCorrect`: `TypeOK`, of which the bound on how often a scheduler is started needs that only
  requests answered 200 have called `Start` (`StartsCounted`);
* `OldSchedulersAlwaysStopped`, `NoReloadHalfDone`: from `ReloadInv`. Nothing locks
  `ReloadConfig`; `OneReloads` says what keeps two reloads apart, which is that the second one
  panics closing the stopped scheduler's channel again, until the new scheduler is installed;
* `AloneAlwaysApplied`: the action property `AloneApplied`, with `AloneInv`, which says how far a
  request that met no other has got at each of its steps.

`StalenessProofs` proves, about `Staleness` and the `AgentPush` it extends, for any size and age of
the buffer and any thresholds:

* `TypeCorrect`: `TypeOK` of both;
* `OldestAlwaysFirst`, `NeverMoreThanTwo`: the order and the number of the batches that wait,
  with the batch in hand younger than those of the buffer (`FlushInv`, `CountInv`);
* `NeverTwoIncidents`, `AlertsHaveIncidents`: with `IncidentInv`, which says for each step of
  `Check` what the incident's row and the remembered alert are between the calls.

Two of these modules reason about what a loop over a slice keeps (the buffer's eviction,
the limiter's window). That is an induction, and the library's induction theorems take an
operator as a parameter, which no prover here instantiates. `SeqFilterProofs` therefore states
induction about *sets* (of numbers, of sequences), derives it from the well-foundedness of `<`
by `WFMin`, and with it what `Filter` returns for every sequence: its type (`FilterType`), that
it keeps the order (`FilterOrder`), that filtering twice is filtering once by the smaller set
(`FilterTwice`), and how it goes on with `Append` (`FilterAppend`).

Every invariant that a run of a state machine checks is a theorem, but those named here.
Model-checked only: liveness (fairness and `ENABLED` are outside TLAPS); the pure operators of
`ConfigFile`, `CollectorBackoff` and `CronSchedule`, which have no behaviour and are compared with reference definitions over bounded inputs. The four
properties that runs refute are no theorems.

## Not modelled

`PROJECT.json` has the list. In short:

* input and output without a protocol: checkers, collectors, migrations, backup, static
  files, routing, read-only handlers;
* users, `ChangePassword` and agent keys, which keep or compare a single value;
* SSL expiry, which keeps no state; the dashboard; what metrics and latencies say;
* names, addresses and environment variables in the configuration.

## Plan

Done: `MonitorState`, `Alerter`, `MonitorPipeline` with its proofs, `BroadcastLog`,
`WSHub`, `AgentPush`, `Staleness`, `SecurityDrift`, `ConfigReload`, `ConfigFile`,
`CollectorBackoff`, `CronSchedule`, `Downsampling` and `RestApi` with theirs.

Left, in the model: an abstract incident history (open, then closed, never two open) that
`MonitorPipeline` and `Staleness` both implement would relate the two.
