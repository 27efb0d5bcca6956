# AGHSync in TLA+

AGHSync keeps a fleet of AdGuard Home servers alike: one instance is the master, and a
sync run copies the configuration types that are switched on for it to every enabled
slave. A web interface, itself a program with a cache, timers and requests that overtake
each other, administers it. This directory holds a specification of both, models for TLC,
and proofs for TLAPS. All paths below are relative to the repository; `D`, `E`, `R` stand
for `internal/sync/dispatcher.go`, `internal/sync/engine.go` and
`internal/instance/repository.go`, `W` for `web/src`.

## 1. The system

### Components, their state and their operations

| Component | Code | State | Operations |
|---|---|---|---|
| Sync dispatcher | `D` | a channel of capacity 1, `current`, `last` | `Submit`, the loop, `Status` |
| Sync engine | `E` | none between runs; a semaphore, goroutines and snapshots within one | `Run`, `doSync`, `syncChild`, `sendNotification` |
| Scheduler | `internal/sync/scheduler.go` | one cron entry or none | `SetSchedule`, the job |
| Watchdog | `internal/sync/watchdog.go` | path, watcher, stop channel, debounce timer | `Start`, `Stop`, the event loop |
| Instance repository | `internal/instance/` | tables `instances`, `sync_config` | `Create`, `Update`, `Delete`, `Promote`, `SetSyncEnabled`, `SetSyncConfig` |
| Run history | `internal/history/store.go` | tables `sync_runs`, `sync_results` | `StartRun`, `FinishRun`, `AddResult`, readers |
| Notifications | `internal/notification/` | table `notification_channels` | `Notify`, channel administration |
| AdGuard Home client | `internal/adguard/client.go` | none | `Snapshot`, `Apply` by config type |
| Backup and restore | `internal/backup/backup.go` | reads and writes every table | `Export`, `Restore` |
| Configuration | `internal/config/config.go`, `handlers/settings.go` | table `app_config` | getters, setters, install secret |
| Authentication | `internal/auth`, `internal/api/middleware` | hashes in `app_config` | login, API token, CSRF check |
| Process | `cmd/aghsync/main.go`, `internal/service` | | start, ordered shutdown |
| Database | `internal/store` | SQLite, one connection, foreign keys on | open, migrate |
| Web: session | `W/contexts/AuthContext.tsx`, `W/App.tsx`, `W/lib/api.ts`, `W/pages/Login.tsx` | credentials, `sessionStorage`, requests under way | login, logout, `apiFetch`, `auth-clear` |
| Web: following runs | `W/hooks/useSyncStatus.ts`, `useHistory.ts`, `W/pages/Dashboard.tsx`, `History.tsx` | query cache | poll, invalidation, Run Sync Now |
| Web: instances | `W/pages/Instances.tsx`, `W/hooks/useInstances.ts` | forms, dialogs, debounce timers | connection test, save, Sync Config, promote, delete |
| Web: sync page | `W/pages/Sync.tsx` | the inputs of two cards | save schedule, save watchdog |
| Web: notifications | `W/pages/Notifications.tsx` | the dialog of a channel | test, save |
| Web: theme | `W/contexts/ThemeContext.tsx`, `W/App.tsx` | theme, `localStorage` | toggle, take over the server's |
| Web: page of a run | `W/pages/HistoryRun.tsx` | none | `computeDiff` |

### How they interact

Five triggers call `Dispatcher.Submit`: the API, the webhook, the cron job, the debounce
timer of the watchdog, and the start of the process. `Submit` looks for enabled slaves
and sends to the channel, or answers *busy*. The loop takes a request, publishes it as
`current`, and calls `Engine.Run`, which looks for slaves again, opens a row in
`sync_runs`, calls `doSync`, closes the row, and hands the row, read back, to the
notifier. Then the loop sets `last` and clears `current`.
`doSync` reads the instances once, takes snapshots from the master and starts one
goroutine for each slave, five at a time. The API may change the instances at any moment
meanwhile. At shutdown `main` stops the HTTP server, the watchdog and the scheduler, then
cancels the context of the loop, then waits for the loop.

A tab of the web interface talks to the server by requests that carry the credentials of
the moment they were sent. Their answers update a cache of queries (react-query), the
state of the page that sent them, if it is still there, or, if they are 401, end the
session of the tab. A mutation invalidates the queries it affects; a fetch under way is
then replaced by a new one if the query has data already. The first fetch of a query is not
replaced but joined, and its answer counts as fresh, even if the server gave it before the
mutation. The status is polled, every 3 s while a run is seen and every 30 s otherwise, and
a change between *a run* and *no run* invalidates the list of runs.

### What is hard

*Concurrency*: callers of `Submit`, the loop, the goroutines of a run, `main`, and the API
on the same tables; requests of one tab that overtake each other. *Stale reads*: the check
in `Submit`, the list of slaves in `doSync`, the look-up in `SetSyncConfig`, every cached
query, every verdict of a test. *Failure*: any database call, servers that fail or never
answer (the HTTP client has no timeout), passwords that cannot be decrypted, a crash in a
run, a restore that breaks off, a schedule that does not parse, be it typed or restored,
one of the requests that make a rewrite list, one of the two writes of the watchdog
settings, a fetch that fails and leaves old data on the page. *Ordering*: two copies of the
outcome of a run (`last` and `sync_runs`), notices in the order of runs, shutdown; answers
that come after the page has moved on. *Long sequences*: the master role and the
`sync_config` rows that travel with it; values typed, tested, changed and changed back.

### What makes each part correct

* Dispatcher: no accepted request is forgotten; the status panel agrees with the history;
  shutdown ends the process and finishes the run in flight.
* Engine: *success* means that everything read was written everywhere; results say what
  happened; nothing runs on after `doSync` has returned; runs end.
* Client: replacing a rewrite list never leaves a name without an answer that has one
  before and after, and a failure in between is repaired by the next run.
* History: a journal; closed entries stay closed; only a crash leaves an open one.
* Repository: one master at most, always configured; roles and choices move together.
* Scheduler, watchdog: what is stored is what is in force; no trigger outlives `Stop`.
* Notifications: one channel cannot silence another.
* Backup: an export is of one moment, a restore gives all of it back, secrets stay readable.
* Session: it survives a reload, a refused one ends, the right password gets in.
* Pages: what is shown catches up with what is stored; a verdict is about what is saved;
  saving loses nothing that was not touched.

`PROJECT.json` lists the hazards line by line, with the properties that would catch each, or why
none does: several of them are what the code is like, and the properties except them by name.

## 2. The modules

```
RunJournal                  abstract: what sync_runs promises its readers
  ^ implemented by (INSTANCE, property HistoryIsAJournal)
SyncDispatcher              Submit, the loop, Run, shutdown, crash, restart
  |- MCSyncDispatcher       '- SyncDispatcher_proofs

InstanceRepo                instances and sync_config
  |- MCInstanceRepo
  '- SyncEngine             doSync and its goroutines, beside every step of InstanceRepo;
       |- MCSyncEngine      |  implements DoSync of SyncDispatcher (INSTANCE, RunIsDoSync)
       |                    '- SyncEngine_proofs (of InstanceRepo too)
Rewrites                    the step Apply of SyncEngine for rewrites, request by request
                            '- Transfers_proofs (of Backup too)

Watchdog                    Start, Stop, goroutine and timer of the file watchdog, its settings
  |- MCWatchdog             '- Watchdog_proofs

WebSession                  a tab's session, the login and the API token, tab and server
  |- MCWebSession           '- WebSession_proofs
StatusPolling               a tab that follows the runs       \
SyncConfigPanel             the panel Sync Config, debounced   } MCWebFollow, WebFollow_proofs
SchedulePage                from the input to the cron job    \
WatchdogForm                the card of the watchdog           |
InstanceForm                the dialog of an instance, its test|
InstanceList                the table of instances             } MCWebPages, WebPages_proofs
ChannelForm                 the dialog of a channel, its test  |
Backup                      export, restore, install secret    |
ThemeSync                   page, browser and server           |
RunDiff                     computeDiff                       /  RunDiff_proofs
```

A module whose name begins with `MC` is for TLC. `MCWebFollow` and `MCWebPages` compose
parts that do not touch each other's state; as their product would multiply states and
show nothing, `Init` chooses the part that is at work (`MCWebPages` has `Rewrites` as
one more). Properties of several parts that say the same thing are conjoined there.

Operators whose name ends in an underscore and a word (`Publish_Continuing`) are faulty
forms of the definition they are named after. No specification uses them; they are there
to show that a property notices the fault.

### SyncDispatcher

| Variable | Code |
|---|---|
| `caller`, `reply` | where each goroutine is in `Submit`, and its answer |
| `queue`, `accepted` | `Dispatcher.queue`; run ids are numbered in the order of acceptance |
| `loop`, `held`, `result` | program counter of the loop and of `Run`, `req`, what was returned |
| `current`, `last` | the fields of the same name, the run and its status |
| `rows` | `sync_runs.status`, or `"absent"` |
| `notices` | calls that `notifier.Notify` has received |
| `main` | `serving`, `closing` (listeners stopped), `cancelled` (ctx), `down` |
| `hasSlaves` | the answer of the pre-flight query; the API changes it at any time |
| `fate` | history variable: `skipped` (no row), `unfinished` (`FinishRun` failed), `orphan` (cut off with a row), `lost` (cut off without) |

`Submit` is three actions (`Call`, `PreFlight`, `Enqueue`), since the query and the send
are apart. The loop and `Run` are one action for each database call or critical section:
`Dequeue`, `SetCurrent`, `CheckSlaves`, `StartRun`, `DoSync`, `FinishRun`,
`SendNotification`, `Publish`, and `ExitLoop`, which competes with `Dequeue` as the two
cases of the `select` do. `Faults` names the database calls that may fail. `Terminate`,
`Cancel` and `Exit` are the shutdown; `Crash` takes everything but the database;
`Restart` finds the rows as they were. `DoSync` returns any status; `SyncEngine` says
which.

### InstanceRepo

One action for each method that writes, since each is one transaction on the only
connection; `SetSyncConfig` is two, because it looks the instance up before it opens its
transaction. A call that fails (duplicate address, no such instance) changes nothing.
`backup.Restore` writes the two tables as well, replacing all their rows by those of a file,
and checks neither that there is one master nor that it is configured: it is not an action
here, so that nothing below speaks of a fleet that came out of a file which this program
would not have written, nor of a run during which one is restored.
Names, user names, passwords and time stamps are left out. `dhcpAsked` is a history
variable.

### SyncEngine and Rewrites

The steps of `doSync` up to the fan-out, then for each slave `Acquire`,
`ChildCredentials`, and for each type `Apply` and `AddResult`. `Administer` lets any
step of `InstanceRepo` come in between, the creation of an instance among them, as the
fleet at the start need not have all of `Ids`; `CancelCtx` is the cancellation of the context.
`Apply` covers the snapshot taken for the diff, whose failure has no consequence, and the
push. `BadSecrets` are instances whose password cannot be decrypted. `pushed` records what
`Apply` reported as done, and `WorkLeft` is what a run has yet to do at most. Database
errors other than those that follow from cancellation or deletion are not modelled here;
they are in `SyncDispatcher`.

`Rewrites` takes `Apply` apart for the one type that is written entry by entry:
`RewriteSnapshot` at the master, then `PutSettings`, `GetList`, an `AddEntry` for each
entry that is missing and a `DeleteEntry` for each that is too many. Any request may fail,
with or without effect; runs follow each other; `Meddle` is the slave's own administrator.
Lists are sets, as `masterSet` and `childSet` are.

### Watchdog

| Variable | Code |
|---|---|
| `stored` | `watchdog_enabled` and `watchdog_path` in `app_config` |
| `path`, `cur` | the fields of `Watchdog`; `cur` names the watch whose `watcher`, `stop` and `stopped` they hold |
| `of`, `place`, `name`, `stopClosed`, `events`, `armed` | one entry for each watch: the path it was started for, where its goroutine is, the local `filename`, `stop`, what `watcher.Events` has yet to deliver, the local `debounce` |
| `firing` | callbacks of timers on their way to `Submit` |
| `pc`, `req`, `held` | the requests in progress and `main`: where they are, what was asked, the watch in their hands |
| `unreported`, `overlap`, `failed` | history variables |

A request is two writes to `app_config` (`SaveEnabled`, `SavePath`), then `Stop` in three
steps (`Take`, the critical section; `CloseStop`; `AwaitStopped`), then, to start a watch,
`AddWatch` and `Install`, the second critical section. Both critical sections are short
and wait for nothing, so that each is one action; `LockHeld` says so. `main` calls `Stop`
at shutdown beside requests that are still in progress, since `Shutdown` waits for them 10 s
at most. A watch that has been stopped leaves its number to the next one, so
`MaxWatches` bounds watches at one time only. A file is a directory and a name; what the
events say beyond the name is left out, and events of one file that wait to be received
are one. Where `Submit` leads is the business of `SyncDispatcher`, whose callers the
timers are among.

### WebSession

| Variable | Code |
|---|---|
| `config` | `app_config`: whether a token is set and the login is on, and the two halves of the login, user name and password, which `UpdateUIAuth` stores apart |
| `authRequired`, `credentials`, `stored` | `AuthProvider`, `sessionStorage` |
| `net` | slots for requests under way: what was asked, the `Authorization` header it carries, how far server or answer have come, and who in the tab still waits |
| `known`, `busy` | the query `settings`; `loading` of the login form |
| `troubles`, `torn` | a bound, and a history variable |

`view` is what `AppRoutes` shows. `Serve` is the server's side of a request:
`APIAuth` admits or refuses it, then it reads, or writes in as many steps as the handler
has. `Receive` is the tab's: `ProbeAnswer`, `LoginAnswer`, `SettingsAnswer`,
`PollAnswer`, `ChangeDone` and, for every 401, `AuthClear`. A page that is unmounted
no longer waits, but its requests go on; a reload forgets them (`Dropped`). `Fail` loses a
request or makes a database call fail, `Reconfigure` changes the login from elsewhere. Two
simplifications: `APIAuth` and `GetSettings` read several settings one after another, here
in one step; and where they go on with a zero value when one cannot be read, the request
fails here with 500.

### StatusPolling and SyncConfigPanel

`moment` counts what the server passes through: a run is current and at *running*, its row
is finished, it is no longer current. A query holds the moment of its data, whether it is
stale, and the moment its fetch was answered at, so that *older* is a comparison of
numbers. `early` marks a fetch that was under way when the query was invalidated and that
went on: the first load, which react-query joins (`Loading`), and one whose page was closed.
Its answer clears the stale mark and may lack the change. `noticed` is a history variable.
`Fetch`, `Invalidated`, `GrowOld`, `OpenPage` and `Refocus` are what react-query does with a
query, modelled from how the code configures it.

`SyncConfigPanel` has the configuration at the server, in the panel (`local`), on its way
in (`loads`), in the closure of the timer (`timer`) and in requests (`sends`). Each expand
sends another `getSyncConfig` until one has arrived, and each answer replaces what the panel
holds, an edit included. `blind` (a click before the configuration had come), `foreign`
(somebody else changed it) and `crossed` (requests overlapped, were lost, or a load replaced
something else than it brought) name the exceptions of its properties.

### The parts of MCWebPages

* `SchedulePage`: input, last saved value and cache of the page; the requests `puts`, each
  of which installs (`Install`: the old job goes first, then the parse) and then stores
  (`StoreCron`); the job `cronEntry` and the stored expression; restarts and restored
  backups, whose expression nobody parses before `main` does (`StartEntry`). `cronFate`
  names the ways in which the two may be apart. The query settings joins a first load,
  keeps old data when a fetch fails (`ReadFails`), and takes a setting that could not be
  read for an empty one (`ReadSwallowed`).
* `WatchdogForm`: the form, filled from the cache by an effect, its one request, which is
  stored in two writes (`PutSwitch`, `PutPath`; `PutFails` may come between them), and the
  query as in `SchedulePage`.
* `InstanceForm`: the form with the verdict of its test, the verdict's request, the submit
  and the server's checks. `vouched` remembers what the verdict was about.
* `InstanceList`: rows with role and switch, the mutations under way, and the one query
  that all of them invalidate; a fetch of it may fail and leave the old rows (`ListFails`).
* `ChannelForm`: the form keeps the fields of every type at once; `BuildConfig` writes those
  of the one selected, `ParseIntoForm` reads a stored text back.
* `Backup`: `Export` query by query and `Restore` write by write, other writes in between,
  failures and restarts; a table remembers the secrets its rows are encrypted with.
* `ThemeSync`: what is shown, kept by the browser, and kept by the server, with each effect
  that copies one to another; other browsers write at the server, other tabs to the storage
  too, which no tab listens to.
* `RunDiff`: `computeDiff` with its table and its way back, and what the page makes of it.

## 3. What is checked

| Run | Shows | Bounds |
|---|---|---|
| `dispatcher_faults` | status panel, notices and history agree; the history is a journal | 1 caller, 3 runs, every database call may fail, crashes, restarts |
| `dispatcher_sound` | no request forgotten; only a crash leaves a row at *running*; an orderly exit costs at most the queued request; shutdown ends; accepted requests are settled | 2 callers, 2 runs; listing instances and reading a run back may fail |
| `repo` | one master, configured, nothing left of a deleted instance; dhcp only on request; the selection moves with the role | 3 instances, 2 addresses, 2 types |
| `engine` | success means pushed; results tell what happened; no step is repeated, no slot kept; a run returns | 3 instances, some of them yet to be created, 2 types, 1 slot, 1 request of `/instances`, 1 unreadable password |
| `watchdog` | one watch, the one that is stored, on its file; it reports every change, falls silent and stops when told to | 1 request beside `main`, 2 files in 1 directory, 2 watches, 2 changes between restarts |
| `session` | the session survives a reload; a login is of one request; a refused session ends; the right password gets in | 1 login beside none, 2 requests at a time, 1 fault or change from elsewhere |
| `follow` | a run that was seen reaches the list; the list is no older than the last notice; panel and server agree, edits arrive, nothing else changes | 2 runs, 1 lost request; 2 types, 2 clicks, 2 loads and 2 requests at a time, 1 loss |
| `pages` | see below | 2 requests at a time, 1 failure, loss or stranger; fetches may fail any number of times, but for the schedule |
| `watchdog_overlap` | *violated*: any existing watch is stopped first (`watchdog.go:37`) | 2 requests, no changes |
| `engine_overwrite` | *violated*: the master is not written to (`README.md:179`) | as `engine` |
| `session_token` | *violated*: a new API token is shown once (`README.md:135`) | 2 requests, no faults |
| `schedule_blank` | *violated*: a schedule left blank is disabled (`README.md:321`) | 1 request |

The properties by name, in the order of the table's sentences:

* `dispatcher_faults`: `StatusPanelAgreesWithHistory`, `NoticesTellTheHistory`, `HistoryIsAJournal`
* `dispatcher_sound`: `AcceptedIsAccountedFor`, `RunningRowIsOwned`,
  `GracefulExitFinishesTheRun`, `ShutdownCompletes`, `AcceptedIsSettled`
* `repo`: `OneConfiguredMaster`, `DhcpOnlyOnRequest`, `MasterLostOnlyByDelete`, `PromoteKeepsSelection`
* `engine`: `SuccessMeansPushed`, `ResultsTellWhatHappened`, `RunMovesOn`,
  `RunReturns`, `CancelledRunReturns`
* `watchdog`: `WatchInForce`, `ChangeIsReported`, `EndedWatchIsSilent`,
  `StopChannelClosedOnce`, `StopReturns`
* `session`: `StorageKeepsTheSession`, `LoginIsOfOneRequest`, `RefusedSessionEnds`, `RightPasswordGetsIn`
* `follow`: `SeenRunReachesHistory`, `HistoryCoversNotices`, `PanelAgrees`,
  `EditReachesServer`, `OnlyWhatWasClicked`
* the violations: `AnyExistingWatchIsStopped`, `MasterIsNotOverwritten`, `TokenIsShown`,
  `BlankDisablesSchedule`

What the conjunctions consist of:

| Property | Parts |
|---|---|
| `OneConfiguredMaster` | `AtMostOneMaster`, `MasterIsConfigured`, `NoneLeftBehind` |
| `WatchInForce` | `OneWatch`, `ListensToItsFile`, `SettingsInForce` |
| `PagesTypeOK` | the type invariants of the parts, with what they say beyond types: no job and no request that stores a schedule which does not parse (a restored backup may leave one stored), no address twice, no second master, no configuration sent with another type, the theme shown is the one kept unless another tab writes to the storage |
| `PagesCatchUp` | when nothing is under way, schedule, form of the watchdog, list of instances and theme are what the server stores, or their data are known to be stale; each part names its exceptions |
| `VerdictsAreOfTheForm` | `SavedWasTested` (instances: each value by itself was tested, is stored, or is a blank password), `VerdictIsOfTheForm` (channels); both except a late verdict |
| `NothingIsLostOnSave` | `BlankKeepsPassword`, `ReopeningKeepsConfig` |
| `BackupIsWhole` | `ExportIsASnapshot`, `RestoreIsWhole` |
| `DiffIsRight` | `DiffIsFaithful`, `DiffIsSmallest`: nothing lost, and no smaller difference, against a definition by all common subsequences |

The run `pages` also checks `ScheduleInForce` (the job that runs is the one stored, or one
of the named things has happened: a request was refused, what is stored does not parse, or
something has split the two), `RestartReadsAll` (after a restart everything can be
decrypted) and `RewritesAreSafe` (no gap, nothing foreign, and *nil* means equal).

Why the bounds are enough to be of interest: three runs are one in `last`, one in the
hands of the loop and one in the queue, the most the dispatcher can tell apart (of
`dispatcher_faults`; `dispatcher_sound` has two, so that liveness is checked in seconds);
two callers race for the slot. The faults `start` and `finish` are left out of
`dispatcher_sound` because a row that `FinishRun` could not close stays at *running*
without a crash, which `RunningRowIsOwned` and `dispatcher_faults` account for. Three
instances are a master, the one that takes over and a bystander; two addresses make
duplicates happen; of two types one (dhcp) is off by default. With one slot, two slaves
contend. One write during a run is enough for the promotion, the disabling or the deletion
of an instance the run has already listed. One request and `main` are two processes inside
`Stop` at once; more requests are left to the proofs, and to `watchdog_overlap`. Two
changes make an event that finds the timer running.
In the tab, two requests at a time are the least that overtake each other; an answer of an
older session meets a newer one with a single login, since logging in without the login
being required is a session of its own. Two runs let one follow the other between two
polls. The second click comes after a configuration was sent, while its answer is out, and
the second load after a first one was edited. Texts
of up to four lines over two lines reach every shape of the table of `computeDiff`: matches
that cross, a text that is empty, one that repeats itself. Three entries of one domain make
an add and a delete meet on the same name.

**Fairness.** Goroutines that can run do run: weak fairness of the loop, of `Cancel` and
of `Exit`. A request to an AdGuard Home server carries the context and no timeout, so
`DoSync`, and in `SyncEngine` the steps that wait for a server, are fair only once the
context is cancelled. A notification runs under `context.Background()`; nothing in the
dispatcher bounds it. Properties that need more say so: `ChannelsReturn` (the clients of
Green API and WhatsApp have a timeout of 15 s; the shoutrrr sender drops its context, so
that its return depends on that library) and `ServersAnswer`. Nothing is assumed about
callers, crashes or restarts. In `Watchdog`, `Stop`, the goroutine of a watch and the
callback of a timer go on once they can; fairness of `StopRun` says that `select` does not
prefer events to the stop channel for ever, and fairness of `Fire` that the file rests for two
seconds now and then: one that changes more often than that puts off the sync for ever.
No fairness is assumed of the requests outside `Stop`.
In the tab, the server answers a request in the end and the tab takes the answer
(`Serve`, `Receive` for each slot: the handlers end, and the browser reports a connection
that is lost). The poll is strongly fair in `WebSession`: its interval goes on as long as
the page is shown, and it is kept waiting only by the bound on requests. In `StatusPolling`
the server's run and the timers go on by weak fairness, as in `SyncConfigPanel` the timer
and the requests. Nothing is assumed about what the user does, except that
`RightPasswordGetsIn` is about a user who keeps trying. The parts of `MCWebPages` have
no liveness property and no fairness: `PagesCatchUp` is about states in which nothing is
under way.

**Deadlock** is checked in every run of the server's modules. It is not checked in
`session`, `follow`, `pages` and the two violations of the web interface: there the bounds
let everything come to rest (no request may be lost any more, no click is left, a page with
nothing to do).

## 4. What is proved

`SyncDispatcher_proofs` proves, for any set of callers, any number of runs and any set of
database faults, every safety property of the dispatcher, and that it implements
`RunJournal`. The inductive invariant `IInv` has four parts beside the types:

* `OrderInv`: ids grow from `last` over `held` to the queue, and no row exists beyond
  `held`. Without it, `Dequeue` could hand the loop a run that has a row.
* `LoopInv`: what the row of the held request says follows from where the loop is.
  Without it, `Publish` could record what the row does not say.
* `OwnerInv`: a row at *running* is held or has been given up. It is stated with `held`
  where the property says `current`, and `LoopInv` links the two.
* `LastInv`: what `last` says is in the history.

Accounting for requests and the truth of notices have an invariant of their own on top of
it.

`SyncEngine_proofs` proves of the instance repository, for any sets of ids, addresses and
types, that there is at most one master, that it is configured, that nothing is left of
what was deleted, that dhcp is in force only on request, that `Promote` hands the selection
over, and that only a deletion costs the fleet its master. `RepoInv`, the invariant these
follow from, holds at every moment of a run as well (`FleetDuringRun`).
Of the run it proves, for any fleet, number of slots and requests of `/instances` meanwhile:

* *What it says is what it did.* `EngineInv` has two parts for each slave: `PushInv` (what
  its goroutine has been through is pushed, unless it failed) and `ResultInv` (the same of
  the result rows, but for the type in its hands), beside `PhaseInv`, which ties goroutines
  to the phase of `doSync`. An instance that was listed and is gone never comes back
  (`NoneComesBack`): that is why rows missing for a deleted slave do not go missing for one
  that is there.
* *It is the step `DoSync`* (`RunRefinesDoSync`). To the dispatcher that holds the request,
  the whole of `SyncEngine` looks like `SyncDispatcher` between `StartRun` and `FinishRun`:
  the return is `DoSync`, with a status it may have, and every other step of the run is a
  stutter; `CancelCtx` is `Cancel`, and a request of `/instances` may change the answer of
  the pre-flight query. So the proofs about the dispatcher hold with the engine in its place.
* *It comes to an end* (`RunProgress`, for `RunMovesOn`), short of fairness. `WorkLeft` is
  what is left to do: phases, snapshots, slots, passwords, applies, rows, ends. Every step of
  the run takes something out of it and puts nothing in, whatever fails; neither the API
  nor a cancellation puts anything in; and in the fan-out some slave can go on
  (`SlotsAreFreed`), since who holds a slot waits for nothing but its server. As `WorkLeft`
  is finite, what `RunReturns` adds is that the steps are taken.

`Transfers_proofs` proves `RewritesAreSafe` for lists of any length. `Progress` says at each
request what the slave's list is, in terms of what was read and what was sent; that all
adds come before the first delete is what keeps a name answered. It also proves
`RestartReadsAll` and `BackupIsWhole` (`ReadSoFar` and `RestoredSoFar`: the first *n* parts
of the file are what is, or what was, stored; `Readable`).

`Watchdog_proofs` proves every safety property of the watchdog for any number of requests
at once. `WatchdogInv` gives a watch one part at a time (`RoleInv`: in force, being made,
being stopped by one process), which is what keeps `close` from meeting a closed channel,
and says what is so while updates do not overlap (`AloneInv`: one process at work, the
fields empty from `Take` to `Install`, what is stored what was asked for).

`WebSession_proofs` proves, for any set of logins and number of requests, the two
invariants of the session. `SessionInv` needs to know of each request what it may still do
(`ProbeAlone`, `LoginHasCreds`, `GoneIsChange`), and of the two halves of a login which
request is between them (`LoginSoFar`). `WebFollow_proofs` proves `HistoryCoversNotices`
for any number of runs: a status never goes back in time (`StatusAdvances`), and a fetch of
the list under way is no older than the last notice, or is known to be (`FetchCovers`), as
a first load that was joined is (`early`), which the property excepts;
and `PanelAgrees` and `OnlyWhatWasClicked` for any set of types, from `Orderly`: without
one of the named exceptions at most one request is out, it carries what the panel shows,
and every type not clicked on is as the server has it.

`RunDiff_proofs` proves `DiffIsRight` for any two texts of any length (`DiffOfTexts`, and
`DiffRight` for the page). The table, the way back and the filter are functions defined by
recursion, which TLA+ defines by `CHOOSE`: that there are such functions has to be proved
first, and is, from functions that are right up to a distance from the origin. The prover has no
induction over predicates, so induction is a statement about sets: `SetInduction` (a set
that has 0 and with each number the next has all of them) follows from the pigeonhole
theorem, and `CellInduction` extends it to the cells of a table. Each loop then has one
fact about its values: `TableBound` (no text that is part of both is longer than the table
says), `StepIsRight` and `BackIsRight` (the way back loses nothing and keeps as many equal
lines as the table says), `FilterFact`.

`WebPages_proofs` proves, under the specification of all pages together, `PagesTypeOK` and
`PagesCatchUp` (for each page, what it may show while something is under way: `CacheKnown`,
`DogKnown` and `DogShown`, `ListKnown`, `ThemeKnown`), `VerdictsAreOfTheForm` and
`NothingIsLostOnSave` (`FormInv`, `ChannelInv`, and `ParseThenBuild`: what is read into the
form of a channel is written back), and of the schedule `ScheduleInForce` (`InStep`: what a
request under way is about to store is what it has installed). `PagesImplementParts` says
that the specification of all pages implements that of each part, so that what is proved of
a part holds there too; `PartsOfPages` draws that conclusion for the schedule, the backup, the
rewrites and the page of a run.

Proved, and not repeated by a run: `TypeOK` (with *the channel holds one request at most*),
`NoRunOpensAfterCancel`, `EngineTypeOK`, `NoneWorksAfterReturn`, `RepoTypeOK`,
`WatchdogTypeOK`, `SessionTypeOK`, `LoginFormRecovers`, `PollingTypeOK`, `PanelTypeOK`, and
`RunIsDoSync`, which TLC finds true on the instance of `engine`.

Assumptions: `BoundsAssumption`, `MaxRunsAssumption`, `FaultsAssumption`,
`AddressesAssumption`, `TypesAssumption`, `NamesAssumption`, `NobodyAssumption` and
`LimitsAssumption`, `PollingAssumption`, `PanelAssumption`, and one of each page module.
They say that constants that stand for *nothing* are not among the values they are an
alternative to, that every instance can have an address of its own (a fleet at the start of a
run has), and that bounds are numbers.

Only model-checked: the liveness properties, which need fairness and are out of the
prover's reach: `ShutdownCompletes`, `AcceptedIsSettled`, `RunReturns`,
`CancelledRunReturns`, `StopReturns`, `ChangeIsReported`, `RefusedSessionEnds`,
`RightPasswordGetsIn`, `SeenRunReachesHistory`, `EditReachesServer`. Every invariant and
every action property that a run checks is also proved. `StatusCatchesUp` is stated and
checked by no run.

## 5. Where the code and its documents differ

Four runs show it; `PROJECT.json` has the details under `findings`. Others were met while
modelling and have no run of their own:

* A request is accepted while a run is in progress, as the slot of the channel is free then
  (D:115), where D:103 and `README.md:466` say it is answered *busy*.
* When `FinishRun` fails, the notification is sent all the same and says *running* (E:90),
  where E:206 says that the status is already set.
* A slave may have `sync_config` rows (R:57), where `repository_test.go:87` says it has
  none. They never come into force: `DhcpOnlyOnRequest` holds.
* `SetSyncConfig` upserts the entries it is given (R:330), where `handlers/instances.go:192`
  says that it replaces the configuration.
* A slave whose password cannot be decrypted has no result rows (E:214), where
  `README.md:180` says that results are stored for each slave.
* A backup does not contain the switch for the sync on startup, the port and the log level,
  where `W/pages/Settings.tsx:257` and `README.md:136` speak of all settings.

What the models allow and no document denies, so that the properties except it by name:

* A run that ends while the list of runs is loaded for the first time may be missing from
  the list until the next change (`W/hooks/useSyncStatus.ts:31`; `early`). The same holds of
  the settings and a save (`Joined`, `DogJoined`).
* A panel that is expanded, collapsed and expanded again before its configuration arrives
  loads it twice; the second answer replaces an edit that has been made meanwhile, and the
  panel then shows what the server no longer has (`W/pages/Instances.tsx:151`; `crossed`).
* A backup may bring a schedule that does not parse; it stays stored and runs nothing
  (`cmd/aghsync/main.go:100`; `StartFate`).
* A theme that was cached in an earlier session is applied over a later choice and sent to
  the server (`W/App.tsx:37`). The properties of `ThemeSync` say nothing against it.
* The address typed back to the stored one keeps the verdict that a new password got at
  another address (`W/pages/Instances.tsx:369`; `SavedWasTested`).

## 6. What is not modelled, and why

* `backup.Restore` as a change of the fleet: `Backup` has its order, its failures and its
  secrets, `SchedulePage` and `WatchdogForm` have its settings, but the instances of a file
  are in no module.
* `LastSyncByInstance` groups by the second in which runs finished; the query is the only
  reader of that grouping.
* Which channels `Notify` picks, and that one whose secret cannot be decrypted keeps the
  others silent: a loop over a list without state. The order and content of the calls is in
  `SyncDispatcher`.
* `applyFiltering` (two requests) and `applyDNS` (one flag is changed): one outcome of
  `Apply` in `SyncEngine`.
* The switch for the sync on startup, the statistics of an instance, the paging of the
  history: single requests, whose answers nothing else depends on.
* The CSRF check, which keeps no state; hashing and encryption, which are taken to work.
* Layout, controls, wording, logging, the generated AdGuard Home bindings, the installation
  as a system service, migrations (run once, before anything else).

Worth doing next: the notifier's choice of channels beside a restore; and a tab that follows
the dispatcher of `SyncDispatcher` itself instead of the three moments of a run.
