# A TLA+ verification of MinerDash

MinerDash is a controller (`cmd/minerdash-server`, `internal/server`) that keeps
the configuration of a farm of mining rigs and a queue of commands for each of
them, and an agent (`cmd/minerdash-agent`, `internal/agent`) on every rig that
polls the controller, runs the assigned miner, tunes the GPUs and reports
telemetry. This directory holds TLA+ modules translated from that code, the TLC
runs that check them on small instances and the TLAPS proofs that establish the
main results for every instance.

## 1. The system

### 1.1 Parts, their state and how they interact

| Part | State | Operations |
|---|---|---|
| Store (`internal/server/store.go`) | one in-memory `state` behind `sync.RWMutex`, one JSON file, `lastSaved` | every operation mutates the state under the write lock and calls `saveLocked`; a failed save restores the state from `lastSaved` |
| Command queue (`store.go`, `http.go`, `agent/client.go`) | `storedRig.Commands` (status, lease, attempt); `Client.pendingResult` | queue, lease, redeliver, execute, report |
| Smart tuner (`agent/autotune.go`) | `smartTuner.status`, a cancel function, a goroutine | start, stop, measure, apply, report |
| Configuration (`resources.go`, `quicksetup.go`, `schedules.go`) | wallets, pools, miners, flight sheets, overclock profiles, power policy, per-rig desired state with a revision | save, delete, assign, quick setup, apply by schedule, resolve |
| Agent synchronisation (`agent/client.go`) | `appliedRevision`, `configuration`, `configurationErr` | fetch, validate, install miner, tune, start, commit |
| Miner process (`agent/process.go`) | one child process, profiles, bounded log | start, stop, restart, observe exit |
| GPU tuning (`agent/overclock.go`) | driver settings of the GPUs | preflight, reset, apply, restore, enforce the ceiling |
| Watchdog (`agent/client.go`) | `watchdogStopped`, `lowHashSince`, `watchdogFailures` | stop when hot, start when cool, restart, reboot |
| Automatic fans (`agent/autofan.go`) | `lastFanPercent`, the fans themselves | follow the temperatures, hand the fans back |
| Epic failover (`agent/epic_failover.go`) | `epicFailoverState` | probe, switch to the fallback, return |
| CPU optimiser (`agent/cpu_optimization.go`) | trial state, samples | prepare, try, keep or roll back |
| Packages (`packages.go`, `catalog_packages.go`, `custom_packages.go`, `community_miners.go`) | package files beside the miner records | upload, refresh, import, serve, repair, delete |
| Telemetry and alerts (`telemetry.go`, `store.go`) | a file per rig and day, alerts, driver efficiency | sample, prune, migrate; raise, resolve, drop |
| Enrollment (`store.go`, `agent/client.go`) | one-time grants, token hashes, identities | grant, enroll, revoke, delete |
| Users, sessions (`users.go`, `http.go`) | accounts; sessions in memory | save, recover, delete, log in |
| Caches (`market_pool.go`, `discover*.go`, `release_monitor.go`, `community_miners.go`, `application_updates.go`) | a value or an error, since when it counts, a mutex | ask, fetch, keep |
| USB writer, Rig OS (`usb*.go`, `rigos.go`) | one operation and its progress, the image files, the drive | download, flash, pair, restore |
| Network scan (`netscan*.go`) | one job, its progress | start, cancel, observe |
| Application updates (`application_updates.go`, `cmd/minerdash-updater`) | executable, backup, published agents, the service | check, download, stop, replace, start, roll back |

The agents only ever call the controller; the controller never calls an agent.
An agent runs one loop (`Client.Run`) whose tickers poll commands every 2 s, send
heartbeats and synchronise the configuration every 10 s, and check the failover
every 5 s; the steps of that loop exclude one another, and only the smart tuner
and the miner process run beside it. The controller handles its HTTP requests
concurrently and serialises them with the store's lock.

### 1.2 What is hard

* Calls are lost, given up and handled late; commands are leased again;
  answers overtake one another (commands).
* A save may fail, and an operation may return an error after it changed the
  state (store).
* The rig learns of a change only through its revision: whatever the resolved
  configuration depends on has to advance it (configuration).
* A synchronisation has many steps, each of which may fail, over state that
  outlives the agent: files, GPU settings, the miner process (agent).
* Operator, watchdog, failover, synchronisation and tuner all start and stop
  the same miner (agent).
* Read-locked code shares slices with the state (configuration resolution).
* A package is read outside the lock and placed under it, a file and a record
  must agree, and either may be changed by somebody else or lost in a crash.
* A USB operation and an update of the controller are long sequences of steps
  on a disk, each of which may fail; what is left must be usable and what is
  said of it true.
* A one-time token is sent again when the answer to it was lost.
* One heartbeat changes the rig, its history and its alerts, and may end
  between them.
* Requests overlap in a cache; the older answer may arrive last.

PROJECT.json lists these hazards one by one, with their lines.

## 2. The modules

| Module | Models | EXTENDS / INSTANCE |
|---|---|---|
| `CommandDelivery` | one rig's command queue at the controller, its agent's `pollCommand` loop, the smart tuner's goroutine and the network between them | `INSTANCE CommandLife` |
| `CommandLife` | the abstract promise of the command channel | |
| `CommandDeliveryProofs` | theorems about `CommandDelivery` | `CommandDelivery` |
| `ConfigStore`, `MC_ConfigStore` | the controller's configuration: every resource, the rigs' desired state and revisions, schedules, quick setup, saves that fail | |
| `ConfigStoreProofs` | theorems about `ConfigStore`: types, references, names | `ConfigStore` |
| `ConfigVersionProofs` | theorems about `ConfigStore`: revisions, restarts, schedules | `ConfigStoreProofs` |
| `AgentWorkload`, `MC_AgentWorkload` | one agent: synchronisation with its rollbacks, the watchdog, the Epic failover, operator commands, the miner process | |
| `AgentWorkloadProofs` | theorems about `AgentWorkload` | `AgentWorkload` |
| `GpuTuning`, `MC_GpuTuning` | what the driver of a rig's GPUs is set to: transitions between overclock profiles, the power ceiling, the smart tuner's limits | |
| `GpuTuningProofs` | theorems about `GpuTuning` | `GpuTuning` |
| `PackageStore` | one managed miner: its record, its package file, and the requests that upload, refresh, import, edit and delete it | |
| `RigEnrollment` | one-time grants, the USB writer that makes them, the drive, and the machines that redeem them | |
| `FarmAlerts` | the alerts of the rigs in their bounded list | |
| `TelemetryHistory` | the history files of the rigs | |
| `Accounts` | user accounts and the last administrator | |
| `ControllerUpdate` | the helper that replaces the controller | |
| `SourceCache` | an entry of one of the caches | |
| `ServiceProofs` | theorems about the four services that `Controller` extends | `Accounts`, `RigEnrollment`, `SourceCache`, `ControllerUpdate` |
| `Absent` | `None`, what is not there, which modules that `Controller` extends side by side have in common | |
| `Controller` | the controller's services next to each other | `MC_ConfigStore`, `RigEnrollment`, `Accounts`, `ControllerUpdate`, `SourceCache`; `INSTANCE` of the other three |
| `ControllerProofs` | theorems about the packages, the alerts and the history, and about all the services together | `Controller`, `ConfigVersionProofs`, `ServiceProofs` |
| `AutoFan` | the automatic fans of a rig | |
| `CpuOptimizer` | the trial of a CPU governor | |
| `Agent` | the workload next to fans and CPU governors | `AgentWorkload`; `INSTANCE AutoFan`, `CpuOptimizer` |
| `MC_Agent` | the GPUs and fan curves of its run | `Agent`, `MC_AgentWorkload` |
| `AgentProofs` | theorems about the fans and the governors | `Agent` |

PROJECT.json maps every definition that stands for code to its lines. Three
interfaces join the modules:

* the *revision*. `ConfigStore` shows that what a rig is told changes only with
  its revision (`ConfigurationVersioned`) and that revisions never fall; on that
  `AgentWorkload` (`Reconfigure`) and `GpuTuning` (`Reconfigure`) rest, whose
  controller answers with a revision and a configuration and never changes the
  one without the other, the power ceiling apart, which the agent compares
  itself (`News`; `ChangeLimit` in `AgentWorkload`).
* the *smart tune*. `CommandDelivery` has its command, its goroutine and its
  result; `ConfigStore.FinishSmartTune` what the result does to the profile;
  `AgentWorkload.tuning` that synchronisation waits for it; `GpuTuning` the
  limits it sets.
* the *store*. `Commit`, `LeaveUnsaved` and `BackToDisk` in `ConfigStore` and
  `Saved`, `SaveFailed` and `NotReached` in `CommandDelivery` are the same
  `saveLocked`/`rollbackLocked`; so are `SaveRecord`, `Save`, `SaveFarm`,
  `SaveSeries` and `SaveAccounts` of the services.

### 2.1 CommandDelivery

The store of one rig is `store` (in memory) and `disk` (the file): a status, and
whether its lease still runs, for each command, whether another rig shares the
tuned profile, and the revision. A command is its position in the `Commands`
slice. `agent` is the point `pollCommand` has reached, `pending` is
`Client.pendingResult`, `finishers` are the goroutines in `finishSmartTune` with
the attempts they have left. A call is one step at the instant the
controller handles it, with these outcomes: it is handled and answered; it is
handled and the answer is lost; the save fails; it never arrives; the agent's
15 s timeout ends it and the controller handles it later (`lateNext`,
`lateResults`). The agent's loop is blocked during a call, so nothing is lost by
that. `executed` and `ran` are histories: how often a command has been carried
out at all, and by the present process.

`QueueCommand` has the two conditions on smart tunes of `AddCommandRequest`. `FetchNext`
is `NextCommand`: the first command of the slice that is pending, or running
with its lease run out. `Acknowledged` is `FinishCommandResult`, which answers a
repeated result without recording it again. `AcceptSystem`/`PerformSystem` are
the early acceptance of reboot and shutdown. `DecideTune`/`PublishTune` separate the tuner's last
look at its context from the moment it becomes inactive.

`CommandLife` is what an operator may rely on: a command is queued, issued,
carried out and finished for good, `complete` means carried out, and a
reboot or shutdown is recorded first and carried out at most once.
`ImplementsLife` maps its status to the file's and its runs to `executed`.

### 2.2 ConfigStore

`store` and `disk` are whole states of the controller. An operation is one
action, because the code holds the write lock; its outcomes are `Commit` (changed,
saved), `BackToDisk` (the save failed and `rollbackLocked` restored `lastSaved`,
which is also what a restart loads) and, where the code has such an exit,
`LeaveUnsaved` (an error after the memory was changed: the telemetry error of a
heartbeat, the package files of a deleted miner, the catalog checks of quick setup).
`bumpWorkersForResourceLocked` is `Bumped` over `Running` or `HavingProfile`;
`Resolved` is what `ResolvedWorkerConfiguration` answers. `Resolve` writes: the
arguments of a miner share their slice with the stored miner, and rendering a
wallet template replaces the login in place (`Rewritten`).

### 2.3 AgentWorkload

The goroutine of `Client.Run` is `loop`: synchronisation is the sequence
`main`, `fallback`, `limit`, `overclock`, `start` (`restore`), with the
configuration it fetched (`got`) and the updates it may have to take back; a
heartbeat is `heat`, `rate`; an operator's start ends in `launch`. Each step
succeeds or fails, and between two of them the tuner may end, the miner die,
the controller change its mind, the temperature and hashrate change, or the agent be
restarted. `files` and `args` are the installed binaries and arguments: the
former survive a restart, the latter do not. Failures of the rollbacks' own
renames are left out; a reboot that was asked for and granted is `AgentRestarts`,
one that was refused is a fault in `RateTooLong`.

### 2.4 GpuTuning

A profile is a sequence of settings, each for one GPU or for all of them, over
three controls: power limit, locked clock, clock offset (core and memory alike).
`tuned` is what the driver has. `Clamp`, `Replaced` and `Removes` are
`applyGPUPowerPolicyToProfile` and `removedOverclockSettings`. A synchronisation runs many driver
commands, setting by setting, GPU by GPU, control by control, and stops at the
first that fails. Since the agent's loop does nothing else meanwhile, and the tuner keeps it from starting, this is
one step whose outcome depends on the point `<<setting, GPU, control>>` it
reached: `Applied` and `Reset` give the driver's state there in closed form.
`foreign` marks the GPUs whose limit another program has set since the agent
last did; `tried` is the ceiling of the last synchronisation.

### 2.5 Controller and its services

Each of the seven services has a module of its own with its specification; none
writes a variable of another. `Controller` is their composition with
`ConfigStore`: `part` says which one of them moves in a behaviour, so that the
state space is the sum of theirs, and nothing is lost by that because no
service's property can tell what another one does. What they share in the
program is the state file: an operation of one service that saves writes what
another left unsaved, and one that fails takes it back. Each model has that as an action of its own
(`SaveElsewhere`, `SaveOther`, `SaveElse`, `RestoreAccounts`).

* `PackageStore`. A request (`jobs`) is looked up, defined, fetched, read and
  hashed outside the store's lock; under it the old file becomes the backup
  (`BackUp`), the new one takes its place (`Place`), the record is saved
  (`Record`) and the file of the other format goes (`Tidy`). `lock` is the
  request between these steps, where the controller may crash. `LookUp`, `Define` and `Undo` are an
  import and its cleanup. A start that finds the built-in package intact serves at
  once (`StartupDone`); otherwise it stores the package anew (`StartRepair` to `Tidy`)
  and serves without another look at it, or ends with an error, and the next start
  finds what that left. A digest is the content it is of, that of an executable in a bundle also names
  the entry.
* `RigEnrollment`. `usb.at` is the point an operation has reached; each step
  succeeds, fails, or does its work and reports an error. `Ask`, `Enroll` and
  `NotEnrolled` are a request, the instant it is handled, and its loss; a machine
  asks again while the controller may still handle what it asked before.
* `FarmAlerts`. A rig's heartbeat, its settings and the connectivity check
  decide which of the four alerts are active; `found` is what they found last. The
  check takes the rigs in any order, as Go's map yields them; `AfterChecks` is the
  list after each of them.
* `TelemetryHistory`. Days are numbers; a clock that is wrong is ahead by more
  than the retention. `Pruned` is what a pruning that fails half-way may leave.
* `Accounts`. `answered` is what each account's owner was told.
* `ControllerUpdate`. Each step of the helper, down to the removal and the rename
  inside `copyFile` and `rollback`; the machine may restart before any of them.
* `SourceCache`. `Policy` has one row for each of the fourteen kinds of cache, read off the
  function that implements it: whether its mutex is held during a fetch, whether it keeps failures, whether
  an entry counts from the start or the end of its fetch, whether a failure answers
  with the old value, and where its load gets the value from. A value is `whole`,
  `older` or `partial`: the loads of the discover caches answer without an error
  with a file, a built-in list, the last response of CoinGecko, or what is left when a
  site is down, and three of them take the market feed from a cache of its own
  (`feed`, `Market`). The time of a whole value is when its source said it, that of the
  others when they were put together.

### 2.6 Agent

`Agent` composes `AgentWorkload` with `AutoFan` and `CpuOptimizer` in the same
way; the heartbeat that drives all three visits them one after the other.

* `AutoFan`. `Controlled` is one turn of the loop over the GPUs,
  `ControlledUpTo`, a function of n, what a heartbeat that ends at the n-th has done. `nvidia` is
  chosen at first: every NVIDIA GPU is given the fans of all NVIDIA GPUs. A turn that
  fails may leave fans at the new speed, or `Manual` at the old one (`HalfSet`);
  disabling the policy may pass over GPUs without an error (`passed` in
  `DisablePolicy`). A profile's fans are `SetElsewhere`. The history `known` is the
  GPUs whose fans none of this has put out of step since the agent last set them.
* `CpuOptimizer`. Samples are counted up to the three that a comparison takes;
  whether they are stable and what they show is any outcome. `TakeBackStart` is
  the rollback at the end of `StartTrial`, and nothing can happen between the two (`Between`).

## 3. What is checked

"Violation" runs end in the counterexample their finding in PROJECT.json
describes: the code does not do what its own text says.

| Run | Instance | What it shows |
|---|---|---|
| `command_channel` | 2 commands of any kinds, 2 submissions, 1 fault, any number of lease expiries and controller restarts | no command twice by one process, no reboot twice at all, no false completion, no result refused, a tune applied once, order without faults, final outcomes, `CommandLife`, and every command finishes |
| `tune_cancel` (violation) | the same module | a cancellation that is acknowledged with "original power limits will be restored" may come too late |
| `configuration_versions` | 2 rigs (symmetric), 2 sheets, 2 values of each resource, ceiling and rules, revisions to 2 | nothing an agent is told changes without its revision; restarts tell the same |
| `controller` | 2 rigs (symmetric), 2 sheets, a wallet, a pool, a miner, a schedule; 1 miner with 2 contents, 2 names, 2 requests; 2 tokens, identities, machines and releases, 2 USB operations; 2 alerts; 3 days; 3 accounts; 2 releases, 2 helpers; 14 kinds of cache with 2 requests, and the market feed | references, names and schedules of the configuration; a package matches its digests; a failed import is undone; a start repairs the built-in miner; a grant lets in one rig; the USB page is true; alerts match what was found; history is kept; an administrator stays; an update leaves a controller; answers are recent |
| `shared_templates` (violation) | 2 sheets, one miner with a login in its arguments | a template of one sheet reaches the others |
| `workload_safety` | 5 configurations of an Epic sheet, 2 revisions, 1 failure, 1 restart, all commands | what is applied was told, what runs is assigned and exact, a hot miner stays off |
| `agent_liveness` | the workload with 3 configurations and no operator starts; 2 GPUs of any make, 2 fan curves, 3 temperatures, 2 upsets; 2 CPUs, 2 governors besides performance, 2 workloads, 2 failures | the agent converges; a hot miner is stopped; fans follow the temperatures; governors are given back |
| `hot_start`, `lost_rollback`, `wrong_workload` (violations) | `AgentWorkload` | an operator's start defeats the watchdog; an update that first failed at the ceiling cannot be taken back; a failed update during a failover starts the primary |
| `gpu_tuning` | 2 GPUs, 4 configurations, 2 revisions, 2 failing commands, 1 restart, 1 foreign limit | ceiling, exact transitions, the ceiling is reapplied |
| `half_restored` (violation) | the same module | "previous overclock restored" leaves the new profile's other controls set |

Every run but `controller` also checks that the system never stops where no step
is possible. The services may stop: a miner that was deleted is never created
again, a day's history ends with `LastDay`, and operators need not go on.

### 3.1 Bounds, and why they are enough

* *Two commands* give the orders that matter: one overtaking the other, one
  being redelivered while the other's result is kept, a cancellation beside a tune. *One fault* is
  enough for every kind of loss; two lost results of the same command go through
  the same states as one lost twice. The safety properties are proved for all
  bounds; only liveness depends on them.
* *Two rigs and two sheets* give a rig whose sheet, or whose fallback, is changed
  while the other is not concerned, a name taken by another, a profile that
  becomes shared. `configuration_versions` splits what two rigs and two values
  make too large (`SheetsOrTuning`): with sheets or farms there is one rig, without them two. A change under a sheet reaches the
  rigs by one formula for each rig, so a second rig adds nothing there; whether a
  profile is shared needs both. Every property of the run is proved for every size.
* *Two revisions* let the controller change its mind during a synchronisation
  and after it; *one failure* at any of the steps, after any history, is what
  the rollbacks are written for; a second one can only end a rollback.
  `GpuTuning` has two, because restoring may fail after applying has.
* In `controller` *two* of what may overlap or be confused (requests, machines,
  tokens, names, contents, releases, helpers) is what a conflict takes; the alert
  list has two places for the eight alerts two rigs may have, so that it is
  full; the retention is one day of three, so that days run out, with a clock that
  jumps past it; *three* accounts let two administrators go while one stays. One or two
  failures at any step are what each operation is written for. The services use the same model
  values (`a1`, `a2`, `b1`, `b2`), which lets one symmetry serve them all; it is sound
  because no property compares values of two services. The model values of a service
  are symmetric in it: no definition picks one by name, and the one `CHOOSE` over them is of the same value everywhere.
* In the caches an entry lives two units of time, a fetch and the market feed one,
  of five: enough for an entry loaded from the oldest feed to be answered at the end
  of its life, which the property's bound allows and `FeedLoaded` exceeds.
* *Two upsets* let a half set fan meet a change of policy or a restart, and a GPU
  passed over be set again and fail. The fan curves and the temperatures ask for speeds at the lower limit, at the
  upper limit, in between, and one to four points apart, on both sides of the
  three points that are worth a command.
* `TuneSucceeds`, `RateTooLong` and the failover's waits may come at any time:
  the measurements and the clock are abstracted, so the runs have more behaviours than the code.

### 3.2 Fairness

* `CommandDelivery`: weak fairness of the agent's loop (its ticker fires every
  2 s and a call ends after 15 s at the latest), of the tuner's goroutine and of
  the running out of each lease (time passes), and of the attempts of `finishSmartTune` (a
  bounded loop). Nothing is assumed of the operator or the network, but that faults are finite
  in number: a rig that can never reach its controller never finishes anything.
* `AgentWorkload`: weak fairness of what a handler has begun (`Applying`,
  `Watching`) and of a tune's end, which is bounded by its measurements; strong
  fairness of `Fetch(FALSE)` and `Heartbeat`, because Go's `select` picks among
  the tickers that are ready at random, so each is taken again and again
  although other handlers keep the goroutine busy in between. Operators' commands and the failover's
  checks have none. `HotMinerStops` is checked without operator starts, with which it is
  violated (`hot_start`).
* `Agent`: the fairness of `AgentWorkload`, of the behaviours in which it moves.
* `GpuTuning`: weak fairness of `Heartbeat`, which the ticker of 10 s and the
  30 s of the enforcement give.

## 4. What is proved

TLAPS proves, for every value of the constants that satisfies the named
assumptions of the modules that declare them, every invariant and every action
property that a passing run checks, and the refinement of `CommandLife` (two of the
properties under a condition on the miners that `ConfigVersionProofs` names). The
assumptions ask for natural bounds, for sets that are finite where the code counts
their elements, for inputs that are of their type, and for an "absent" outside the sets it completes. Four say
more: in `AgentWorkload` two workloads of one miner in one answer name the same
binary (`BinaryAssumption`; the controller resolves both from one miner
record), in `SourceCache` a request ends before an entry expires
(`Timeout < Life`, as all do), in `GpuTuning` the power limits are positive
(`WattsAssumption`), and in `Controller` the farm's rigs are finitely many (`AlertAssumption`).

* `CommandDeliveryProofs`: `TypeCorrect`, `AtMostOncePerProcess`,
  `SystemActionAtMostOnce`, `NoFalseCompletion`, `HeldResultsAccepted`,
  `OutcomesAreFinal`, `TunesApplyOnce`, `CommandsInOrder` and `Refinement`. The invariant is `Inductive`. None of the
  properties is inductive alone: that a command runs once per process needs that what has been carried out is final or pending (`ProcessInv`), which
  needs what `pollCommand` holds at each of its points (`CallInv`); that a
  completion is no lie needs that every result under way is of something carried
  out (`HeldInv`); that a reboot does not repeat needs that no failure of one is
  ever under way (`SystemInv`, `HeldInv`), and all of them need that memory and
  file agree between handlers (`Durable`). One lemma per action
  (`...Step`) over lemmas for the handlers (`Reporting`, `HandlerStep`).
  `TunesApplyOnce` counts: each step either leaves both the revision and the set of
  completed tunes alone or adds one to each. `CommandsInOrder` needs `Orderly`:
  as long as nothing fails, a running command is in the agent's hands, kept
  as the result to report, or a tune, and everything before the one in hand is finished (`Calm`).
  `Refinement` shows that each step is a step of `CommandLife` or stutters.
* `ConfigStoreProofs`: `TypeCorrect`, `ReferencesHold`, `NamesUnique`. The
  invariant says of the memory *and* of the file, each by itself, that it is typed, complete and has distinct
  names (`Sound`): a failed save makes the file the memory, and the operations that leave
  unsaved changes must leave a sound memory too. One lemma for each shape of
  change (`WalletSound`, `SheetDroppedSound`, `QuickSetupSound`, `AfterRunSound`, ...), then one for each group of
  actions.
* `ConfigVersionProofs`: `RevisionsRise`, `RunsOnce`, `VersionsTellButLogins`,
  `VersionsTell` and `RestartTells`. A step that fails goes back to the file, so what it does to an
  agent depends on how the file differs from the memory. The invariant `Remembered` adds to `Sound`
  that they agree on every rig's revision, on everything it is told but logins, and on the schedules
  (`Agrees`), although they may differ in much else after `LeaveUnsaved`; and that a schedule which has acted in the present
  minute says so (`Once`). `SameTold` names the few entries a
  resolved configuration depends on; one lemma for each kind of change shows that
  the changed state `Follows` the former: the same for each rig, or under a
  higher revision or another name. `VersionsTellButLogins` needs no
  condition; it compares what is resolved of states whose miners have had their logins taken out (`Cleared`). The two
  properties as the run checks them hold when no miner is saved with a
  login in its arguments (`NoLogins`, which the run's inputs satisfy): with one,
  resolving changes what other rigs are told (`shared_templates`).
* `AgentWorkloadProofs`: `TypeCorrect`, `ReportsWhatItWasTold`,
  `OnlyAssignedRuns`, the action property `HeatStaysOff`, `InstalledAsTold` and
  `CurrentRunsExactly`. The invariant
  `Inv` adds to the properties that the configuration in the loop's hands is in
  the history and that a restore is only entered with a previous miner. For exactness it is
  strengthened by `Exact`: each revision stands for one configuration, the ceiling
  apart (`Latest`); what is being applied is never older than what is (`Ahead`);
  at each point of a synchronisation what it has passed is installed (`Prepared`); and between
  synchronisations, as long as no newer revision is there to fetch, what is told is installed and runs, and nothing is kept to be taken back (`Current`).
* `GpuTuningProofs`: `TypeCorrect`, `CeilingIsKept` and `ProfilesAreExact`. The invariant adds
  `TuneBounded`, that a tune's limits respect the applied ceiling, since they are
  computed when it starts and used later. The argument: what an agent applies is within its ceiling
  (`ClampLimits`); under a ceiling no reset touches a power limit
  (`PowerStays`), so that every prefix of a transition, the restoration of the previous profile
  included, keeps to the looser of the two ceilings (`OutcomesWithin`); and
  enforcement leaves each limit within the ceiling it enforces (`EnforcedBelow`).
  `ProfilesAreExact` is about any two profiles, with settings in any
  order: for each GPU and control the last setting that names it decides, what only the former profile set is reset, and nothing else is touched
  (`TransitionExact`).
* `AgentProofs`: `FansFollowHeat` and `GovernorsReturn`, for any number of GPUs and
  CPUs. `FanInv` says that the fans of a GPU which shares them with none, and
  which the agent knows, are at the last speed it remembers, if it remembers one, so that
  leaving a speed that is close enough alone leaves the fans close enough. A heartbeat
  makes fans known again: what it remembers of a GPU it has either just set or not touched
  (`SoloAfter`). The loop over the GPUs is followed GPU by
  GPU (`ControlDefined`). `CpuInv` says that what a trial found is remembered for
  every CPU or for none, is what was rightfully there, and that all samples taken are of one workload.
* `ServiceProofs`: four services that share nothing.
  * `AdministratorAlwaysStays`. Saving and deleting count the
    administrators in memory, so the invariant adds that memory and file agree
    between two operations (`Agree`), whichever saves have failed: a count above one leaves another that
    governs (`AnotherGoverns`).
  * `GrantAdmitsOneRig` and `WriterTellsTheTruth`, for any
    number of tokens, clones, requests, operations and failures. The invariant is that every
    token is either granted or spent, and made before (`TokensAccounted`); that
    the operation's token is one of those and what it expects on the drive is there
    from verification on (`OperationTrue`); and that memory and file agree (`Durable`).
  * `UpdateTypeCorrect` and `WorkingControllerIsKept`,
    for any number of helpers, releases and mishaps. `Sound` says of each
    step of a helper what it relies on: until the backup is complete the installed
    controller works, from then on the backup does, and while either is replaced nothing runs.
    `Undisturbed` ties `clean` to there being no other helper. The proof needs that
    Windows does not remove a running executable (`InUse`): a rollback whose stop
    failed would else leave a controller that runs without its file, and the next update then deletes the backup.
  * `EveryAnswerIsRecent`, for every number of requests and
    times and all kinds of cache. The invariant bounds the age of the feed (`FeedTimely`), of what is
    fetched (`FetchesTimely`), which it makes older by its life and a fetch of its
    own, and of the entry (`EntryFresh`).
* `ControllerProofs`: what holds of the controller as a whole.
  * `PackagesMatch`, `ImportsAreUndone` and `SeedIsServed`, for any number of
    overlapping requests. `PackageInv` follows a request under the lock from point to point
    (`StoringSound`): until its record is saved, record and file still describe the package that is now the backup
    (`Before`), so that putting that one back repairs them; once it is saved, they describe the new
    one. For `SeedIsServed`, `StartInv` says of a controller that is still starting that only its own
    repair is under way, and brings the seed: what `Record` saves then is the seed's digests. Of a request outside the lock it says only which of its fields mean something (`JobSound`), and of
    an import nobody has disturbed that record and files are what it left (`ImportSound`).
  * `AlertsAreTrue`, for any number of rigs and any limit of the list. `AlertInv` says
    of the memory and of the file that each type of alert of an enrolled rig is active exactly when it was found, at most once, and missing
    only from a full list (`Said`). The connectivity check is followed rig by rig
    (`ChecksDefined`), in whatever order it takes them.
  * `SamplesAreKept`, for any retention and any number of days.
  * `ControllerTypeCorrect` and `ServicesKeepTheirPromises`. `ServiceSteps` shows that
    a step of the controller is a step of one service and none of the others, so
    that a behaviour of the controller is one of each service, and whatever is
    proved of `ConfigStore`, `RigEnrollment`, `Accounts`, `ControllerUpdate` and
    `SourceCache` by themselves holds beside everything else the controller does.

`Min` and `Max` of the community modules are choices, which the proofs justify by
the well-founded order of the natural numbers (`WFMin`). So do they justify the recursive
functions `AfterChecks` and `ControlledUpTo`: were there a length for which no such function
exists, there would be a least one, and the function for the length before can be extended.

### 4.1 Only model-checked

The four liveness properties, `EveryCommandFinishes`, `Converges`, `HotMinerStops` and
`CeilingReapplied`, which with their fairness are beyond the prover. The violation runs are
counterexamples and need no proof. No module uses a RECURSIVE operator.

### 4.2 Exceptions the properties name

* `OncePerProcess` leaves smart tunes out: `pollCommand` does not keep their
  result, and a tune whose result is lost for good is run again after its lease.
* `ConfigurationVersioned` leaves renames out: `AssignWorker` does not advance the
  revision for a name, although templates use it. It and `RestartTellsTheSame` are checked
  with miners whose arguments hold no login; with one, `shared_templates` shows what happens.
* `CeilingHolds` does not count a limit somebody else has set
  (`CeilingReapplied` does), and while the ceiling changes the looser one counts.
* `ServedPackageMatches` leaves out, until the next upload, a crash while a file is
  put in place and a `SaveMiner` that writes back digests it read before another upload
  (`trusted`). With a built-in package `StartsWithSeed` shows that both are right once the next
  start that does not end with an error serves.
* `FailedImportUndone` leaves out imports during which somebody else changed the
  miner, whose change the cleanup overwrites, and a cleanup whose own save fails.
* `WriterAndGrantAgree` leaves out a revocation that could not be saved (`kept`).
* `AlertsMatch` allows an alert to be missing while the list is full.
* `HistoryKept` leaves out a sample from the future: a rig whose clock is ahead
  by more than the retention deletes every rig's history when it sends one
  (`telemetry.go:29`), against "at least 32-day retention" (`README.md:96`).
* `ControllerKept` leaves out helpers that overlap, which nothing prevents, and
  promises a running service only if the helper met no failure but its own controller's.
* `AnswersAreRecent` allows an old answer after a failed refresh where the code says so.
  It is about the time at which a whole value was said; of one with older parts (a
  saved listing, CoinGecko's last changes, the bundled algorithms, the feed after a
  failed refresh) it bounds only when it was put together. Whoever reads the market
  feed through another cache gets values up to the sum of both lives old, without any failure.
* `FansFollow` leaves out GPUs that share their fans, and fans that a profile or another
  program, a failing command or a failing reset has changed, until the agent sets them
  the next time, which may be long: it does so only when the speed it wants is three
  points from the last one it set. While no policy is in force it leaves out fans that
  were passed over when the policy was disabled, or still set when the agent restarted.
* `GovernorsGivenBack` leaves out an original that could not be written back, which
  is forgotten, and a restart during a trial.
* `TunedExactly` starts from a rig that is tuned as its profile says: an
  unchanged profile is not applied again, whatever has happened to the hardware.

### 4.3 Seen while modelling, without a run

* `SaveFlightSheet` refuses a fallback that has a fallback itself
  (`resources.go:270`) but not a fallback for a sheet that is one already; the agent ignores the chain.
* The arguments of an update stay installed when its binary is rolled back
  (`client.go:540`); `RestorePrevious` therefore installs the previous ones again.
* A watchdog without a highest temperature does not look at the hashrate either
  (`client.go:814`).
* An API client may save a profile whose setting for one GPU stands before the
  one for all that has no power limit: the ceiling put into the latter then overrides
  the lower limit of the former, against README.md:200-201. A ceiling
  above what a GPU takes is refused by `nvidia-smi`, which stops the miner.
* Packages: a download is authorised for the miner of the assigned sheet only
  (`packages.go:302`); the agent, which installs the fallback's miner too, is refused
  that one. Saving the version after a catalogue refresh writes back the record as it
  was before the lock was released, so an upload in between loses its digest. An edit
  of a miner's format leaves the record without its file. A controller whose built-in
  miner was given another entry point refuses to start.
* Enrollment: the identity of an enrollment whose answer was lost stays, with its
  name, and the token is spent; the rig cannot enroll until an operator deletes it.
  When the image's digest could not be read once, manifest and image may be of
  different releases: every later flash then fails after it has erased the drive. An image that is
  there is never replaced by a newer release.
* Alerts: those of a deleted rig stay active for ever. A telemetry file that cannot
  be written keeps all alerts of the rig from being judged.
* History: a line that was written in part makes the whole day unreadable; a failed
  save after the sample, or a failed migration, stores samples twice; a clock set back
  stops the samples until it has caught up.
* Caches: "a flaky upstream does not blank out a dashboard page" (`discover.go:58-60`)
  holds of refreshes that end in an error (`AnswersAreRecent`). That of the hardware
  never does, because built-in cards are appended first (`discover_hardware.go:72-73`):
  with its sites down, the list of GPUs, ASICs and CPUs is replaced by what is left,
  for six hours; the calculator (`discover_calc.go:98`) does the same unless all its sites fail.
  `release`, `community` and `application` keep for an hour, for everybody, the error of a fetch
  whose own request was cancelled.
* Updates: an error between stopping and starting leaves the service stopped;
  rolling back leaves the agents of the release that failed published, which are
  offered to the rigs.
* Fans: all NVIDIA fans are given to every NVIDIA GPU, and the one whose speed
  changed last sets them all. When the policy is disabled while the agent is down, or
  while `nvidia-smi` cannot list the GPUs (`autofan.go:68`, which is no error), the
  fans stay manual at their last speed, and nothing resets them. An AMD fan whose speed
  cannot be written stays manual as well (`autofan.go:204`).
* Governors: a restart during a trial leaves all CPUs at `performance`; a trial that
  was rolled back is repeated as soon as there are three samples.

## 5. What is not modelled, and the plan

PROJECT.json lists every component with its status. Next, in this order:

1. The package of a fallback miner: `PackageStore` composed with `AgentWorkload`'s
   installation through the digest and the authorisation of downloads.
2. Sessions and log-in beside `Accounts`; the network scan as one job with
   64 workers and a cancellation.
3. Pure algorithms against reference definitions: the thinning of telemetry, the choice
   of `balancedTuneScore`, version comparison of releases.

Not modelled, and why:

* *Network scan*: one job at a time as in the USB writer; what it finds is network
  input.
* *Driver efficiency, driver installation, telemetry collection*: averages, and the output of
  external programs.
* *HTTP routing, decoding and roles, the web interface, installers, certificates and the
  other start-up files, the parsing of web sources, the Stratum exchange, the disk calls of the
  USB writer*: input and output around the state that is modelled, whose
  outcomes appear as nondeterministic success or failure.
* *The agent's own update*: one `systemd-run` of the installer script.
* *prepare of the CPU optimiser*: it starts a systemd unit and keeps no state.
