--------------------------- MODULE AgentWorkload ---------------------------
(***************************************************************************)
(* What one agent mines. The agent fetches its configuration, installs the *)
(* miners it names, starts the workload and only then takes the            *)
(* configuration as applied; heartbeats watch temperature, hashrate and    *)
(* the power ceiling; an Epic sheet fails over to another workload;        *)
(* operators start and stop the miner. All of it runs in one goroutine,    *)
(* whose steps a smart tune, the miner's own death, changes at the         *)
(* controller and the agent's restarts come between.                       *)
(*                                                                         *)
(* Sources: internal/agent/client.go (Run, heartbeat, syncConfiguration,   *)
(* startCPUWorkload, ensureManagedMiner, minerBinaryUpdate,                *)
(* enforceWatchdog, executeCommand), epic_failover.go and process.go.      *)
(*                                                                         *)
(* A version stands for a binary's digest or for a list of arguments. Of   *)
(* the hardware only is chosen whether setting it succeeds; a time that    *)
(* the watchdog or the failover waits for has passed or not, as it may be. *)
(***************************************************************************)
EXTENDS Integers

CONSTANTS
  Miner,         \* the miner definitions of the controller
  Version,       \* versions of binaries and of arguments
  None,          \* what is not there
  Config,        \* the configurations an operator gives the rig
  Commands,      \* what operators order: "start", "stop", "tune"
  Heats, Slows,  \* whether the GPUs can get hot, the hashrate low
  RebootAfter,   \* restarts for a low hashrate before a reboot
  MaxRevision,   \* bound on revisions
  MaxFaults,     \* bound on calls, downloads, settings, stops and starts that fail
  MaxRestarts    \* bound on agent restarts

Opt(S) == S \cup {None}

\* A workload without a binary uses the miner installed on the rig.
Workload == [miner : Miner, binary : Opt(Version), args : Version]

\* epic: the main miner is the Epic one, which fails over; heat and rate: the
\* watchdog looks at the temperature, at the hashrate; limit: there is a power
\* ceiling; profile: the overclock profile.
Configuration == [main : Opt(Workload), fallback : Opt(Workload), epic : BOOLEAN,
                  heat : BOOLEAN, rate : BOOLEAN, limit : BOOLEAN,
                  profile : Version]

Told == [revision : Nat, c : Configuration]

ASSUME NoneAssumption == None \notin Miner \cup Version \cup Workload
ASSUME ConfigAssumption == Config \subseteq Configuration /\ Version # {}
\* A workload names the binary of its miner's definition, so that what is told at
\* once names one binary of a miner.
ASSUME BinaryAssumption ==
  \A c \in Config : c.main # None /\ c.fallback # None /\ c.main.miner = c.fallback.miner
                      => c.main.binary = c.fallback.binary
ASSUME SwitchAssumption == Heats \in BOOLEAN /\ Slows \in BOOLEAN
ASSUME BoundAssumption ==
  /\ RebootAfter \in Nat \ {0}
  /\ MaxRevision \in Nat /\ MaxFaults \in Nat /\ MaxRestarts \in Nat

\* The configuration of a rig that has none, and of an agent that starts.
Blank == [main |-> None, fallback |-> None, epic |-> FALSE, heat |-> FALSE,
          rate |-> FALSE, limit |-> FALSE, profile |-> CHOOSE v \in Version : TRUE]

VARIABLES
  told,      \* what the controller would answer now
  history,   \* history: everything it would ever have answered
  conf,      \* Client.configuration
  applied,   \* Client.appliedRevision
  files,     \* the installed binary of each miner
  args,      \* MinerManager.profiles: the arguments of each miner
  running,   \* the miner process
  loop,      \* where the goroutine is, and what it holds there
  watch,     \* watchdogStopped, lowHashSince and watchdogFailures
  failover,  \* epicFailoverState
  tuning,    \* smartTuner.status.Active
  world,     \* the GPUs are hot, the hashrate is low
  faults,    \* how often something has failed
  restarts   \* how often the agent has restarted

vars == << told, history, conf, applied, files, args, running, loop, watch,
           failover, tuning, world, faults, restarts >>
installed   == << files, args >>
accepted    == << conf, applied >>
reactions   == << watch, failover >>
environment == << told, history, tuning, world, restarts >>

\* An update that replaced nothing, and those that keep what they replaced.
Kept == [replaced |-> FALSE, old |-> None]
Update == {Kept} \cup [replaced : {TRUE}, old : Opt(Version)]

\* got: the configuration being applied; command: an operator's start waits;
\* main and fallback: the updates of their binaries; seen: the process ran
\* when the metrics were collected.
Idle == [pc |-> "idle", got |-> [revision |-> 0, c |-> Blank], command |-> FALSE,
         main |-> Kept, fallback |-> Kept, seen |-> FALSE]
Loop == [pc : {"idle", "main", "fallback", "limit", "overclock", "start", "restore",
               "launch", "heat", "rate"},
         got : Told, command : BOOLEAN, main : Update, fallback : Update,
         seen : BOOLEAN]

NotWatched == [stopped |-> FALSE, low |-> FALSE, failures |-> 0]
NoFailover == [active |-> FALSE, since |-> "none"]

Return == loop' = Idle

-----------------------------------------------------------------------------
(* Failing, stopping and starting. *)

Fault == faults < MaxFaults /\ faults' = faults + 1

\* Stop fails when the process does not die in time.
Stop == running' = None /\ UNCHANGED faults
StopFails == Fault /\ UNCHANGED running

\* Faulty variant: a workload without a miner leaves the process alone.
LaunchedOver(w) == IF w = None THEN running
                   ELSE [miner |-> w.miner, args |-> args[w.miner],
                         binary |-> IF w.binary = None THEN None ELSE files[w.miner]]

\* The process of a workload: whatever binary and arguments are installed.
Launched(w) == IF w = None THEN None
               ELSE [miner |-> w.miner, args |-> args[w.miner],
                     binary |-> IF w.binary = None THEN None ELSE files[w.miner]]

Startable(w) == w # None => /\ args[w.miner] # None
                            /\ w.binary # None => files[w.miner] # None

\* startCPUWorkload sets the ceiling, stops the miner and starts the workload.
Launch(w) == Startable(w) /\ running' = Launched(w) /\ UNCHANGED faults

\* It fails: nothing is left running, unless the old process does not die.
LaunchFails == Fault /\ running' \in {None, running}

\* startActiveWorkload.
Active == IF failover.active /\ conf.fallback # None THEN conf.fallback ELSE conf.main

-----------------------------------------------------------------------------
(* syncConfiguration. *)

\* Faulty variant: one revision more is not news.
NewsIfFarAhead == told.revision > applied + 1 \/ told.c.limit # conf.limit

News == told.revision > applied \/ told.c.limit # conf.limit

\* A tick during a smart tune, or without news, changes nothing, but lets an
\* operator's start go on.
NothingToFetch ==
  /\ loop.pc = "idle" /\ "start" \in Commands
  /\ tuning \/ ~News
  /\ loop' = [Idle EXCEPT !.pc = "launch"]
  /\ UNCHANGED << environment, accepted, installed, running, reactions, faults >>

Fetch(command) ==
  /\ loop.pc = "idle" /\ ~tuning /\ News
  /\ command => "start" \in Commands
  /\ loop' = [Idle EXCEPT !.pc = "main", !.got = told, !.command = command]
  /\ UNCHANGED << environment, accepted, installed, running, reactions, faults >>

\* Faulty variant: the arguments are set only with a new binary.
ArgumentsIfReplaced(w, update) ==
  IF w = None \/ update = Kept THEN args ELSE [args EXCEPT ![w.miner] = w.args]

ArgumentsOf(w, update) == IF w = None THEN args ELSE [args EXCEPT ![w.miner] = w.args]

\* ensureManagedMiner: the binary is replaced when its digest is another one.
Ensured(w, update) ==
  /\ IF w = None \/ w.binary = None \/ w.binary = files[w.miner]
       THEN update = Kept /\ UNCHANGED files
       ELSE /\ update = [replaced |-> TRUE, old |-> files[w.miner]]
            /\ files' = [files EXCEPT ![w.miner] = w.binary]
  /\ args' = ArgumentsOf(w, update)

RolledBack(f, w, update) ==
  IF update = Kept THEN f ELSE [f EXCEPT ![w.miner] = update.old]

\* The fallback's update is the later one, so it goes back first.
BothRolledBack ==
  RolledBack(RolledBack(files, loop.got.c.fallback, loop.fallback),
             loop.got.c.main, loop.main)

EnsureMain ==
  /\ loop.pc = "main"
  /\ \/ \E update \in Update :
          /\ Ensured(loop.got.c.main, update)
          /\ loop' = [loop EXCEPT !.pc = "fallback", !.main = update]
          /\ UNCHANGED faults
     \/ loop.got.c.main # None /\ Fault /\ Return /\ UNCHANGED installed
  /\ UNCHANGED << environment, accepted, running, reactions >>

EnsureFallback ==
  /\ loop.pc = "fallback"
  /\ \/ \E update \in Update :
          /\ Ensured(loop.got.c.fallback, update)
          /\ loop' = [loop EXCEPT !.pc = "limit", !.fallback = update]
          /\ UNCHANGED faults
     \/ /\ loop.got.c.fallback # None /\ Fault /\ Return
        /\ files' = RolledBack(files, loop.got.c.main, loop.main)
        /\ UNCHANGED args
  /\ UNCHANGED << environment, accepted, running, reactions >>

\* A ceiling that cannot be set stops the miner. The updates stay.
EnforceLimit ==
  /\ loop.pc = "limit"
  /\ \/ loop' = [loop EXCEPT !.pc = "overclock"] /\ UNCHANGED << running, faults >>
     \/ loop.got.c.limit /\ Fault /\ Return /\ running' \in {None, running}
  /\ UNCHANGED << environment, accepted, installed, reactions >>

\* transitionOverclock fails: the ceiling is set again, which may fail as well
\* and stop the miner, or else the updates are taken back.
OverclockFails ==
  /\ << loop.got.c.profile, loop.got.c.limit >> # << conf.profile, conf.limit >>
  /\ Fault /\ Return
  /\ \/ files' = BothRolledBack /\ UNCHANGED running
     \/ loop.got.c.limit /\ running' \in {None, running} /\ UNCHANGED files

Overclock ==
  /\ loop.pc = "overclock"
  /\ \/ /\ loop' = [loop EXCEPT !.pc = "start"]
        /\ UNCHANGED << files, running, faults >>
     \/ OverclockFails
  /\ UNCHANGED << environment, accepted, args, reactions >>

\* Faulty variant: the controller's present revision is taken as applied.
RevisionNow == told.revision

RevisionGot == loop.got.revision

\* The new workload starts, and what was fetched is applied.
StartNew ==
  /\ loop.pc = "start"
  /\ Launch(loop.got.c.main)
  /\ conf' = loop.got.c /\ applied' = RevisionGot
  /\ failover' = NoFailover
  /\ watch' = [watch EXCEPT !.stopped = FALSE]
  /\ loop' = [Idle EXCEPT !.pc = IF loop.command THEN "launch" ELSE "idle"]
  /\ UNCHANGED << environment, installed >>

\* It does not start. Binaries that were replaced are put back; then, if the
\* main one was and there was a miner before, that one is started again.
StartNewFails ==
  /\ loop.pc = "start"
  /\ LaunchFails
  /\ files' = BothRolledBack
  /\ IF loop.main # Kept /\ conf.main # None
       THEN loop' = [loop EXCEPT !.pc = "restore"] ELSE Return
  /\ UNCHANGED << environment, accepted, args, reactions >>

\* What is started again is the main workload of the applied configuration.
RestorePrevious ==
  /\ loop.pc = "restore" /\ Return
  /\ \/ /\ \E update \in Update : Ensured(conf.main, update)
        /\ running' = conf.main /\ UNCHANGED faults
     \/ /\ \E update \in Update : Ensured(conf.main, update)
        /\ LaunchFails
     \/ Fault /\ UNCHANGED << installed, running >>
  /\ UNCHANGED << environment, accepted, reactions >>

-----------------------------------------------------------------------------
(* heartbeat: the ceiling, then enforceWatchdog. *)

Heartbeat ==
  /\ loop.pc = "idle"
  /\ loop' = [Idle EXCEPT !.pc = "heat", !.seen = running # None]
  /\ \/ UNCHANGED << running, faults >>
     \/ conf.limit /\ Fault /\ running' \in {None, running}
  /\ UNCHANGED << environment, accepted, installed, reactions >>

\* Without a highest temperature nothing is watched.
Overheated ==
  /\ conf.heat /\ world.hot /\ ~watch.stopped
  /\ Return
  /\ \/ Stop /\ watch' = [watch EXCEPT !.stopped = TRUE]
     \/ StopFails /\ UNCHANGED watch

CooledDown ==
  /\ conf.heat /\ ~world.hot /\ watch.stopped
  /\ \/ /\ Launch(Active)
        /\ watch' = [watch EXCEPT !.stopped = FALSE]
        /\ loop' = [loop EXCEPT !.pc = "rate"]
     \/ LaunchFails /\ Return /\ UNCHANGED watch

NoChangeOfHeat ==
  /\ world.hot = watch.stopped \/ ~conf.heat
  /\ loop' = IF conf.heat THEN [loop EXCEPT !.pc = "rate"] ELSE Idle
  /\ UNCHANGED << running, watch, faults >>

WatchHeat ==
  /\ loop.pc = "heat"
  /\ Overheated \/ CooledDown \/ NoChangeOfHeat
  /\ UNCHANGED << environment, accepted, installed, failover >>

\* Faulty variant: one restart more.
RebootDueLater(failures) == failures > RebootAfter

RebootDue(failures) == failures >= RebootAfter

WatchesRate == ~watch.stopped /\ conf.rate /\ loop.seen /\ ~tuning

RateFine ==
  /\ ~WatchesRate \/ ~world.slow
  /\ watch' = IF WatchesRate THEN [watch EXCEPT !.low = FALSE, !.failures = 0]
                             ELSE [watch EXCEPT !.low = FALSE]
  /\ UNCHANGED << running, faults >>

\* The hashrate falls below the least one, or has been so for too short a time.
RateLow ==
  /\ WatchesRate /\ world.slow
  /\ watch' = [watch EXCEPT !.low = TRUE]
  /\ UNCHANGED << running, faults >>

RateTooLong ==
  /\ WatchesRate /\ world.slow /\ watch.low
  /\ watch' = [watch EXCEPT !.failures = @ + 1]
  /\ IF RebootDue(watch.failures + 1) THEN StopFails  \* the reboot is refused
                                      ELSE Launch(Active) \/ LaunchFails

WatchRate ==
  /\ loop.pc = "rate" /\ Return
  /\ RateFine \/ RateLow \/ RateTooLong
  /\ UNCHANGED << environment, accepted, installed, failover >>

-----------------------------------------------------------------------------
(* reconcileEpicFailover. *)

\* Faulty variant: the watchdog's stop is not looked at.
MaySwitchAnyway(since) == failover.since = since

\* The stratum has been so for some time, and the watchdog allows a miner.
MaySwitch(since) == failover.since = since /\ ~watch.stopped

Switch(w, active) ==
  \/ /\ Launch(w)
     /\ failover' = [active |-> active, since |-> IF active THEN "down" ELSE "none"]
     /\ watch' = [watch EXCEPT !.low = FALSE, !.failures = 0]
  \/ LaunchFails /\ UNCHANGED reactions

Since(since) == /\ failover' = [failover EXCEPT !.since = since]
                /\ UNCHANGED << running, watch, faults >>

PrimaryAvailable ==
  IF failover.active
    THEN Since("up") \/ (MaySwitch("up") /\ Switch(conf.main, FALSE))
    ELSE Since("none")

PrimaryUnavailable ==
  \/ Since("down")
  \/ ~failover.active /\ MaySwitch("down") /\ Switch(conf.fallback, TRUE)

\* Asking the stratum is left to chance: a hashing primary counts as available
\* when it does not answer.
CheckFailover ==
  /\ loop.pc = "idle" /\ conf.epic /\ conf.fallback # None
  /\ PrimaryAvailable \/ PrimaryUnavailable
  /\ UNCHANGED << environment, accepted, installed, loop >>

-----------------------------------------------------------------------------
(* Commands, and what else happens. *)

\* The end of "start" and "restart", once the configuration is in sync.
StartActive ==
  /\ loop.pc = "launch" /\ Return
  /\ Launch(Active) \/ LaunchFails
  /\ UNCHANGED << environment, accepted, installed, reactions >>

\* "stop", and the stop before a driver update.
StopCommand ==
  /\ loop.pc = "idle" /\ "stop" \in Commands /\ running # None
  /\ Stop
  /\ UNCHANGED << environment, accepted, installed, loop, reactions >>

TuneStarts ==
  /\ loop.pc = "idle" /\ "tune" \in Commands /\ ~tuning
  /\ tuning' = TRUE
  /\ UNCHANGED << told, history, world, restarts, accepted, installed, running,
                  loop, reactions, faults >>

TuneEnds ==
  /\ tuning /\ tuning' = FALSE
  /\ UNCHANGED << told, history, world, restarts, accepted, installed, running,
                  loop, reactions, faults >>

MinerExits ==
  /\ running # None /\ running' = None
  /\ UNCHANGED << environment, accepted, installed, loop, reactions, faults >>

\* The agent is stopped, updated, or its machine rebooted, at any point; the
\* binaries stay as they are.
AgentRestarts ==
  /\ restarts < MaxRestarts /\ restarts' = restarts + 1
  /\ conf' = Blank /\ applied' = 0
  /\ args' = [m \in Miner |-> None]
  /\ running' = None /\ loop' = Idle
  /\ watch' = NotWatched /\ failover' = NoFailover /\ tuning' = FALSE
  /\ UNCHANGED << told, history, files, world, faults >>

Tell(answer) ==
  /\ told' = answer /\ history' = history \cup {answer}
  /\ UNCHANGED << tuning, world, restarts, accepted, installed, running, loop,
                  reactions, faults >>

\* The operator changes something, and the controller bumps the revision.
Reconfigure(c) ==
  /\ told.revision < MaxRevision /\ c # told.c
  /\ Tell([revision |-> told.revision + 1, c |-> c])

\* A rig that has reported no GPUs yet is not bumped for a new ceiling.
ChangeLimit ==
  /\ told.revision # 0 /\ \E c \in Config : c = [told.c EXCEPT !.limit = ~@]
  /\ Tell([told EXCEPT !.c.limit = ~@])

WorldChanges ==
  /\ \/ Heats /\ world' = [world EXCEPT !.hot = ~@]
     \/ Slows /\ world' = [world EXCEPT !.slow = ~@]
  /\ UNCHANGED << told, history, tuning, restarts, accepted, installed, running,
                  loop, reactions, faults >>

-----------------------------------------------------------------------------

Init ==
  /\ told = [revision |-> 0, c |-> Blank] /\ history = {told}
  /\ conf = Blank /\ applied = 0
  /\ files = [m \in Miner |-> None] /\ args = [m \in Miner |-> None]
  /\ running = None /\ loop = Idle
  /\ watch = NotWatched /\ failover = NoFailover /\ tuning = FALSE
  /\ world = [hot |-> FALSE, slow |-> FALSE]
  /\ faults = 0 /\ restarts = 0

Applying == EnsureMain \/ EnsureFallback \/ EnforceLimit \/ Overclock
            \/ StartNew \/ StartNewFails \/ RestorePrevious \/ StartActive
Watching == WatchHeat \/ WatchRate

Goroutine == \/ NothingToFetch \/ \E command \in BOOLEAN : Fetch(command)
             \/ Applying \/ Heartbeat \/ Watching \/ CheckFailover
             \/ StopCommand \/ TuneStarts

World == \/ TuneEnds \/ MinerExits \/ AgentRestarts \/ WorldChanges
         \/ ChangeLimit \/ \E c \in Config : Reconfigure(c)

Next == Goroutine \/ World

Spec == Init /\ [][Next]_vars

\* Go's select takes every ticker's tick sooner or later, what a handler has
\* begun it goes on with, and a smart tune ends.
FairSpec ==
  /\ Spec
  /\ SF_vars(Fetch(FALSE)) /\ WF_vars(Applying) /\ WF_vars(Watching)
  /\ SF_vars(Heartbeat) /\ WF_vars(TuneEnds)

-----------------------------------------------------------------------------
(* What has to hold. *)

\* Every variable keeps to its values. So many low hashrates in a row lead to a
\* reboot that there are only more of them when it has been refused.
TypeOK ==
  /\ told \in Told /\ history \subseteq Told
  /\ conf \in Configuration /\ applied \in Nat
  /\ files \in [Miner -> Opt(Version)] /\ args \in [Miner -> Opt(Version)]
  /\ running \in Opt(Workload) /\ loop \in Loop
  /\ watch \in [stopped : BOOLEAN, low : BOOLEAN,
                failures : 0 .. RebootAfter - 1 + MaxFaults]
  /\ failover \in [active : BOOLEAN, since : {"none", "down", "up"}]
  /\ tuning \in BOOLEAN /\ world \in [hot : BOOLEAN, slow : BOOLEAN]
  /\ faults \in 0 .. MaxFaults /\ restarts \in 0 .. MaxRestarts

\* The revision an agent reports is one the controller gave the configuration
\* it has, though the controller goes on changing while it is applied.
AppliedAsTold == [revision |-> applied, c |-> conf] \in history

\* What runs is a miner of the applied configuration, not one of a sheet that
\* was taken away, nor of one that is still being applied.
RunsAssigned ==
  running # None =>
    \E w \in {conf.main, conf.fallback} \ {None} : w.miner = running.miner

\* An agent that is up to date, whatever failed before, runs the very binary
\* and arguments it was told.
ExactWhenCurrent ==
  (loop.pc = "idle" /\ running # None /\ told = [revision |-> applied, c |-> conf])
    => running \in {conf.main, conf.fallback}

\* After the watchdog has stopped a miner for heat, neither the failover nor
\* the hashrate's watchdog starts one before it has cooled: only a new
\* configuration or an operator does.
StaysCool ==
  [][world.hot /\ watch.stopped /\ running = None /\ running' # None =>
       loop.pc \in {"start", "restore", "launch"}]_vars

\* Once the controller's answer no longer changes, the agent applies it and
\* stays with it, whatever failed, restarted or was measured on the way.
Converges ==
  (<>[][FALSE]_told) => <>[](told = [revision |-> applied, c |-> conf])

\* "Transactional miner updates that ... automatically restore the previous
\* binary if startup fails" (README.md:71).
FailedUpdateRestored ==
  [][(StartNewFails /\ conf.main # None /\ conf.main.binary # None)
       => files'[conf.main.miner] = conf.main.binary]_vars

\* "It starts the fallback when the node is unavailable ... It returns to Epic
\* after RandomX remains available" (README.md:443-444): while the failover is
\* on the fallback, it is not the primary that runs.
FallbackRuns ==
  loop.pc = "idle" /\ failover.active /\ running # None => running # conf.main

\* "Local temperature and hashrate watchdogs" (README.md:94): a miner does not
\* run hot for ever. True as long as no operator starts one the watchdog has
\* stopped: it does not stop that one again.
HotMinerStops ==
  [](conf.heat /\ world.hot => <>(running = None \/ ~world.hot \/ ~conf.heat))

=============================================================================
