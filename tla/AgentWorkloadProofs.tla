------------------------ MODULE AgentWorkloadProofs ------------------------
(***************************************************************************)
(* What holds of AgentWorkload for all miners, versions, configurations    *)
(* and bounds: its type invariant, that a reported revision is one the     *)
(* controller gave the running configuration, that what runs is assigned,  *)
(* and is exactly what was told once no revision is outstanding, and that  *)
(* a miner stopped for heat is not started by the watchdog or the failover *)
(* before it has cooled.                                                   *)
(***************************************************************************)
EXTENDS AgentWorkload, TLAPS

First == [revision |-> 0, c |-> Blank]

\* What the goroutine and the agent hold is something the controller said.
HeldIsTold == told \in history /\ First \in history /\ loop.got \in history

\* Only where there was a miner is one started again.
RestoresSomething == loop.pc = "restore" => conf.main # None

\* Low hashrates beyond those that lead to a reboot are refused reboots.
FailuresBounded == watch.failures <= RebootAfter - 1 + faults

Inv == /\ TypeOK /\ HeldIsTold /\ RestoresSomething /\ FailuresBounded
       /\ AppliedAsTold /\ RunsAssigned

USE NoneAssumption, ConfigAssumption, SwitchAssumption, BoundAssumption

-----------------------------------------------------------------------------
(* The operators the actions are built from. *)

\* A rig without a configuration has a well-formed one.
LEMMA BlankType == Blank \in Configuration /\ First \in Told
<1>1. (CHOOSE v \in Version : TRUE) \in Version
  OBVIOUS
<1> QED BY <1>1 DEF Blank, Configuration, Opt, First, Told

\* Between handlers the goroutine holds nothing.
LEMMA IdleType == Idle \in Loop /\ Idle.got = First
BY BlankType DEF Idle, Loop, Update, Kept, First

\* What a successful start leaves is a process of the workload's miner.
LEMMA LaunchStarts ==
  ASSUME TypeOK, NEW w \in Opt(Workload), Launch(w)
  PROVE  /\ running' \in Opt(Workload) /\ UNCHANGED faults
         /\ running' # None => w # None /\ running'.miner = w.miner
<1>1. CASE w = None
  BY <1>1 DEF Launch, Launched, Opt
<1>2. CASE w # None
  <2>1. w \in Workload
    BY <1>2 DEF Opt
  <2>2. w.miner \in Miner
    BY <2>1 DEF Workload
  <2>3. args[w.miner] \in Version
    BY <1>2, <2>2 DEF TypeOK, Launch, Startable, Opt
  <2>4. files[w.miner] \in Opt(Version)
    BY <2>2 DEF TypeOK
  <2>5. (IF w.binary = None THEN None ELSE files[w.miner]) \in Opt(Version)
    BY <2>4 DEF Opt
  <2>6. running' = [miner |-> w.miner, args |-> args[w.miner],
                    binary |-> IF w.binary = None THEN None ELSE files[w.miner]]
    BY <1>2 DEF Launch, Launched
  <2>7. running' \in Workload
    BY <2>2, <2>3, <2>5, <2>6 DEF Workload
  <2> QED BY <1>2, <2>6, <2>7 DEF Launch, Opt
<1> QED BY <1>1, <1>2

\* Something that fails is counted.
LEMMA FaultCounted ==
  ASSUME TypeOK, Fault
  PROVE  faults' \in 0 .. MaxFaults /\ faults' = faults + 1
BY DEF TypeOK, Fault

\* Installing a workload's miner sets a version or leaves it.
LEMMA EnsuredType ==
  ASSUME TypeOK, NEW w \in Opt(Workload), NEW update, Ensured(w, update)
  PROVE  files' \in [Miner -> Opt(Version)] /\ args' \in [Miner -> Opt(Version)]
<1>1. CASE w = None
  BY <1>1 DEF Ensured, TypeOK, ArgumentsOf
<1>2. CASE w # None
  <2>1. w \in Workload
    BY <1>2 DEF Opt
  <2>2. w.binary \in Opt(Version) /\ w.args \in Opt(Version)
    BY <2>1 DEF Workload, Opt
  <2> QED BY <1>2, <2>2 DEF Ensured, TypeOK, ArgumentsOf
<1> QED BY <1>1, <1>2

\* A rollback puts back a version that was there.
LEMMA RolledBackType ==
  ASSUME NEW f \in [Miner -> Opt(Version)], NEW w, NEW update \in Update
  PROVE  RolledBack(f, w, update) \in [Miner -> Opt(Version)]
<1>1. CASE update = Kept
  BY <1>1 DEF RolledBack
<1>2. CASE update # Kept
  <2>1. update.old \in Opt(Version)
    BY <1>2 DEF Update
  <2> QED BY <1>2, <2>1 DEF RolledBack
<1> QED BY <1>1, <1>2

LEMMA BothRolledBackType ==
  ASSUME TypeOK
  PROVE  BothRolledBack \in [Miner -> Opt(Version)]
<1>1. loop.main \in Update /\ loop.fallback \in Update /\ files \in [Miner -> Opt(Version)]
  BY DEF TypeOK, Loop
<1>2. RolledBack(files, loop.got.c.fallback, loop.fallback) \in [Miner -> Opt(Version)]
  BY <1>1, RolledBackType
<1> QED BY <1>1, <1>2, RolledBackType DEF BothRolledBack

\* What is fetched and what is applied are configurations.
LEMMA HeldType ==
  ASSUME TypeOK
  PROVE  /\ conf.main \in Opt(Workload) /\ conf.fallback \in Opt(Workload)
         /\ loop.got.c \in Configuration /\ loop.got.revision \in Nat
         /\ loop.got.c.main \in Opt(Workload) /\ loop.got.c.fallback \in Opt(Workload)
<1>1. loop.got \in Told
  BY DEF TypeOK, Loop
<1>2. loop.got.c \in Configuration /\ loop.got.revision \in Nat
  BY <1>1 DEF Told
<1>3. conf \in Configuration
  BY DEF TypeOK
<1> QED BY <1>2, <1>3 DEF Configuration

\* The workload an operator or the watchdog starts is one of the applied
\* configuration.
LEMMA ActiveAssigned ==
  ASSUME TypeOK
  PROVE  Active \in Opt(Workload) /\ Active \in {conf.main, conf.fallback}
BY HeldType DEF Active

-----------------------------------------------------------------------------
(* The steps of the goroutine. Most of them leave what is told and applied  *)
(* alone, and move on or return.                                            *)

\* Where a step may leave the goroutine: with what it held, or with nothing.
LEMMA LoopMoves ==
  ASSUME Inv, NEW to \in {"fallback", "limit", "overclock", "start", "launch", "heat", "rate"},
         NEW n \in Loop, n.got \in {loop.got, First},
         loop' = [n EXCEPT !.pc = to]
  PROVE  loop' \in Loop /\ loop'.got \in history /\ loop'.pc = to
<1>1. loop' \in Loop /\ loop'.got = n.got /\ loop'.pc = to
  BY DEF Loop
<1> QED BY <1>1 DEF Inv, HeldIsTold

LEMMA LoopReturns ==
  ASSUME Inv, Return
  PROVE  loop' \in Loop /\ loop'.got \in history /\ loop'.pc = "idle"
BY IdleType DEF Return, Inv, HeldIsTold, Idle

\* A step that keeps what is told and applied keeps the invariant when it
\* leaves well-formed values and a process that is assigned.
LEMMA Kept_Inv ==
  ASSUME Inv, UNCHANGED << told, history, accepted >>,
         loop' \in Loop, loop'.got \in history,
         loop'.pc = "restore" => conf.main # None,
         files' \in [Miner -> Opt(Version)], args' \in [Miner -> Opt(Version)],
         running' \in Opt(Workload), RunsAssigned',
         watch' \in [stopped : BOOLEAN, low : BOOLEAN, failures : Nat],
         watch'.failures <= RebootAfter - 1 + faults',
         failover' \in [active : BOOLEAN, since : {"none", "down", "up"}],
         tuning' \in BOOLEAN, world' \in [hot : BOOLEAN, slow : BOOLEAN],
         faults' \in 0 .. MaxFaults, restarts' \in 0 .. MaxRestarts
  PROVE  Inv'
<1>1. watch' \in [stopped : BOOLEAN, low : BOOLEAN,
                  failures : 0 .. RebootAfter - 1 + MaxFaults]
  <2>1. watch'.failures \in 0 .. RebootAfter - 1 + MaxFaults
    OBVIOUS
  <2> QED BY <2>1
<1>2. TypeOK'
  BY <1>1 DEF Inv, TypeOK, accepted
<1>3. HeldIsTold' /\ AppliedAsTold' /\ RestoresSomething' /\ FailuresBounded'
  BY DEF Inv, HeldIsTold, AppliedAsTold, RestoresSomething, FailuresBounded, accepted
<1> QED BY <1>2, <1>3 DEF Inv

\* The same where neither the watchdog, the failover nor the world moves.
LEMMA Step_Inv ==
  ASSUME Inv, UNCHANGED << environment, accepted, reactions >>,
         loop' \in Loop, loop'.got \in history,
         loop'.pc = "restore" => conf.main # None,
         files' \in [Miner -> Opt(Version)], args' \in [Miner -> Opt(Version)],
         running' \in Opt(Workload), RunsAssigned',
         faults' \in 0 .. MaxFaults, faults' >= faults
  PROVE  Inv'
<1>1. /\ watch' \in [stopped : BOOLEAN, low : BOOLEAN, failures : Nat]
      /\ watch'.failures <= RebootAfter - 1 + faults'
  <2>1. /\ watch.failures \in Nat /\ watch.failures <= RebootAfter - 1 + faults
        /\ watch \in [stopped : BOOLEAN, low : BOOLEAN, failures : Nat]
    BY DEF Inv, TypeOK, FailuresBounded
  <2>2. faults \in Nat /\ faults' \in Nat
    BY DEF Inv, TypeOK
  <2> QED BY <2>1, <2>2 DEF reactions
<1> QED BY <1>1, Kept_Inv DEF Inv, TypeOK, environment, reactions

\* A process that goes on, or stops, is assigned as before.
LEMMA StaysAssigned ==
  ASSUME Inv, UNCHANGED accepted, running' \in {None, running}
  PROVE  running' \in Opt(Workload) /\ RunsAssigned'
BY DEF Inv, TypeOK, RunsAssigned, accepted, Opt

LEMMA NothingToFetch_Inv == ASSUME Inv, NothingToFetch PROVE Inv'
<1>1. loop' \in Loop /\ loop'.got \in history /\ loop'.pc = "launch"
  BY IdleType, LoopMoves DEF NothingToFetch
<1>2. running' \in Opt(Workload) /\ RunsAssigned'
  BY StaysAssigned DEF NothingToFetch
<1> QED BY <1>1, <1>2, Step_Inv DEF NothingToFetch, Inv, TypeOK, installed

LEMMA Fetch_Inv == ASSUME Inv, NEW command \in BOOLEAN, Fetch(command) PROVE Inv'
<1>1. loop' \in Loop /\ loop'.got \in history /\ loop'.pc = "main"
  <2>1. told \in Told /\ told \in history
    BY DEF Inv, TypeOK, HeldIsTold
  <2>2. Idle \in Loop
    BY IdleType
  <2> QED BY <2>1, <2>2 DEF Fetch, Loop
<1>2. running' \in Opt(Workload) /\ RunsAssigned'
  BY StaysAssigned DEF Fetch
<1> QED BY <1>1, <1>2, Step_Inv DEF Fetch, Inv, TypeOK, installed

LEMMA EnsureMain_Inv == ASSUME Inv, EnsureMain PROVE Inv'
<1>0. TypeOK /\ loop \in Loop /\ loop.got \in history
  BY DEF Inv, TypeOK, HeldIsTold
<1>1. running' \in Opt(Workload) /\ RunsAssigned'
  BY StaysAssigned DEF EnsureMain
<1>2. ASSUME NEW update \in Update, Ensured(loop.got.c.main, update),
             loop' = [loop EXCEPT !.pc = "fallback", !.main = update],
             UNCHANGED faults
      PROVE  Inv'
  <2>1. files' \in [Miner -> Opt(Version)] /\ args' \in [Miner -> Opt(Version)]
    BY <1>0, <1>2, HeldType, EnsuredType
  <2>2. loop' \in Loop /\ loop'.got \in history /\ loop'.pc = "fallback"
    BY <1>0, <1>2 DEF Loop
  <2>3. faults' \in 0 .. MaxFaults /\ faults' >= faults
    BY <1>0, <1>2 DEF TypeOK
  <2> QED BY <1>1, <2>1, <2>2, <2>3, Step_Inv DEF EnsureMain
<1>3. ASSUME Fault, Return, UNCHANGED installed
      PROVE  Inv'
  <2>1. faults' \in 0 .. MaxFaults /\ faults' >= faults
    BY <1>0, <1>3, FaultCounted DEF TypeOK
  <2>2. loop' \in Loop /\ loop'.got \in history /\ loop'.pc = "idle"
    BY <1>3, LoopReturns
  <2> QED BY <1>0, <1>1, <1>3, <2>1, <2>2, Step_Inv DEF EnsureMain, TypeOK, installed
<1> QED BY <1>2, <1>3 DEF EnsureMain

LEMMA EnsureFallback_Inv == ASSUME Inv, EnsureFallback PROVE Inv'
<1>0. TypeOK /\ loop \in Loop /\ loop.got \in history
  BY DEF Inv, TypeOK, HeldIsTold
<1>1. running' \in Opt(Workload) /\ RunsAssigned'
  BY StaysAssigned DEF EnsureFallback
<1>2. ASSUME NEW update \in Update, Ensured(loop.got.c.fallback, update),
             loop' = [loop EXCEPT !.pc = "limit", !.fallback = update],
             UNCHANGED faults
      PROVE  Inv'
  <2>1. files' \in [Miner -> Opt(Version)] /\ args' \in [Miner -> Opt(Version)]
    BY <1>0, <1>2, HeldType, EnsuredType
  <2>2. loop' \in Loop /\ loop'.got \in history /\ loop'.pc = "limit"
    BY <1>0, <1>2 DEF Loop
  <2>3. faults' \in 0 .. MaxFaults /\ faults' >= faults
    BY <1>0, <1>2 DEF TypeOK
  <2> QED BY <1>1, <2>1, <2>2, <2>3, Step_Inv DEF EnsureFallback
<1>3. ASSUME Fault, Return, UNCHANGED args,
             files' = RolledBack(files, loop.got.c.main, loop.main)
      PROVE  Inv'
  <2>1. faults' \in 0 .. MaxFaults /\ faults' >= faults
    BY <1>0, <1>3, FaultCounted DEF TypeOK
  <2>2. loop' \in Loop /\ loop'.got \in history /\ loop'.pc = "idle"
    BY <1>3, LoopReturns
  <2>3. files' \in [Miner -> Opt(Version)]
    BY <1>0, <1>3, RolledBackType DEF TypeOK, Loop
  <2> QED BY <1>0, <1>1, <1>3, <2>1, <2>2, <2>3, Step_Inv DEF EnsureFallback, TypeOK
<1> QED BY <1>2, <1>3 DEF EnsureFallback

LEMMA EnforceLimit_Inv == ASSUME Inv, EnforceLimit PROVE Inv'
<1>0. TypeOK /\ loop \in Loop /\ loop.got \in history
  BY DEF Inv, TypeOK, HeldIsTold
<1>1. running' \in Opt(Workload) /\ RunsAssigned'
  BY StaysAssigned DEF EnforceLimit
<1>2. ASSUME loop' = [loop EXCEPT !.pc = "overclock"], UNCHANGED faults
      PROVE  Inv'
  <2>1. loop' \in Loop /\ loop'.got \in history /\ loop'.pc = "overclock"
    BY <1>0, <1>2, LoopMoves
  <2> QED BY <1>0, <1>1, <1>2, <2>1, Step_Inv DEF EnforceLimit, TypeOK, installed
<1>3. ASSUME Fault, Return
      PROVE  Inv'
  <2>1. faults' \in 0 .. MaxFaults /\ faults' >= faults
    BY <1>0, <1>3, FaultCounted DEF TypeOK
  <2>2. loop' \in Loop /\ loop'.got \in history /\ loop'.pc = "idle"
    BY <1>3, LoopReturns
  <2> QED BY <1>0, <1>1, <2>1, <2>2, Step_Inv DEF EnforceLimit, TypeOK, installed
<1> QED BY <1>2, <1>3 DEF EnforceLimit

LEMMA Overclock_Inv == ASSUME Inv, Overclock PROVE Inv'
<1>0. TypeOK /\ loop \in Loop /\ loop.got \in history
  BY DEF Inv, TypeOK, HeldIsTold
<1>1. running' \in Opt(Workload) /\ RunsAssigned'
  BY StaysAssigned DEF Overclock, OverclockFails
<1>2. ASSUME loop' = [loop EXCEPT !.pc = "start"], UNCHANGED << files, faults >>
      PROVE  Inv'
  <2>1. loop' \in Loop /\ loop'.got \in history /\ loop'.pc = "start"
    BY <1>0, <1>2, LoopMoves
  <2> QED BY <1>0, <1>1, <1>2, <2>1, Step_Inv DEF Overclock, TypeOK
<1>3. ASSUME OverclockFails
      PROVE  Inv'
  <2>1. faults' \in 0 .. MaxFaults /\ faults' >= faults
    BY <1>0, <1>3, FaultCounted DEF TypeOK, OverclockFails
  <2>2. loop' \in Loop /\ loop'.got \in history /\ loop'.pc = "idle"
    BY <1>3, LoopReturns DEF OverclockFails
  <2>3. files' \in [Miner -> Opt(Version)]
    BY <1>0, <1>3, BothRolledBackType DEF OverclockFails, TypeOK
  <2> QED BY <1>0, <1>1, <2>1, <2>2, <2>3, Step_Inv DEF Overclock, TypeOK
<1> QED BY <1>2, <1>3 DEF Overclock

\* The one step that changes what is applied: both at once, with the process.
LEMMA StartNew_Inv == ASSUME Inv, StartNew PROVE Inv'
<1>0. TypeOK /\ loop \in Loop /\ loop.got \in history /\ loop.got \in Told
  BY DEF Inv, TypeOK, HeldIsTold, Loop
<1>1. /\ running' \in Opt(Workload) /\ UNCHANGED faults
      /\ running' # None => loop.got.c.main # None /\ running'.miner = loop.got.c.main.miner
  BY <1>0, HeldType, LaunchStarts DEF StartNew
<1>2. conf' \in Configuration /\ applied' \in Nat /\ conf' = loop.got.c
  BY <1>0 DEF StartNew, RevisionGot, Told
<1>3. RunsAssigned'
  BY <1>1, <1>2 DEF RunsAssigned
<1>4. AppliedAsTold'
  <2>1. loop.got = [revision |-> loop.got.revision, c |-> loop.got.c]
    BY <1>0 DEF Told
  <2> QED BY <1>0, <2>1 DEF AppliedAsTold, StartNew, RevisionGot, environment
<1>5. loop' \in Loop /\ loop'.got = First /\ loop'.pc \in {"launch", "idle"}
  BY IdleType DEF StartNew, Loop
<1>6. /\ watch' \in [stopped : BOOLEAN, low : BOOLEAN,
                     failures : 0 .. RebootAfter - 1 + MaxFaults]
      /\ watch'.failures = watch.failures
  BY <1>0 DEF StartNew, TypeOK
<1>7. failover' \in [active : BOOLEAN, since : {"none", "down", "up"}]
  BY DEF StartNew, NoFailover
<1>8. TypeOK'
  BY <1>0, <1>1, <1>2, <1>5, <1>6, <1>7 DEF StartNew, TypeOK, environment, installed
<1>9. HeldIsTold' /\ RestoresSomething' /\ FailuresBounded'
  BY <1>1, <1>5, <1>6 DEF Inv, HeldIsTold, RestoresSomething, FailuresBounded,
                          StartNew, environment
<1> QED BY <1>3, <1>4, <1>8, <1>9 DEF Inv

LEMMA StartNewFails_Inv == ASSUME Inv, StartNewFails PROVE Inv'
<1>0. TypeOK /\ loop \in Loop /\ loop.got \in history
  BY DEF Inv, TypeOK, HeldIsTold
<1>1. running' \in Opt(Workload) /\ RunsAssigned'
  BY StaysAssigned DEF StartNewFails, LaunchFails
<1>2. faults' \in 0 .. MaxFaults /\ faults' >= faults
  BY <1>0, FaultCounted DEF StartNewFails, LaunchFails, TypeOK
<1>3. /\ loop' \in Loop /\ loop'.got \in history
      /\ loop'.pc = "restore" => conf.main # None
  <2>1. CASE Return
    BY <2>1, LoopReturns
  <2>2. CASE loop' = [loop EXCEPT !.pc = "restore"] /\ conf.main # None
    BY <1>0, <2>2 DEF Loop
  <2> QED BY <2>1, <2>2 DEF StartNewFails
<1>4. files' \in [Miner -> Opt(Version)]
  BY <1>0, BothRolledBackType DEF StartNewFails
<1> QED BY <1>0, <1>1, <1>2, <1>3, <1>4, Step_Inv DEF StartNewFails, TypeOK

LEMMA RestorePrevious_Inv == ASSUME Inv, RestorePrevious PROVE Inv'
<1>0. TypeOK /\ conf.main \in Workload
  BY HeldType DEF Inv, TypeOK, RestoresSomething, RestorePrevious, Opt
<1>1. loop' \in Loop /\ loop'.got \in history /\ loop'.pc = "idle"
  BY LoopReturns DEF RestorePrevious
<1>2. running' \in Opt(Workload) /\ RunsAssigned'
  <2>1. CASE running' = conf.main
    BY <1>0, <2>1 DEF RestorePrevious, RunsAssigned, accepted, Opt
  <2>2. CASE running' \in {None, running}
    BY <2>2, StaysAssigned DEF RestorePrevious
  <2> QED BY <2>1, <2>2 DEF RestorePrevious, LaunchFails
<1>3. files' \in [Miner -> Opt(Version)] /\ args' \in [Miner -> Opt(Version)]
  <2>1. CASE \E update \in Update : Ensured(conf.main, update)
    BY <1>0, <2>1, HeldType, EnsuredType
  <2>2. CASE UNCHANGED installed
    BY <1>0, <2>2 DEF TypeOK, installed
  <2> QED BY <2>1, <2>2 DEF RestorePrevious, installed
<1>4. faults' \in 0 .. MaxFaults /\ faults' >= faults
  BY <1>0, FaultCounted DEF RestorePrevious, LaunchFails, TypeOK
<1> QED BY <1>1, <1>2, <1>3, <1>4, Step_Inv DEF RestorePrevious

-----------------------------------------------------------------------------
(* Heartbeats, the failover, commands, and the world.                       *)

LEMMA Heartbeat_Inv == ASSUME Inv, Heartbeat PROVE Inv'
<1>0. TypeOK
  BY DEF Inv
<1>1. running' \in Opt(Workload) /\ RunsAssigned'
  BY StaysAssigned DEF Heartbeat
<1>2. loop' \in Loop /\ loop'.got \in history /\ loop'.pc = "heat"
  BY IdleType DEF Inv, HeldIsTold, Heartbeat, Loop
<1>3. faults' \in 0 .. MaxFaults /\ faults' >= faults
  BY <1>0, FaultCounted DEF Heartbeat, TypeOK
<1> QED BY <1>0, <1>1, <1>2, <1>3, Step_Inv DEF Heartbeat, TypeOK, installed

\* A start of the active workload, or one that fails, leaves an assigned
\* process.
LEMMA ActiveStarts ==
  ASSUME Inv, UNCHANGED accepted, Launch(Active) \/ LaunchFails
  PROVE  /\ running' \in Opt(Workload) /\ RunsAssigned'
         /\ faults' \in 0 .. MaxFaults /\ faults' >= faults
<1>0. TypeOK
  BY DEF Inv
<1>1. CASE Launch(Active)
  <2>1. /\ running' \in Opt(Workload) /\ UNCHANGED faults
        /\ running' # None => Active # None /\ running'.miner = Active.miner
    BY <1>0, <1>1, ActiveAssigned, LaunchStarts
  <2>2. RunsAssigned'
    BY <1>0, <2>1, ActiveAssigned DEF RunsAssigned, accepted
  <2> QED BY <1>0, <2>1, <2>2 DEF TypeOK
<1>2. CASE LaunchFails
  BY <1>0, <1>2, StaysAssigned, FaultCounted DEF LaunchFails, TypeOK
<1> QED BY <1>1, <1>2

\* The watchdog: a step that counts no low hashrate.
LEMMA Watch_Inv ==
  ASSUME Inv, UNCHANGED << environment, accepted, installed, failover >>,
         loop' \in Loop, loop'.got \in history, loop'.pc # "restore",
         running' \in Opt(Workload), RunsAssigned',
         faults' \in 0 .. MaxFaults, faults' >= faults,
         watch' \in [stopped : BOOLEAN, low : BOOLEAN, failures : Nat],
         watch'.failures <= watch.failures
  PROVE  Inv'
<1>1. watch'.failures <= RebootAfter - 1 + faults'
  <2>1. watch.failures \in Nat /\ watch.failures <= RebootAfter - 1 + faults
    BY DEF Inv, TypeOK, FailuresBounded
  <2>2. faults \in Nat /\ faults' \in Nat /\ watch'.failures \in Nat
    BY DEF Inv, TypeOK
  <2> QED BY <2>1, <2>2
<1> QED BY <1>1, Kept_Inv DEF Inv, TypeOK, environment, installed

LEMMA WatchHeat_Inv == ASSUME Inv, WatchHeat PROVE Inv'
<1>0. /\ TypeOK /\ loop \in Loop /\ faults \in 0 .. MaxFaults
      /\ watch \in [stopped : BOOLEAN, low : BOOLEAN, failures : Nat]
  BY DEF Inv, TypeOK
<1>1. /\ watch' \in [stopped : BOOLEAN, low : BOOLEAN, failures : Nat]
      /\ watch'.failures <= watch.failures
  <2>1. \/ UNCHANGED watch
        \/ \E b \in BOOLEAN : watch' = [watch EXCEPT !.stopped = b]
    BY DEF WatchHeat, Overheated, CooledDown, NoChangeOfHeat
  <2>2. /\ watch' \in [stopped : BOOLEAN, low : BOOLEAN, failures : Nat]
        /\ watch'.failures = watch.failures
    BY <1>0, <2>1
  <2> QED BY <1>0, <2>2
<1>2. loop' \in Loop /\ loop'.got \in history /\ loop'.pc # "restore"
  <2>1. CASE Return
    BY <2>1, LoopReturns
  <2>2. CASE loop' = [loop EXCEPT !.pc = "rate"]
    BY <1>0, <2>2, LoopMoves
  <2> QED BY <2>1, <2>2 DEF WatchHeat, Overheated, CooledDown, NoChangeOfHeat, Return
<1>3. /\ running' \in Opt(Workload) /\ RunsAssigned'
      /\ faults' \in 0 .. MaxFaults /\ faults' >= faults
  <2>1. CASE Overheated
    BY <1>0, <2>1, StaysAssigned, FaultCounted DEF WatchHeat, Overheated, Stop, StopFails
  <2>2. CASE CooledDown
    BY <2>2, ActiveStarts DEF WatchHeat, CooledDown
  <2>3. CASE NoChangeOfHeat
    BY <1>0, <2>3, StaysAssigned DEF WatchHeat, NoChangeOfHeat
  <2> QED BY <2>1, <2>2, <2>3 DEF WatchHeat
<1> QED BY <1>1, <1>2, <1>3, Watch_Inv DEF WatchHeat

LEMMA WatchRate_Inv == ASSUME Inv, WatchRate PROVE Inv'
<1>0. /\ TypeOK /\ loop \in Loop /\ faults \in 0 .. MaxFaults
      /\ watch \in [stopped : BOOLEAN, low : BOOLEAN, failures : Nat]
      /\ watch.failures <= RebootAfter - 1 + faults
  BY DEF Inv, TypeOK, FailuresBounded
<1>1. loop' \in Loop /\ loop'.got \in history /\ loop'.pc = "idle"
  BY LoopReturns DEF WatchRate
<1>2. CASE RateFine \/ RateLow
  <2>1. running' \in Opt(Workload) /\ RunsAssigned'
    BY <1>2, StaysAssigned DEF WatchRate, RateFine, RateLow
  <2>2. /\ watch' \in [stopped : BOOLEAN, low : BOOLEAN, failures : Nat]
        /\ watch'.failures <= watch.failures /\ UNCHANGED faults
    <3>1. watch.failures \in Nat /\ UNCHANGED faults
      BY <1>0, <1>2 DEF RateFine, RateLow
    <3>2. /\ watch' \in [stopped : BOOLEAN, low : BOOLEAN, failures : Nat]
          /\ watch'.failures \in {0, watch.failures}
      <4>1. CASE RateFine
        BY <1>0, <4>1, <3>1 DEF RateFine
      <4>2. CASE RateLow
        BY <1>0, <4>2, <3>1 DEF RateLow
      <4> QED BY <1>2, <4>1, <4>2
    <3> QED BY <3>1, <3>2
  <2> QED BY <1>0, <1>1, <2>1, <2>2, Watch_Inv DEF WatchRate
<1>3. CASE RateTooLong
  <2>1. /\ watch' \in [stopped : BOOLEAN, low : BOOLEAN, failures : Nat]
        /\ watch'.failures = watch.failures + 1
    BY <1>0, <1>3 DEF RateTooLong
  <2>2. CASE RebootDue(watch.failures + 1) /\ StopFails
    <3>1. /\ faults' \in 0 .. MaxFaults /\ faults' = faults + 1
          /\ running' \in Opt(Workload) /\ RunsAssigned'
      BY <1>0, <2>2, StaysAssigned, FaultCounted DEF StopFails, WatchRate
    <3>2. watch'.failures <= RebootAfter - 1 + faults'
      BY <1>0, <2>1, <3>1
    <3> QED BY <1>1, <2>1, <3>1, <3>2, Kept_Inv
            DEF WatchRate, Inv, TypeOK, environment, installed
  <2>3. CASE ~RebootDue(watch.failures + 1) /\ (Launch(Active) \/ LaunchFails)
    <3>1. /\ running' \in Opt(Workload) /\ RunsAssigned'
          /\ faults' \in 0 .. MaxFaults /\ faults' >= faults
      BY <2>3, ActiveStarts DEF WatchRate
    <3>2. watch'.failures <= RebootAfter - 1 + faults'
      BY <1>0, <2>1, <2>3, <3>1 DEF RebootDue
    <3> QED BY <1>1, <2>1, <3>1, <3>2, Kept_Inv
            DEF WatchRate, Inv, TypeOK, environment, installed
  <2> QED BY <1>3, <2>2, <2>3 DEF RateTooLong
<1> QED BY <1>2, <1>3 DEF WatchRate

\* A switch to one of the applied workloads.
LEMMA SwitchKeeps ==
  ASSUME Inv, UNCHANGED accepted, NEW w \in {conf.main, conf.fallback},
         NEW active \in BOOLEAN, Switch(w, active)
  PROVE  /\ running' \in Opt(Workload) /\ RunsAssigned'
         /\ faults' \in 0 .. MaxFaults /\ faults' >= faults
         /\ failover' \in [active : BOOLEAN, since : {"none", "down", "up"}]
         /\ watch' \in [stopped : BOOLEAN, low : BOOLEAN, failures : Nat]
         /\ watch'.failures <= watch.failures
<1>0. /\ TypeOK /\ faults \in 0 .. MaxFaults /\ w \in Opt(Workload)
      /\ watch \in [stopped : BOOLEAN, low : BOOLEAN, failures : Nat]
      /\ failover \in [active : BOOLEAN, since : {"none", "down", "up"}]
  BY HeldType DEF Inv, TypeOK
<1>1. CASE /\ Launch(w)
           /\ failover' = [active |-> active, since |-> IF active THEN "down" ELSE "none"]
           /\ watch' = [watch EXCEPT !.low = FALSE, !.failures = 0]
  <2>1. /\ running' \in Opt(Workload) /\ UNCHANGED faults
        /\ running' # None => w # None /\ running'.miner = w.miner
    BY <1>0, <1>1, LaunchStarts
  <2>2. RunsAssigned'
    BY <2>1 DEF RunsAssigned, accepted
  <2>3. failover' \in [active : BOOLEAN, since : {"none", "down", "up"}]
    BY <1>1
  <2>4. /\ watch' \in [stopped : BOOLEAN, low : BOOLEAN, failures : Nat]
        /\ watch'.failures = 0 /\ watch.failures \in Nat
    BY <1>0, <1>1
  <2> QED BY <1>0, <2>1, <2>2, <2>3, <2>4
<1>2. CASE LaunchFails /\ UNCHANGED reactions
  BY <1>0, <1>2, StaysAssigned, FaultCounted DEF LaunchFails, reactions
<1> QED BY <1>1, <1>2 DEF Switch

LEMMA CheckFailover_Inv == ASSUME Inv, CheckFailover PROVE Inv'
<1>0. /\ TypeOK /\ loop \in Loop /\ faults \in 0 .. MaxFaults
      /\ watch \in [stopped : BOOLEAN, low : BOOLEAN, failures : Nat]
      /\ failover \in [active : BOOLEAN, since : {"none", "down", "up"}]
      /\ watch.failures <= RebootAfter - 1 + faults
  BY DEF Inv, TypeOK, FailuresBounded
<1>1. loop' \in Loop /\ loop'.got \in history /\ loop'.pc = "idle"
  BY <1>0 DEF CheckFailover, Inv, HeldIsTold
<1>2. /\ running' \in Opt(Workload) /\ RunsAssigned'
      /\ faults' \in 0 .. MaxFaults /\ faults' >= faults
      /\ failover' \in [active : BOOLEAN, since : {"none", "down", "up"}]
      /\ watch' \in [stopped : BOOLEAN, low : BOOLEAN, failures : Nat]
      /\ watch'.failures <= watch.failures
  <2>1. CASE \E since \in {"none", "down", "up"} : Since(since)
    BY <1>0, <2>1, StaysAssigned DEF Since, CheckFailover
  <2>2. CASE Switch(conf.main, FALSE)
    BY <2>2, SwitchKeeps DEF CheckFailover
  <2>3. CASE Switch(conf.fallback, TRUE)
    BY <2>3, SwitchKeeps DEF CheckFailover
  <2> QED BY <2>1, <2>2, <2>3 DEF CheckFailover, PrimaryAvailable, PrimaryUnavailable
<1>3. watch'.failures <= RebootAfter - 1 + faults'
  BY <1>0, <1>2
<1> QED BY <1>1, <1>2, <1>3, Kept_Inv DEF CheckFailover, Inv, TypeOK, environment, installed

LEMMA StartActive_Inv == ASSUME Inv, StartActive PROVE Inv'
<1>1. loop' \in Loop /\ loop'.got \in history /\ loop'.pc = "idle"
  BY LoopReturns DEF StartActive
<1>2. /\ running' \in Opt(Workload) /\ RunsAssigned'
      /\ faults' \in 0 .. MaxFaults /\ faults' >= faults
  BY ActiveStarts DEF StartActive
<1> QED BY <1>1, <1>2, Step_Inv DEF StartActive, Inv, TypeOK, installed

\* Stopping, and what ends by itself.
LEMMA Ending_Inv == ASSUME Inv, StopCommand \/ MinerExits PROVE Inv'
<1>1. running' \in Opt(Workload) /\ RunsAssigned'
  BY StaysAssigned DEF StopCommand, MinerExits, Stop
<1>2. loop' \in Loop /\ loop'.got \in history /\ UNCHANGED loop
  BY DEF StopCommand, MinerExits, Inv, TypeOK, HeldIsTold
<1> QED BY <1>1, <1>2, Step_Inv
        DEF StopCommand, MinerExits, Stop, Inv, TypeOK, RestoresSomething, installed

\* A smart tune that starts or ends, and a world that changes, touch nothing.
LEMMA World_Inv == ASSUME Inv, TuneStarts \/ TuneEnds \/ WorldChanges PROVE Inv'
<1>1. tuning' \in BOOLEAN /\ world' \in [hot : BOOLEAN, slow : BOOLEAN]
  BY DEF TuneStarts, TuneEnds, WorldChanges, Inv, TypeOK
<1>2. running' \in Opt(Workload) /\ RunsAssigned'
  BY StaysAssigned DEF TuneStarts, TuneEnds, WorldChanges
<1>3. /\ watch' \in [stopped : BOOLEAN, low : BOOLEAN, failures : Nat]
      /\ watch'.failures <= RebootAfter - 1 + faults'
  BY DEF TuneStarts, TuneEnds, WorldChanges, reactions, Inv, TypeOK, FailuresBounded
<1>4. UNCHANGED << told, history, accepted, installed, loop, failover, faults, restarts >>
  BY DEF TuneStarts, TuneEnds, WorldChanges, reactions
<1> QED BY <1>1, <1>2, <1>3, <1>4, Kept_Inv
        DEF Inv, TypeOK, HeldIsTold, RestoresSomething, installed

\* An agent that restarts has applied nothing.
LEMMA AgentRestarts_Inv == ASSUME Inv, AgentRestarts PROVE Inv'
<1>0. TypeOK /\ HeldIsTold
  BY DEF Inv
<1>1. TypeOK'
  <2>1. conf' \in Configuration /\ loop' \in Loop
    BY BlankType, IdleType DEF AgentRestarts
  <2>2. restarts' \in 0 .. MaxRestarts
    BY <1>0 DEF AgentRestarts, TypeOK
  <2>3. watch' \in [stopped : BOOLEAN, low : BOOLEAN,
                    failures : 0 .. RebootAfter - 1 + MaxFaults]
    BY DEF AgentRestarts, NotWatched
  <2>4. failover' \in [active : BOOLEAN, since : {"none", "down", "up"}]
    BY DEF AgentRestarts, NoFailover
  <2> QED BY <1>0, <2>1, <2>2, <2>3, <2>4 DEF AgentRestarts, TypeOK, Opt
<1>2. HeldIsTold' /\ AppliedAsTold'
  BY <1>0, IdleType DEF AgentRestarts, HeldIsTold, AppliedAsTold, First
<1>3. RestoresSomething' /\ RunsAssigned' /\ FailuresBounded'
  BY <1>0 DEF AgentRestarts, RestoresSomething, RunsAssigned, FailuresBounded, Idle,
              NotWatched, TypeOK
<1> QED BY <1>1, <1>2, <1>3 DEF Inv

\* The controller only ever adds to what it has said.
LEMMA Tell_Inv == ASSUME Inv, NEW answer \in Told, Tell(answer) PROVE Inv'
<1>1. TypeOK'
  BY DEF Inv, TypeOK, Tell, accepted, installed, reactions
<1>2. HeldIsTold' /\ AppliedAsTold'
  BY DEF Inv, HeldIsTold, AppliedAsTold, Tell, accepted
<1>3. RestoresSomething' /\ RunsAssigned' /\ FailuresBounded'
  BY DEF Inv, RestoresSomething, RunsAssigned, FailuresBounded, Tell, accepted, reactions
<1> QED BY <1>1, <1>2, <1>3 DEF Inv

LEMMA Controller_Inv ==
  ASSUME Inv, ChangeLimit \/ \E c \in Config : Reconfigure(c)
  PROVE  Inv'
<1>0. told \in Told
  BY DEF Inv, TypeOK
<1>1. CASE ChangeLimit
  <2>1. [told EXCEPT !.c.limit = ~@] \in Told
    BY <1>0, <1>1 DEF ChangeLimit, Told
  <2> QED BY <1>1, <2>1, Tell_Inv DEF ChangeLimit
<1>2. ASSUME NEW c \in Config, Reconfigure(c)
      PROVE  Inv'
  <2>1. [revision |-> told.revision + 1, c |-> c] \in Told
    BY <1>0 DEF Told
  <2> QED BY <1>2, <2>1, Tell_Inv DEF Reconfigure
<1> QED BY <1>1, <1>2

-----------------------------------------------------------------------------
(* The theorems. *)

LEMMA Init_Inv == Init => Inv
<1> SUFFICES ASSUME Init PROVE Inv
  OBVIOUS
<1>1. TypeOK
  <2>1. told \in Told /\ history \subseteq Told /\ conf \in Configuration /\ loop \in Loop
    <3>1. told = First /\ history = {told} /\ conf = Blank /\ loop = Idle
      BY DEF Init, First
    <3> QED BY <3>1, BlankType, IdleType
  <2>2. files \in [Miner -> Opt(Version)] /\ args \in [Miner -> Opt(Version)]
        /\ running \in Opt(Workload)
    BY DEF Init, Opt
  <2>3. watch \in [stopped : BOOLEAN, low : BOOLEAN,
                   failures : 0 .. RebootAfter - 1 + MaxFaults]
    <3>1. 0 \in 0 .. RebootAfter - 1 + MaxFaults
      OBVIOUS
    <3> QED BY <3>1 DEF Init, NotWatched
  <2>4. /\ failover \in [active : BOOLEAN, since : {"none", "down", "up"}]
        /\ tuning \in BOOLEAN /\ world \in [hot : BOOLEAN, slow : BOOLEAN]
    BY DEF Init, NoFailover
  <2>5. faults \in 0 .. MaxFaults /\ restarts \in 0 .. MaxRestarts
    BY DEF Init
  <2> QED BY <2>1, <2>2, <2>3, <2>4, <2>5 DEF Init, TypeOK
<1>2. HeldIsTold /\ AppliedAsTold
  BY IdleType DEF Init, HeldIsTold, AppliedAsTold, First
<1>3. RestoresSomething /\ RunsAssigned /\ FailuresBounded
  BY DEF Init, RestoresSomething, RunsAssigned, FailuresBounded, Idle, NotWatched
<1> QED BY <1>1, <1>2, <1>3 DEF Inv

LEMMA Stutter_Inv == ASSUME Inv, UNCHANGED vars PROVE Inv'
BY DEF Inv, TypeOK, HeldIsTold, RestoresSomething, FailuresBounded, AppliedAsTold,
       RunsAssigned, vars

LEMMA Next_Inv == Inv /\ [Next]_vars => Inv'
<1> SUFFICES ASSUME Inv, [Next]_vars PROVE Inv'
  OBVIOUS
<1>1. CASE Goroutine
  <2>1. CASE Applying
    BY <2>1, EnsureMain_Inv, EnsureFallback_Inv, EnforceLimit_Inv, Overclock_Inv,
       StartNew_Inv, StartNewFails_Inv, RestorePrevious_Inv, StartActive_Inv DEF Applying
  <2>2. CASE Watching
    BY <2>2, WatchHeat_Inv, WatchRate_Inv DEF Watching
  <2> QED BY <1>1, <2>1, <2>2, NothingToFetch_Inv, Fetch_Inv, Heartbeat_Inv,
             CheckFailover_Inv, Ending_Inv, World_Inv DEF Goroutine
<1>2. CASE World
  BY <1>2, Ending_Inv, World_Inv, AgentRestarts_Inv, Controller_Inv DEF World
<1> QED BY <1>1, <1>2, Stutter_Inv DEF Next

\* Every reachable state satisfies the inductive invariant.
THEOREM Invariance == Spec => []Inv
BY Init_Inv, Next_Inv, PTL DEF Spec

\* Every variable keeps to its values, and the count of low hashrates to what
\* refused reboots explain.
THEOREM TypeCorrect == Spec => []TypeOK
<1>1. Inv => TypeOK
  BY DEF Inv
<1> QED BY <1>1, Invariance, PTL

\* The revision an agent reports is one the controller gave the configuration
\* it has: syncConfiguration sets both from one answer.
THEOREM ReportsWhatItWasTold == Spec => []AppliedAsTold
<1>1. Inv => AppliedAsTold
  BY DEF Inv
<1> QED BY <1>1, Invariance, PTL

\* Whatever fails and whoever starts it, the process is one of a miner of the
\* applied configuration.
THEOREM OnlyAssignedRuns == Spec => []RunsAssigned
<1>1. Inv => RunsAssigned
  BY DEF Inv
<1> QED BY <1>1, Invariance, PTL

\* After the watchdog has stopped a miner for heat, no heartbeat and no
\* failover check starts one before it has cooled down.
THEOREM HeatStaysOff == Spec => StaysCool
<1>1. ASSUME [Next]_vars, world.hot, watch.stopped, running = None, running' # None
      PROVE  loop.pc \in {"start", "restore", "launch"}
  <2>1. CASE UNCHANGED vars
    BY <1>1, <2>1 DEF vars
  <2>2. CASE World
    BY <1>1, <2>2 DEF World, TuneEnds, MinerExits, AgentRestarts, WorldChanges,
                      ChangeLimit, Reconfigure, Tell
  <2>3. CASE Applying
    BY <1>1, <2>3 DEF Applying, EnsureMain, EnsureFallback, EnforceLimit, Overclock,
                      OverclockFails, StartNew, StartNewFails, RestorePrevious, StartActive
  <2>4. CASE WatchHeat
    BY <1>1, <2>4 DEF WatchHeat, Overheated, CooledDown, NoChangeOfHeat
  <2>5. CASE WatchRate
    BY <1>1, <2>5 DEF WatchRate, RateFine, RateLow, RateTooLong, WatchesRate
  <2>6. CASE CheckFailover
    BY <1>1, <2>6 DEF CheckFailover, PrimaryAvailable, PrimaryUnavailable, Since,
                      MaySwitch, Switch, LaunchFails
  <2>7. CASE \/ NothingToFetch \/ (\E command \in BOOLEAN : Fetch(command))
             \/ Heartbeat \/ StopCommand \/ TuneStarts
    BY <1>1, <2>7 DEF NothingToFetch, Fetch, Heartbeat, StopCommand, Stop, TuneStarts
  <2> QED BY <1>1, <2>1, <2>2, <2>3, <2>4, <2>5, <2>6, <2>7 DEF Next, Goroutine, Watching
<1>2. [Next]_vars => [world.hot /\ watch.stopped /\ running = None /\ running' # None =>
                        loop.pc \in {"start", "restore", "launch"}]_vars
  BY <1>1
<1> QED BY <1>2, PTL DEF Spec, StaysCool

-----------------------------------------------------------------------------
(* Exactness. A sync that fails leaves the new arguments and some new       *)
(* binaries behind, so what is installed is as told only while no revision  *)
(* is outstanding, or while the new one is being started.                   *)

Named(c) == {c.main, c.fallback} \ {None}

\* The configuration calls for one binary of a miner.
OneBinary(c) == \A w, u \in Named(c) : w.miner = u.miner => w.binary = u.binary

\* A change of the ceiling alone keeps the revision.
SameButLimit(c, d) == c = [d EXCEPT !.limit = c.limit]

\* Revisions rise, and each stands for one configuration, ceilings apart.
Latest ==
  \A h \in history : /\ OneBinary(h.c)
                     /\ h.revision <= told.revision
                     /\ h.revision = told.revision => SameButLimit(h.c, told.c)

AtWork == {"main", "fallback", "limit", "overclock", "start", "restore"}

\* What is being applied is not older than what is applied.
Ahead == /\ loop.pc \in AtWork => applied <= loop.got.revision
         /\ loop.pc = "restore" => loop.main # Kept

\* Starting w gives a workload that c names. One miner for both takes the
\* arguments that were set last.
Ready(w, c) == /\ \E u \in Named(c) : u.miner = w.miner /\ args[w.miner] = u.args
               /\ w.binary # None => files[w.miner] = w.binary

\* What is being applied is installed, as far as it has come.
Prepared ==
  /\ (loop.pc = "fallback" /\ loop.got.c.main # None) => Ready(loop.got.c.main, loop.got.c)
  /\ loop.pc \in {"limit", "overclock", "start"} =>
       \A w \in Named(loop.got.c) : Ready(w, loop.got.c)

\* While no revision is outstanding, what is told is installed and runs, and
\* a sync for the ceiling replaces nothing.
Current ==
  told.revision = applied =>
    /\ \A w \in Named(conf) : Ready(w, conf)
    /\ running \in Named(conf) \cup {None}
    /\ loop.main = Kept /\ loop.fallback = Kept

Exact == Latest /\ Ahead /\ Prepared /\ Current

\* What is known and what is being fetched is of configurations.
LEMMA NamedType ==
  ASSUME NEW c \in Configuration
  PROVE  Named(c) \subseteq Workload
BY DEF Named, Configuration, Opt

\* What is applied belongs to a revision that is not above the latest.
LEMMA AppliedKnown ==
  ASSUME Inv, Latest
  PROVE  /\ applied <= told.revision /\ OneBinary(conf)
         /\ told.revision = applied => SameButLimit(conf, told.c)
<1> DEFINE h == [revision |-> applied, c |-> conf]
<1>1. h \in history
  BY DEF Inv, AppliedAsTold
<1>2. OneBinary(h.c) /\ h.revision <= told.revision
      /\ (h.revision = told.revision => SameButLimit(h.c, told.c))
  BY <1>1 DEF Latest
<1> QED BY <1>2

\* What is being applied under the applied revision differs in the ceiling only.
LEMMA SameAnswer ==
  ASSUME Inv, Latest, Ahead, loop.pc \in AtWork, told.revision = applied
  PROVE  loop.got.c.main = conf.main /\ loop.got.c.fallback = conf.fallback
<1>1. /\ loop.got \in history /\ applied \in Nat /\ told.revision \in Nat
      /\ loop.got.revision \in Nat /\ loop.got.c \in Configuration
      /\ conf \in Configuration /\ told.c \in Configuration
  BY HeldType DEF Inv, TypeOK, HeldIsTold, Told
<1>2. loop.got.revision <= told.revision
  BY <1>1 DEF Latest
<1>3. applied <= loop.got.revision
  BY DEF Ahead
<1>4. loop.got.revision = told.revision
  BY <1>1, <1>2, <1>3
<1>5. SameButLimit(loop.got.c, told.c)
  BY <1>1, <1>4 DEF Latest
<1>6. SameButLimit(conf, told.c)
  BY AppliedKnown
<1>7. loop.got.c.main = told.c.main /\ loop.got.c.fallback = told.c.fallback
  BY <1>1, <1>5 DEF SameButLimit, Configuration
<1>8. conf.main = told.c.main /\ conf.fallback = told.c.fallback
  BY <1>1, <1>6 DEF SameButLimit, Configuration
<1> QED BY <1>7, <1>8

\* A workload that is installed as told starts as told.
LEMMA LaunchExact ==
  ASSUME TypeOK, NEW c \in Configuration, OneBinary(c), NEW w \in Named(c) \cup {None},
         w # None => Ready(w, c), Launch(w)
  PROVE  running' \in Named(c) \cup {None}
<1>1. CASE w = None
  BY <1>1 DEF Launch, Launched
<1>2. CASE w # None
  <2>1. w \in Named(c) /\ w \in Workload
    BY <1>2, NamedType
  <2>2. PICK u \in Named(c) : u.miner = w.miner /\ args[w.miner] = u.args
    BY <1>2 DEF Ready
  <2>3. u \in Workload /\ u.binary = w.binary
    BY <2>1, <2>2, NamedType DEF OneBinary
  <2>4. running' = [miner |-> w.miner, args |-> args[w.miner],
                    binary |-> IF w.binary = None THEN None ELSE files[w.miner]]
    BY <1>2 DEF Launch, Launched
  <2>5. (IF w.binary = None THEN None ELSE files[w.miner]) = w.binary
    BY <1>2 DEF Ready
  <2>6. running' = [miner |-> u.miner, args |-> u.args, binary |-> u.binary]
    BY <2>2, <2>3, <2>4, <2>5
  <2>7. u = [miner |-> u.miner, args |-> u.args, binary |-> u.binary]
    BY <2>3 DEF Workload
  <2> QED BY <2>6, <2>7
<1> QED BY <1>1, <1>2

\* Installing a workload of a configuration makes it ready, leaves the other
\* one ready, and replaces nothing where it is ready.
LEMMA EnsuredExact ==
  ASSUME TypeOK, NEW c \in Configuration, OneBinary(c), NEW w \in {c.main, c.fallback},
         NEW update, Ensured(w, update)
  PROVE  /\ w # None => Ready(w, c)'
         /\ \A v \in Named(c) : Ready(v, c) => Ready(v, c)'
         /\ (w # None => Ready(w, c)) => update = Kept
<1>1. CASE w = None
  <2>1. update = Kept /\ UNCHANGED << files, args >>
    BY <1>1 DEF Ensured, ArgumentsOf
  <2> QED BY <1>1, <2>1 DEF Ready
<1>2. CASE w # None
  <2>1. w \in Named(c) /\ w \in Workload
    BY <1>2, NamedType DEF Named
  <2>2. w.miner \in Miner /\ w.binary \in Opt(Version) /\ w.args \in Version
    BY <2>1 DEF Workload
  <2>3. files \in [Miner -> Opt(Version)] /\ args \in [Miner -> Opt(Version)]
    BY DEF TypeOK
  <2>4. args' = [args EXCEPT ![w.miner] = w.args]
    BY <1>2 DEF Ensured, ArgumentsOf
  <2>5. args'[w.miner] = w.args
    BY <2>2, <2>3, <2>4
  <2>6. w.binary # None => files'[w.miner] = w.binary
    BY <1>2, <2>2, <2>3 DEF Ensured
  <2>7. Ready(w, c)'
    BY <2>1, <2>5, <2>6 DEF Ready
  <2>8. ASSUME NEW v \in Named(c), Ready(v, c)
        PROVE  Ready(v, c)'
    <3>1. v \in Workload /\ v.miner \in Miner
      BY NamedType DEF Workload
    <3>2. CASE v.miner = w.miner
      <4>1. v.binary = w.binary
        BY <2>1, <3>2 DEF OneBinary
      <4> QED BY <2>7, <3>2, <4>1 DEF Ready
    <3>3. CASE v.miner # w.miner
      <4>1. args'[v.miner] = args[v.miner]
        BY <2>3, <2>4, <3>1, <3>3
      <4>2. files'[v.miner] = files[v.miner]
        BY <2>2, <2>3, <3>1, <3>3 DEF Ensured
      <4> QED BY <2>8, <4>1, <4>2 DEF Ready
    <3> QED BY <3>2, <3>3
  <2>9. Ready(w, c) => update = Kept
    BY <1>2 DEF Ready, Ensured
  <2> QED BY <2>7, <2>8, <2>9, <1>2
<1> QED BY <1>1, <1>2

\* Nothing told, nothing installed, and what runs stays, stops or is named:
\* what most steps do, whose goroutine is not applying anything then.
LEMMA OutsideSync ==
  ASSUME Inv, Exact, UNCHANGED << told, history, accepted, installed >>,
         loop'.pc \notin AtWork,
         told.revision = applied =>
           /\ running' \in Named(conf) \cup {None}
           /\ loop'.main = Kept /\ loop'.fallback = Kept
  PROVE  Exact'
<1>1. Latest' /\ Ahead' /\ Prepared'
  BY DEF Exact, Latest, Ahead, Prepared, AtWork
<1>2. Current'
  BY DEF Exact, Current, Ready, accepted, installed
<1> QED BY <1>1, <1>2 DEF Exact

\* While syncing, a step that goes on and installs nothing.
LEMMA WithinSync ==
  ASSUME Inv, Exact, UNCHANGED << told, history, accepted, installed, running >>,
         NEW to \in {"overclock", "start"}, loop.pc \in {"limit", "overclock"},
         loop' = [loop EXCEPT !.pc = to]
  PROVE  Exact'
<1>1. /\ loop'.pc = to /\ loop'.got = loop.got
      /\ loop'.main = loop.main /\ loop'.fallback = loop.fallback
  BY DEF Inv, TypeOK, Loop
<1>2. Latest'
  BY DEF Exact, Latest
<1>3. Ahead'
  BY <1>1 DEF Exact, Ahead, AtWork, accepted
<1>4. Prepared'
  BY <1>1 DEF Exact, Prepared, Ready, installed
<1>5. Current'
  BY <1>1 DEF Exact, Current, Ready, accepted, installed
<1> QED BY <1>2, <1>3, <1>4, <1>5 DEF Exact

LEMMA IdleHolds == Idle.pc = "idle" /\ Idle.main = Kept /\ Idle.fallback = Kept
BY DEF Idle

\* A sync that ends without having been applied.
LEMMA SyncEnds ==
  ASSUME Inv, Exact, UNCHANGED << told, history, accepted >>, Return,
         running' \in {None, running},
         told.revision = applied => UNCHANGED installed
  PROVE  Exact'
<1>1. loop' = Idle
  BY DEF Return
<1>2. Latest' /\ Ahead' /\ Prepared'
  BY <1>1, IdleHolds DEF Exact, Latest, Ahead, Prepared, AtWork
<1>3. Current'
  <2>1. SUFFICES ASSUME told.revision = applied
                 PROVE  Current'
    BY DEF Current, accepted
  <2>2. UNCHANGED << files, args >>
    BY <2>1 DEF installed
  <2> QED BY <1>1, <2>1, <2>2, IdleHolds DEF Exact, Current, Ready, accepted
<1> QED BY <1>2, <1>3 DEF Exact

\* Nothing is taken back where nothing was replaced.
LEMMA NothingTakenBack ==
  ASSUME loop.main = Kept, loop.fallback = Kept
  PROVE  BothRolledBack = files
BY DEF BothRolledBack, RolledBack

LEMMA Fetch_Exact == ASSUME Inv, Exact, NEW command, Fetch(command) PROVE Exact'
<1>1. /\ loop'.pc = "main" /\ loop'.got = told
      /\ loop'.main = Kept /\ loop'.fallback = Kept
  BY DEF Fetch, Idle
<1>2. applied <= told.revision
  BY AppliedKnown DEF Exact
<1>3. Latest' /\ Ahead' /\ Prepared'
  BY <1>1, <1>2 DEF Exact, Latest, Ahead, Prepared, AtWork, Fetch, environment, accepted
<1>4. Current'
  BY <1>1 DEF Exact, Current, Ready, Fetch, environment, accepted, installed
<1> QED BY <1>3, <1>4 DEF Exact

LEMMA EnsureMain_Exact == ASSUME Inv, Exact, EnsureMain PROVE Exact'
<1>0. /\ TypeOK /\ loop \in Loop /\ loop.got \in history /\ loop.pc \in AtWork
      /\ loop.got.c \in Configuration /\ conf \in Configuration
      /\ OneBinary(loop.got.c) /\ OneBinary(conf)
  BY HeldType, AppliedKnown DEF Inv, TypeOK, HeldIsTold, Exact, Latest, EnsureMain, AtWork
<1>1. UNCHANGED << told, history, accepted, running >>
  BY DEF EnsureMain, environment
<1>2. ASSUME NEW update \in Update, Ensured(loop.got.c.main, update),
             loop' = [loop EXCEPT !.pc = "fallback", !.main = update]
      PROVE  Exact'
  <2>1. /\ loop'.pc = "fallback" /\ loop'.got = loop.got
        /\ loop'.main = update /\ loop'.fallback = loop.fallback
    BY <1>0, <1>2 DEF Loop
  <2>2. Latest'
    BY <1>1 DEF Exact, Latest
  <2>3. Ahead'
    BY <1>0, <1>1, <2>1 DEF Exact, Ahead, AtWork, accepted
  <2>4. loop.got.c.main # None => Ready(loop.got.c.main, loop.got.c)'
    BY <1>0, <1>2, <2>1, EnsuredExact
  <2>5. Prepared'
    BY <2>1, <2>4 DEF Prepared, Ready
  <2>6. ASSUME told.revision = applied
        PROVE  /\ \A w \in Named(conf) : Ready(w, conf)'
               /\ update = Kept
    <3>1. loop.got.c.main = conf.main
      BY <1>0, <2>6, SameAnswer DEF Exact
    <3>2. \A w \in Named(conf) : Ready(w, conf)
      BY <2>6 DEF Exact, Current
    <3>3. conf.main # None => conf.main \in Named(conf)
      BY DEF Named
    <3>4. Ensured(conf.main, update)
      BY <1>2, <3>1
    <3>5. /\ \A v \in Named(conf) : Ready(v, conf) => Ready(v, conf)'
          /\ (conf.main # None => Ready(conf.main, conf)) => update = Kept
      BY <1>0, <1>1, <3>4, EnsuredExact, SMTT(30) DEF accepted
    <3>6. conf.main # None => Ready(conf.main, conf)
      BY <3>2, <3>3
    <3> QED BY <3>2, <3>5, <3>6
  <2>7. Current'
    BY <1>1, <2>1, <2>6 DEF Exact, Current, Ready, accepted
  <2> QED BY <2>2, <2>3, <2>5, <2>7 DEF Exact
<1>3. CASE Fault /\ Return /\ UNCHANGED installed
  BY <1>1, <1>3, SyncEnds
<1> QED BY <1>2, <1>3 DEF EnsureMain

LEMMA EnsureFallback_Exact == ASSUME Inv, Exact, EnsureFallback PROVE Exact'
<1>0. /\ TypeOK /\ loop \in Loop /\ loop.got \in history /\ loop.pc \in AtWork
      /\ loop.got.c \in Configuration /\ conf \in Configuration
      /\ OneBinary(loop.got.c) /\ OneBinary(conf)
  BY HeldType, AppliedKnown DEF Inv, TypeOK, HeldIsTold, Exact, Latest, EnsureFallback, AtWork
<1>1. UNCHANGED << told, history, accepted, running >>
  BY DEF EnsureFallback, environment
<1>2. ASSUME NEW update \in Update, Ensured(loop.got.c.fallback, update),
             loop' = [loop EXCEPT !.pc = "limit", !.fallback = update]
      PROVE  Exact'
  <2> DEFINE c == loop.got.c
  <2>1. /\ loop'.pc = "limit" /\ loop'.got = loop.got
        /\ loop'.main = loop.main /\ loop'.fallback = update
    BY <1>0, <1>2 DEF Loop
  <2>2. Latest'
    BY <1>1 DEF Exact, Latest
  <2>3. Ahead'
    BY <1>0, <1>1, <2>1 DEF Exact, Ahead, AtWork, accepted
  <2>4. /\ c.fallback # None => Ready(c.fallback, c)'
        /\ \A v \in Named(c) : Ready(v, c) => Ready(v, c)'
    <3> HIDE DEF c
    <3>1. c \in Configuration /\ OneBinary(c) /\ Ensured(c.fallback, update)
      BY <1>0, <1>2 DEF c
    <3>2. UNCHANGED c
      BY <2>1 DEF c
    <3> QED BY <1>0, <3>1, <3>2, EnsuredExact
  <2>5. \A w \in Named(c) : Ready(w, c)'
    <3>1. c.main # None => Ready(c.main, c)
      BY DEF Exact, Prepared, EnsureFallback
    <3>2. c.main # None => c.main \in Named(c)
      BY DEF Named
    <3>3. c.main # None => Ready(c.main, c)'
      BY <2>1, <2>4, <3>1, <3>2
    <3>4. c.fallback # None => Ready(c.fallback, c)'
      BY <2>4
    <3>5. \A w \in Named(c) : w \in {c.main, c.fallback} /\ w # None
      BY DEF Named
    <3> QED BY <2>1, <3>3, <3>4, <3>5
  <2>6. Prepared'
    BY <2>1, <2>5 DEF Prepared, Ready
  <2>7. ASSUME told.revision = applied
        PROVE  /\ \A w \in Named(conf) : Ready(w, conf)'
               /\ update = Kept
    <3>1. loop.got.c.fallback = conf.fallback
      BY <1>0, <2>7, SameAnswer DEF Exact
    <3>2. \A w \in Named(conf) : Ready(w, conf)
      BY <2>7 DEF Exact, Current
    <3>3. conf.fallback # None => conf.fallback \in Named(conf)
      BY DEF Named
    <3>4. Ensured(conf.fallback, update)
      BY <1>2, <3>1
    <3>5. UNCHANGED conf /\ conf.fallback \in {conf.main, conf.fallback}
      BY <1>1 DEF accepted
    <3>6. \A v \in Named(conf) : Ready(v, conf) => Ready(v, conf)'
      BY <1>0, <3>5, <3>4, EnsuredExact
    <3>7. (conf.fallback # None => Ready(conf.fallback, conf)) => update = Kept
      BY <1>0, <3>5, <3>4, EnsuredExact
    <3>8. conf.fallback # None => Ready(conf.fallback, conf)
      BY <3>2, <3>3
    <3> QED BY <3>2, <3>6, <3>7, <3>8
  <2>8. Current'
    BY <1>1, <2>1, <2>7 DEF Exact, Current, Ready, accepted
  <2> QED BY <2>2, <2>3, <2>6, <2>8 DEF Exact
<1>3. CASE /\ Fault /\ Return /\ UNCHANGED args
           /\ files' = RolledBack(files, loop.got.c.main, loop.main)
  <2>1. told.revision = applied => UNCHANGED installed
    BY <1>3 DEF Exact, Current, RolledBack, installed
  <2> QED BY <1>1, <1>3, <2>1, SyncEnds
<1> QED BY <1>2, <1>3 DEF EnsureFallback

LEMMA EnforceLimit_Exact == ASSUME Inv, Exact, EnforceLimit PROVE Exact'
<1>1. CASE loop' = [loop EXCEPT !.pc = "overclock"] /\ UNCHANGED << running, faults >>
  BY <1>1, WithinSync DEF EnforceLimit, environment
<1>2. CASE loop.got.c.limit /\ Fault /\ Return /\ running' \in {None, running}
  BY <1>2, SyncEnds DEF EnforceLimit, environment
<1> QED BY <1>1, <1>2 DEF EnforceLimit

LEMMA Overclock_Exact == ASSUME Inv, Exact, Overclock PROVE Exact'
<1>1. CASE loop' = [loop EXCEPT !.pc = "start"] /\ UNCHANGED << files, running, faults >>
  BY <1>1, WithinSync DEF Overclock, environment, installed
<1>2. CASE OverclockFails
  <2>1. told.revision = applied => UNCHANGED installed
    BY <1>2, NothingTakenBack DEF Overclock, OverclockFails, Exact, Current, installed
  <2>2. running' \in {None, running} /\ Return
    BY <1>2 DEF OverclockFails
  <2> QED BY <2>1, <2>2, SyncEnds DEF Overclock, environment
<1> QED BY <1>1, <1>2 DEF Overclock

\* What was prepared starts, and is current if nothing was told since.
LEMMA StartNew_Exact == ASSUME Inv, Exact, StartNew PROVE Exact'
<1>0. /\ TypeOK /\ loop.got \in history /\ loop.got.c \in Configuration
      /\ OneBinary(loop.got.c) /\ loop.got.c.main \in Named(loop.got.c) \cup {None}
  BY HeldType DEF Inv, HeldIsTold, Exact, Latest, Named
<1>1. /\ loop'.pc \in {"launch", "idle"} /\ loop'.main = Kept /\ loop'.fallback = Kept
      /\ UNCHANGED << told, history, installed >>
      /\ conf' = loop.got.c
  BY DEF StartNew, Idle, environment
<1>2. \A w \in Named(loop.got.c) : Ready(w, loop.got.c)
  BY DEF Exact, Prepared, StartNew
<1>3. running' \in Named(loop.got.c) \cup {None}
  <2>1. loop.got.c.main # None => Ready(loop.got.c.main, loop.got.c)
    BY <1>2 DEF Named
  <2> QED BY <1>0, <2>1, LaunchExact DEF StartNew
<1>4. Latest' /\ Ahead' /\ Prepared'
  BY <1>1 DEF Exact, Latest, Ahead, Prepared, AtWork
<1>5. Current'
  BY <1>1, <1>2, <1>3 DEF Current, Ready, installed
<1> QED BY <1>4, <1>5 DEF Exact

LEMMA StartNewFails_Exact == ASSUME Inv, Exact, StartNewFails PROVE Exact'
<1>0. running' \in {None, running} /\ UNCHANGED << told, history, accepted, args >>
  BY DEF StartNewFails, LaunchFails, environment
<1>1. told.revision = applied => UNCHANGED installed
  BY NothingTakenBack DEF StartNewFails, Exact, Current, installed
<1>2. CASE Return
  BY <1>0, <1>1, <1>2, SyncEnds
<1>3. CASE loop.main # Kept /\ loop' = [loop EXCEPT !.pc = "restore"]
  <2>1. /\ loop'.pc = "restore" /\ loop'.got = loop.got
        /\ loop'.main = loop.main /\ loop'.fallback = loop.fallback
    BY <1>3 DEF Inv, TypeOK, Loop
  <2>2. Latest' /\ Ahead' /\ Prepared'
    BY <1>0, <1>3, <2>1 DEF Exact, Latest, Ahead, Prepared, AtWork, StartNewFails, accepted
  <2>3. Current'
    BY <1>0, <1>3 DEF Exact, Current, accepted
  <2> QED BY <2>2, <2>3 DEF Exact
<1> QED BY <1>2, <1>3 DEF StartNewFails

\* A previous workload is only started again when the new one is outstanding.
LEMMA RestorePrevious_Exact == ASSUME Inv, Exact, RestorePrevious PROVE Exact'
<1>1. told.revision # applied
  BY DEF Exact, Ahead, Current, RestorePrevious
<1>2. UNCHANGED << told, history, accepted >> /\ loop' = Idle
  BY DEF RestorePrevious, Return, environment
<1>3. Latest' /\ Ahead' /\ Prepared' /\ Current'
  BY <1>1, <1>2, IdleHolds DEF Exact, Latest, Ahead, Prepared, Current, AtWork, accepted
<1> QED BY <1>3 DEF Exact

\* The workload that an operator, the watchdog or the failover starts.
LEMMA AppliedStarts ==
  ASSUME Inv, Exact, told.revision = applied, NEW w \in {conf.main, conf.fallback},
         Launch(w) \/ LaunchFails
  PROVE  running' \in Named(conf) \cup {None}
<1>1. TypeOK /\ conf \in Configuration /\ OneBinary(conf)
  BY AppliedKnown DEF Inv, TypeOK, Exact
<1>2. /\ \A v \in Named(conf) : Ready(v, conf)
      /\ running \in Named(conf) \cup {None}
  BY DEF Exact, Current
<1>3. CASE Launch(w)
  <2>1. w \in Named(conf) \cup {None} /\ (w # None => Ready(w, conf))
    BY <1>2 DEF Named
  <2> QED BY <1>1, <1>3, <2>1, LaunchExact
<1>4. CASE LaunchFails
  BY <1>2, <1>4 DEF LaunchFails
<1> QED BY <1>3, <1>4

LEMMA StaysExact ==
  ASSUME Exact, running' \in {None, running}, told.revision = applied
  PROVE  running' \in Named(conf) \cup {None}
BY DEF Exact, Current

LEMMA Outside_Exact ==
  ASSUME Inv, Exact,
         \/ NothingToFetch \/ Heartbeat \/ WatchHeat \/ WatchRate \/ CheckFailover
         \/ StartActive \/ StopCommand \/ MinerExits
         \/ TuneStarts \/ TuneEnds \/ WorldChanges
  PROVE  Exact'
<1>0. told.revision = applied => loop.main = Kept /\ loop.fallback = Kept
  BY DEF Exact, Current
<1>1. CASE \/ NothingToFetch \/ Heartbeat \/ StopCommand
  <2>1. /\ loop'.pc \notin AtWork /\ running' \in {None, running}
        /\ UNCHANGED << told, history, accepted, installed >>
        /\ told.revision = applied => loop'.main = Kept /\ loop'.fallback = Kept
    BY <1>0, <1>1 DEF NothingToFetch, Heartbeat, StopCommand, Stop, AtWork, Idle, environment
  <2> QED BY <2>1, OutsideSync, StaysExact
<1>2. CASE \/ MinerExits \/ TuneStarts \/ TuneEnds \/ WorldChanges
  <2>1. /\ UNCHANGED << told, history, conf, applied, files, args, loop >>
        /\ running' \in {None, running}
    BY <1>2 DEF MinerExits, TuneStarts, TuneEnds, WorldChanges, environment, accepted, installed
  <2>2. Latest' /\ Ahead' /\ Prepared'
    BY <2>1 DEF Exact, Latest, Ahead, Prepared, Ready
  <2>3. Current'
    BY <2>1 DEF Exact, Current, Ready
  <2> QED BY <2>2, <2>3 DEF Exact
<1>3. CASE WatchHeat
  <2>1. /\ UNCHANGED << told, history, accepted, installed >>
        /\ loop' = Idle \/ loop' = [loop EXCEPT !.pc = "rate"]
    BY <1>3 DEF WatchHeat, Overheated, CooledDown, NoChangeOfHeat, Return, environment
  <2>2. /\ loop'.pc \notin AtWork
        /\ told.revision = applied => loop'.main = Kept /\ loop'.fallback = Kept
    BY <1>0, <2>1, IdleHolds DEF AtWork, Inv, TypeOK, Loop
  <2>3. \/ Launch(Active) \/ LaunchFails \/ running' \in {None, running}
    BY <1>3 DEF WatchHeat, Overheated, CooledDown, NoChangeOfHeat, Stop, StopFails
  <2>4. told.revision = applied => running' \in Named(conf) \cup {None}
    BY <2>3, AppliedStarts, StaysExact DEF Active
  <2> QED BY <2>1, <2>2, <2>4, OutsideSync
<1>4. CASE WatchRate
  <2>1. /\ UNCHANGED << told, history, accepted, installed >> /\ loop' = Idle
    BY <1>4 DEF WatchRate, Return, environment
  <2>2. \/ Launch(Active) \/ LaunchFails \/ running' \in {None, running}
    BY <1>4 DEF WatchRate, RateFine, RateLow, RateTooLong, StopFails
  <2>3. told.revision = applied => running' \in Named(conf) \cup {None}
    BY <2>2, AppliedStarts, StaysExact DEF Active
  <2> QED BY <2>1, <2>3, IdleHolds, OutsideSync DEF AtWork
<1>5. CASE CheckFailover
  <2>1. /\ UNCHANGED << told, history, accepted, installed, loop >> /\ loop.pc = "idle"
    BY <1>5 DEF CheckFailover, environment
  <2>2. \/ Launch(conf.main) \/ Launch(conf.fallback) \/ LaunchFails
        \/ running' \in {None, running}
    BY <1>5 DEF CheckFailover, PrimaryAvailable, PrimaryUnavailable, Switch, Since
  <2>3. told.revision = applied => running' \in Named(conf) \cup {None}
    BY <2>2, AppliedStarts, StaysExact
  <2> QED BY <1>0, <2>1, <2>3, OutsideSync DEF AtWork
<1>6. CASE StartActive
  <2>1. /\ UNCHANGED << told, history, accepted, installed >> /\ loop' = Idle
    BY <1>6 DEF StartActive, Return, environment
  <2>2. told.revision = applied => running' \in Named(conf) \cup {None}
    BY <1>6, AppliedStarts DEF StartActive, Active
  <2> QED BY <2>1, <2>2, IdleHolds, OutsideSync DEF AtWork
<1> QED BY <1>1, <1>2, <1>3, <1>4, <1>5, <1>6

\* A configuration that names nothing.
LEMMA BlankNames == Named(Blank) = {} /\ OneBinary(Blank)
<1>1. Blank.main = None /\ Blank.fallback = None
  BY DEF Blank
<1> QED BY <1>1 DEF Named, OneBinary

LEMMA AgentRestarts_Exact == ASSUME Inv, Exact, AgentRestarts PROVE Exact'
<1>1. /\ UNCHANGED << told, history >> /\ loop' = Idle /\ conf' = Blank /\ running' = None
  BY DEF AgentRestarts
<1>2. Latest' /\ Ahead' /\ Prepared'
  BY <1>1, IdleHolds DEF Exact, Latest, Ahead, Prepared, AtWork
<1>3. Current'
  BY <1>1, IdleHolds, BlankNames DEF Current
<1> QED BY <1>2, <1>3 DEF Exact

LEMMA ConfigOneBinary ==
  ASSUME NEW c \in Config PROVE OneBinary(c)
BY BinaryAssumption DEF OneBinary, Named

LEMMA Reconfigure_Exact ==
  ASSUME Inv, Exact, NEW c \in Config, Reconfigure(c) PROVE Exact'
<1>0. /\ told' = [revision |-> told.revision + 1, c |-> c]
      /\ history' = history \cup {told'}
      /\ UNCHANGED << conf, applied, files, args, running, loop >>
  BY DEF Reconfigure, Tell, accepted, installed
<1>t. /\ told.revision \in Nat /\ applied \in Nat /\ c \in Configuration
      /\ \A h \in history : h.revision \in Nat
  BY ConfigAssumption DEF Inv, TypeOK, Told
<1>1. told'.revision = told.revision + 1 /\ told'.c = c
  BY <1>0
<1>2. Latest'
  <2>1. ASSUME NEW h \in history'
        PROVE  /\ OneBinary(h.c) /\ h.revision <= told'.revision
               /\ h.revision = told'.revision => SameButLimit(h.c, told'.c)
    <3>1. CASE h \in history
      <4>1. OneBinary(h.c) /\ h.revision <= told.revision /\ h.revision \in Nat
        BY <1>0, <1>t, <3>1 DEF Exact, Latest
      <4> QED BY <1>0, <1>t, <1>1, <4>1
    <3>2. CASE h = told'
      <4>1. SameButLimit(c, c)
        BY <1>t DEF SameButLimit, Configuration
      <4> QED BY <1>0, <1>t, <1>1, <3>2, <4>1, ConfigOneBinary
    <3> QED BY <1>0, <1>t, <3>1, <3>2
  <2> QED BY <2>1 DEF Latest
<1>3. Ahead' /\ Prepared'
  BY <1>0 DEF Exact, Ahead, Prepared, Ready
<1>4. Current'
  <2>1. applied <= told.revision
    BY AppliedKnown DEF Exact
  <2>2. told'.revision # applied'
    BY <1>0, <1>t, <1>1, <2>1
  <2> QED BY <2>2 DEF Current
<1> QED BY <1>2, <1>3, <1>4 DEF Exact

LEMMA ChangeLimit_Exact == ASSUME Inv, Exact, ChangeLimit PROVE Exact'
<1>0. /\ told' = [told EXCEPT !.c.limit = ~@] /\ told \in Told
      /\ history' = history \cup {told'}
      /\ UNCHANGED << conf, applied, files, args, running, loop >>
  BY DEF ChangeLimit, Tell, Inv, TypeOK, accepted, installed
<1>1. /\ told'.revision = told.revision /\ told'.c \in Config
      /\ told'.c = [told.c EXCEPT !.limit = ~@] /\ told.revision \in Nat
      /\ told.c \in Configuration /\ told'.c \in Configuration
  <2>1. told.c \in Configuration /\ told.revision \in Nat
    BY <1>0 DEF Told
  <2>2. told'.revision = told.revision /\ told'.c = [told.c EXCEPT !.limit = ~@]
    BY <1>0, <2>1 DEF Told
  <2>3. told'.c \in Config
    BY <2>2 DEF ChangeLimit
  <2> QED BY <2>1, <2>2, <2>3, ConfigAssumption
<1>2. Latest'
  <2>1. ASSUME NEW h \in history'
        PROVE  /\ OneBinary(h.c) /\ h.revision <= told'.revision
               /\ h.revision = told'.revision => SameButLimit(h.c, told'.c)
    <3>1. CASE h \in history
      <4>1. /\ OneBinary(h.c) /\ h.revision <= told.revision
            /\ h.revision = told.revision => SameButLimit(h.c, told.c)
        BY <3>1 DEF Exact, Latest
      <4>2. h.c \in Configuration
        BY <3>1 DEF Inv, TypeOK, Told
      <4>3. SameButLimit(h.c, told.c) => SameButLimit(h.c, told'.c)
        BY <1>1, <4>2 DEF SameButLimit, Configuration
      <4> QED BY <1>1, <4>1, <4>3
    <3>2. CASE h = told'
      <4>1. SameButLimit(told'.c, told'.c)
        BY <1>1 DEF SameButLimit, Configuration
      <4> QED BY <1>1, <3>2, <4>1, ConfigOneBinary
    <3> QED BY <1>0, <3>1, <3>2
  <2> QED BY <2>1 DEF Latest
<1>3. Ahead' /\ Prepared' /\ Current'
  BY <1>0, <1>1 DEF Exact, Ahead, Prepared, Current, Ready
<1> QED BY <1>2, <1>3 DEF Exact

LEMMA Init_Exact == Init => Exact
<1> SUFFICES ASSUME Init PROVE Exact
  OBVIOUS
<1>1. /\ told = First /\ history = {told} /\ conf = Blank /\ loop = Idle
      /\ running = None /\ First.revision = 0 /\ First.c = Blank
  BY DEF Init, First
<1>2. Latest
  <2>1. SameButLimit(Blank, Blank)
    BY BlankType DEF SameButLimit, Configuration
  <2> QED BY <1>1, <2>1, BlankNames DEF Latest
<1>3. Ahead /\ Prepared /\ Current
  BY <1>1, IdleHolds, BlankNames DEF Ahead, Prepared, Current, AtWork
<1> QED BY <1>2, <1>3 DEF Exact

LEMMA Next_Exact == Inv /\ Exact /\ [Next]_vars => Exact'
<1> SUFFICES ASSUME Inv, Exact, [Next]_vars PROVE Exact'
  OBVIOUS
<1>1. CASE UNCHANGED vars
  BY <1>1 DEF Exact, Latest, Ahead, Prepared, Current, Ready, vars
<1>2. CASE Applying
  BY <1>2, EnsureMain_Exact, EnsureFallback_Exact, EnforceLimit_Exact, Overclock_Exact,
     StartNew_Exact, StartNewFails_Exact, RestorePrevious_Exact, Outside_Exact DEF Applying
<1>3. CASE Goroutine
  BY <1>2, <1>3, Fetch_Exact, Outside_Exact DEF Goroutine, Watching
<1>4. CASE World
  BY <1>4, Outside_Exact, AgentRestarts_Exact, ChangeLimit_Exact, Reconfigure_Exact DEF World
<1> QED BY <1>1, <1>3, <1>4 DEF Next

\* The invariant that exactness rests on: what is installed and what runs is
\* as told while no revision is outstanding, through failing syncs, ceilings
\* that change under the same revision, switches of the failover and restarts
\* (syncConfiguration and its rollbacks).
THEOREM InstalledAsTold == Spec => []Exact
BY Init_Exact, Next_Exact, Invariance, PTL DEF Spec

\* An agent that is up to date runs the very binary and arguments it was told
\* (News, and the order of syncConfiguration).
THEOREM CurrentRunsExactly == Spec => []ExactWhenCurrent
<1>1. Inv /\ Exact => ExactWhenCurrent
  <2> SUFFICES ASSUME Inv, Exact, running # None, told = [revision |-> applied, c |-> conf]
               PROVE  running \in {conf.main, conf.fallback}
    BY DEF ExactWhenCurrent
  <2>1. told.revision = applied
    OBVIOUS
  <2> QED BY <2>1 DEF Exact, Current, Named
<1> QED BY <1>1, Invariance, InstalledAsTold, PTL

=============================================================================
