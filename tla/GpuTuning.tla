----------------------------- MODULE GpuTuning -----------------------------
(***************************************************************************)
(* What an agent sets the power limits, locked clocks and clock offsets of *)
(* its NVIDIA GPUs to: an overclock profile is a list of settings, each    *)
(* for one GPU or for all of them; a change of profile resets what was     *)
(* removed and applies the rest, command by command, any of which may      *)
(* fail; the controller's power ceiling is put into the profile and        *)
(* enforced before every start of the miner and every 30 seconds; a smart  *)
(* tune tries other limits while the miner runs.                           *)
(*                                                                         *)
(* Sources: internal/agent/overclock.go, client.go (syncConfiguration,     *)
(* startCPUWorkload, heartbeat) and autotune.go.                           *)
(*                                                                         *)
(* Core and memory clocks are handled alike and are one control here, and  *)
(* so are their offsets. Fans, and the AMD files that stand for the same   *)
(* controls, are left out. The agent's loop runs a synchronisation to its  *)
(* end before anything else but the tuner, which keeps it from starting    *)
(* while it runs: a synchronisation is one step with many outcomes.        *)
(***************************************************************************)
EXTENDS Integers, Sequences, FiniteSetsExt

CONSTANTS
  GPU,           \* the indexes of the GPUs
  All,           \* the selector "*"
  Factory,       \* what each control of each GPU has after a reset
  Maximum,       \* the highest power limit each GPU takes
  Watts,         \* the power limits that are tried or set by hand
  Config,        \* the configurations an operator makes
  MaxRevision, MaxFaults, MaxRestarts, MaxMeddling   \* bounds

Control == {"power", "clock", "offset"}

\* A control a setting leaves alone has the value 0.
Setting == [selector : GPU \cup {All}, value : [Control -> Nat]]
Tuned   == [GPU -> [Control -> Nat]]

\* A power ceiling of 0 is none; no profile is one without settings.
Configuration == [profile : Seq(Setting), limit : Nat]

ASSUME GPUAssumption == GPU \subseteq Nat /\ GPU # {} /\ IsFiniteSet(GPU) /\ All \notin GPU
ASSUME HardwareAssumption == Factory \in Tuned /\ Maximum \in [GPU -> Nat]
ASSUME WattsAssumption == Watts \subseteq Nat \ {0}
ASSUME ConfigAssumption == Config \subseteq Configuration
ASSUME BoundAssumption == {MaxRevision, MaxFaults, MaxRestarts, MaxMeddling} \subseteq Nat

VARIABLES
  told,       \* the revision and the configuration of the controller
  conf,       \* the configuration the agent has applied ...
  applied,    \* ... and its revision
  tried,      \* history: the ceiling of the last configuration it tried
  tuned,      \* what the driver has for each control of each GPU
  foreign,    \* history: the GPUs whose power limit somebody else has set
  running,    \* whether the miner runs
  tune,       \* the smart tune's first and original limits, and whether it runs
  faults, restarts, meddling   \* counted against their bounds

vars == << told, conf, applied, tried, tuned, foreign, running, tune,
           faults, restarts, meddling >>

Blank == [profile |-> << >>, limit |-> 0]
NoTune == [active |-> FALSE, start |-> [g \in GPU |-> 0], original |-> [g \in GPU |-> 0]]

-----------------------------------------------------------------------------
(* Profiles. *)

Covers(s, g)  == s.selector \in {All, g}
Sets(s, g, c) == Covers(s, g) /\ s.value[c] # 0

ForAll(power) == [selector |-> All,
                  value |-> [c \in Control |-> IF c = "power" THEN power ELSE 0]]

\* Faulty variant: a tune or a setting without a limit is left without.
CappedIfSet(w, limit) == IF w > limit THEN limit ELSE w

Capped(w, limit) == IF w = 0 \/ w > limit THEN limit ELSE w

\* applyGPUPowerPolicyToProfile, which the controller and the agent both apply:
\* no setting is above the ceiling, and GPUs without one get the ceiling itself.
Clamp(p, limit) ==
  LET capped == [i \in DOMAIN p |->
                   [p[i] EXCEPT !.value["power"] = Capped(@, limit)]]
  IN IF limit = 0 THEN p
     ELSE IF \E i \in DOMAIN p : p[i].selector = All THEN capped
     ELSE << ForAll(limit) >> \o capped

Effective(c) == Clamp(c.profile, c.limit)

\* Faulty variant: a setting for all GPUs stands in for every removed control.
ReplacedByAny(next, selector, c) ==
  LET same == {i \in DOMAIN next : next[i].selector = selector}
  IN IF same # {} THEN next[Min(same)].value[c] # 0
     ELSE \E i \in DOMAIN next : next[i].selector = All

\* removedOverclockSettings: does next have anything in place of what a setting
\* with this selector says of control c?
Replaced(next, selector, c) ==
  LET same == {i \in DOMAIN next : next[i].selector = selector}
  IN IF same # {} THEN next[Min(same)].value[c] # 0
     ELSE c = "power" /\ \E i \in DOMAIN next :
                            next[i].selector = All /\ next[i].value[c] > 0

Removes(s, next, c) == s.value[c] # 0 /\ ~Replaced(next, s.selector, c)

-----------------------------------------------------------------------------
(* The driver's commands are given setting by setting, GPU by GPU, control  *)
(* by control, until one fails: << i, g, k >> is the k-th control of GPU g  *)
(* for setting i.                                                           *)

ApplyRank == [power |-> 1, clock |-> 2, offset |-> 3]
ResetRank == [clock |-> 1, power |-> 2, offset |-> 3]

Before(a, b) == \/ a[1] < b[1]
                \/ a[1] = b[1] /\ a[2] < b[2]
                \/ a[1] = b[1] /\ a[2] = b[2] /\ a[3] < b[3]

Points(p) == (DOMAIN p) \X GPU \X (1 .. 3)
End(p)    == << Len(p) + 1, 0, 0 >>

\* The settings of profile p applied to the hardware hw up to a point.
Applied(hw, p, point) ==
  [g \in GPU |-> [c \in Control |->
     LET W == {i \in DOMAIN p : Sets(p[i], g, c) /\ Before(<< i, g, ApplyRank[c] >>, point)}
     IN IF W = {} THEN hw[g][c] ELSE p[Max(W)].value[c]]]

\* What next no longer has of previous, reset up to a point.
Reset(hw, previous, next, point) ==
  [g \in GPU |-> [c \in Control |->
     IF \E i \in DOMAIN previous :
          /\ Covers(previous[i], g) /\ Removes(previous[i], next, c)
          /\ Before(<< i, g, ResetRank[c] >>, point)
       THEN Factory[g][c] ELSE hw[g][c]]]

AllReset(hw, previous, next) == Reset(hw, previous, next, End(previous))
AllApplied(hw, p) == Applied(hw, p, End(p))

\* An unchanged profile is not applied again; one that differs only in its name is.
Transitions(hw, previous, next) ==
  {AllApplied(AllReset(hw, previous, next), next)}
    \cup (IF previous = next THEN {hw} ELSE {})

\* The hardware after a transition that failed in its preflight or in a reset,
\* or in applying next, after which previous is applied again.
Broken(hw, previous, next) ==
  {hw} \cup {Reset(hw, previous, next, point) : point \in Points(previous)}

Restored(hw, previous, next) ==
  {AllApplied(Applied(AllReset(hw, previous, next), next, point), previous) :
     point \in Points(next)}

\* The same when the previous profile cannot be applied either.
Lost(hw, previous, next) ==
  {Applied(Applied(AllReset(hw, previous, next), next, a), previous, b) :
     a \in Points(next), b \in Points(previous)}

-----------------------------------------------------------------------------
(* The ceiling. *)

\* Faulty variant: GPUs are enforced up to the first that respects the ceiling.
EnforcedOnUntil(S, read, hw, limit) ==
  LET fine == {g \in GPU : ~(limit # 0 /\ read[g]["power"] > limit)}
  IN [g \in GPU |-> IF /\ g \in S /\ limit # 0 /\ read[g]["power"] > limit
                      /\ \A h \in fine : g < h
                    THEN [hw[g] EXCEPT !["power"] = limit] ELSE hw[g]]

Exceeds(w, limit) == limit # 0 /\ w > limit

\* Enforced on the GPUs S that a reading of the hardware finds above it.
EnforcedOn(S, read, hw, limit) ==
  [g \in GPU |-> IF g \in S /\ Exceeds(read[g]["power"], limit)
                   THEN [hw[g] EXCEPT !["power"] = limit] ELSE hw[g]]

Enforced(hw, limit) == EnforcedOn(GPU, hw, hw, limit)

\* The enforcement fails at one of the GPUs it has to change.
HalfEnforced(read, hw, limit) ==
  {EnforcedOn({h \in GPU : h < g}, read, hw, limit) :
     g \in {h \in GPU : Exceeds(read[h]["power"], limit)}}

Faulty(n) == faults + n <= MaxFaults /\ faults' = faults + n

\* The power limits that are no longer somebody else's.
Touch == foreign' = {g \in foreign : tuned'[g]["power"] = tuned[g]["power"]}

-----------------------------------------------------------------------------
(* syncConfiguration, as far as it touches the GPUs. *)

Fetched == /\ ~tune.active /\ told.revision > applied
           /\ tried' = told.c.limit
           /\ UNCHANGED << told, tune, restarts, meddling >>

\* The hardware once the fetched ceiling has been enforced.
Limited == Enforced(tuned, told.c.limit)

SyncCeilingFails ==
  /\ Fetched /\ Faulty(1)
  /\ tuned' \in HalfEnforced(tuned, tuned, told.c.limit)
  /\ running' = FALSE /\ UNCHANGED << conf, applied >>

\* After a failed transition the ceiling is enforced again on the readings from
\* before it; the miner stops only if that fails too.
AfterFailure(hw, n) ==
  \/ /\ Faulty(n)
     /\ tuned' = EnforcedOn(GPU, tuned, hw, told.c.limit) /\ UNCHANGED running
  \/ /\ Faulty(n + 1)
     /\ tuned' \in HalfEnforced(tuned, hw, told.c.limit) /\ running' = FALSE

SyncTuningFails ==
  /\ Fetched /\ UNCHANGED << conf, applied >>
  /\ \/ \E hw \in Broken(Limited, Effective(conf), Effective(told.c)) : AfterFailure(hw, 1)
     \/ \E hw \in Lost(Limited, Effective(conf), Effective(told.c)) : AfterFailure(hw, 2)

\* "apply overclock; previous overclock restored"
SyncTuningRestored ==
  /\ Fetched /\ UNCHANGED << conf, applied >>
  /\ \E hw \in Restored(Limited, Effective(conf), Effective(told.c)) : AfterFailure(hw, 1)

\* A rig may be assigned no miner.
SyncStarts ==
  /\ Fetched
  /\ \E hw \in Transitions(Limited, Effective(conf), Effective(told.c)) :
       tuned' = Enforced(hw, told.c.limit)
  /\ conf' = told.c /\ applied' = told.revision
  /\ running' \in BOOLEAN /\ UNCHANGED faults

\* The new miner does not start; if it was an update, the previous one is
\* started again, under the previous ceiling.
SyncStartFails ==
  /\ Fetched /\ UNCHANGED << conf, applied >>
  /\ \E hw \in Transitions(Limited, Effective(conf), Effective(told.c)) :
       \/ Faulty(1) /\ tuned' = Enforced(hw, told.c.limit) /\ running' = FALSE
       \/ /\ Faulty(1) /\ applied # 0
          /\ tuned' = Enforced(Enforced(hw, told.c.limit), conf.limit) /\ running' = TRUE
       \/ /\ Faulty(2) /\ applied # 0
          /\ tuned' \in HalfEnforced(hw, hw, conf.limit) /\ running' = FALSE

Synchronise ==
  /\ \/ SyncCeilingFails \/ SyncTuningFails \/ SyncTuningRestored
     \/ SyncStarts \/ SyncStartFails
  /\ Touch

-----------------------------------------------------------------------------
(* The rest of the agent. *)

\* An operator, the watchdog or the failover starts the miner.
StartMiner ==
  /\ applied # 0
  /\ \/ tuned' = Enforced(tuned, conf.limit) /\ running' = TRUE /\ UNCHANGED faults
     \/ tuned' = Enforced(tuned, conf.limit) /\ running' = FALSE /\ Faulty(1)
     \/ tuned' \in HalfEnforced(tuned, tuned, conf.limit) /\ running' = FALSE /\ Faulty(1)
  /\ Touch
  /\ UNCHANGED << told, conf, applied, tried, tune, restarts, meddling >>

StopMiner ==
  /\ running /\ running' = FALSE
  /\ UNCHANGED << told, conf, applied, tried, tuned, foreign, tune, faults,
                  restarts, meddling >>

\* Every 30 seconds.
Heartbeat ==
  /\ conf.limit # 0
  /\ \/ tuned' = Enforced(tuned, conf.limit) /\ UNCHANGED << running, faults >>
     \/ tuned' \in HalfEnforced(tuned, tuned, conf.limit) /\ running' = FALSE /\ Faulty(1)
  /\ Touch
  /\ UNCHANGED << told, conf, applied, tried, tune, restarts, meddling >>

AgentRestarts ==
  /\ restarts < MaxRestarts /\ restarts' = restarts + 1
  /\ conf' = Blank /\ applied' = 0 /\ tried' = 0
  /\ running' = FALSE /\ tune' = NoTune
  /\ tuned' \in {tuned, Factory}     \* also the whole machine
  /\ Touch /\ UNCHANGED << told, faults, meddling >>

-----------------------------------------------------------------------------
(* The smart tuner. *)

WithPower(hw, S, limits) ==
  [g \in GPU |-> IF g \in S THEN [hw[g] EXCEPT !["power"] = limits[g]] ELSE hw[g]]

\* Faulty variant: the driver's maximum is not asked.
AsRequested(g, w) == IF w = 0 THEN Maximum[g] ELSE w

\* smartTunePowerCeiling
StartLimit(g, w) == IF w = 0 THEN Maximum[g] ELSE Min({Maximum[g], w})

\* A tune with the requested limit w, or 0 for none.
Tuning(w) ==
  LET request == IF conf.limit = 0 THEN w ELSE Capped(w, conf.limit)
  IN [active   |-> TRUE,
      start    |-> [g \in GPU |-> StartLimit(g, request)],
      original |-> [g \in GPU |-> IF conf.limit = 0 THEN tuned[g]["power"]
                                  ELSE Min({tuned[g]["power"], conf.limit})]]

TuneKeeps == Touch /\ UNCHANGED << told, conf, applied, tried, running, restarts, meddling >>

TuneStarts(w) ==
  /\ ~tune.active /\ running
  /\ tune' = Tuning(w) /\ tuned' = WithPower(tuned, GPU, Tuning(w).start)
  /\ TuneKeeps /\ UNCHANGED faults

\* The first limit of GPU g is refused; R are the GPUs that can be set back.
TuneRefused(w, g, R) ==
  /\ ~tune.active /\ running /\ R \subseteq {h \in GPU : h <= g}
  /\ Faulty(IF R = {h \in GPU : h <= g} THEN 1 ELSE 2)
  /\ tuned' = WithPower(WithPower(tuned, {h \in GPU : h < g}, Tuning(w).start),
                        R, Tuning(w).original)
  /\ TuneKeeps /\ UNCHANGED tune

\* A candidate, or the best of them, for one GPU.
TuneTries(g, w) ==
  /\ tune.active /\ w <= tune.start[g]
  /\ tuned' = WithPower(tuned, {g}, [h \in GPU |-> w])
  /\ TuneKeeps /\ UNCHANGED << tune, faults >>

TuneSucceeds ==
  /\ tune.active /\ tune' = NoTune /\ UNCHANGED tuned
  /\ TuneKeeps /\ UNCHANGED faults

\* It failed or was cancelled: the original limits return, as far as they can.
TuneFails(R) ==
  /\ tune.active /\ tune' = NoTune
  /\ Faulty(IF R = GPU THEN 0 ELSE 1)
  /\ tuned' = WithPower(tuned, R, tune.original)
  /\ TuneKeeps

-----------------------------------------------------------------------------
(* The operator and the world. *)

\* Whatever changes a profile, a smart tune's result included, has a revision.
Reconfigure(c) ==
  /\ told.revision < MaxRevision
  /\ told' = [revision |-> told.revision + 1, c |-> c]
  /\ UNCHANGED << conf, applied, tried, tuned, foreign, running, tune, faults,
                  restarts, meddling >>

\* Another program sets a power limit.
Meddle(g, w) ==
  /\ meddling < MaxMeddling /\ meddling' = meddling + 1
  /\ tuned[g]["power"] # w
  /\ tuned' = WithPower(tuned, {g}, [h \in GPU |-> w])
  /\ foreign' = foreign \cup {g}
  /\ UNCHANGED << told, conf, applied, tried, running, tune, faults, restarts >>

Init ==
  /\ told = [revision |-> 0, c |-> Blank]
  /\ conf = Blank /\ applied = 0 /\ tried = 0
  /\ tuned = Factory /\ foreign = {}
  /\ running = FALSE /\ tune = NoTune
  /\ faults = 0 /\ restarts = 0 /\ meddling = 0

Tuner == \/ \E w \in Watts \cup {0} : TuneStarts(w)
         \/ \E w \in Watts \cup {0}, g \in GPU, R \in SUBSET GPU : TuneRefused(w, g, R)
         \/ \E g \in GPU : \E w \in Watts \cup {tune.start[g]} : TuneTries(g, w)
         \/ TuneSucceeds \/ \E R \in SUBSET GPU : TuneFails(R)

World == \/ \E c \in Config : Reconfigure(c)
         \/ \E g \in GPU, w \in Watts : Meddle(g, w)

Next == Synchronise \/ StartMiner \/ StopMiner \/ Heartbeat \/ AgentRestarts
        \/ Tuner \/ World

Spec == Init /\ [][Next]_vars

\* The heartbeat's ticker goes on, and with it the enforcement that is due.
FairSpec == Spec /\ WF_vars(Heartbeat)

-----------------------------------------------------------------------------
(* What has to hold. *)

\* Every variable keeps to its values, and a tune starts no higher than the
\* driver allows.
TypeOK ==
  /\ told \in [revision : Nat, c : Configuration]
  /\ conf \in Configuration /\ applied \in Nat /\ tried \in Nat
  /\ tuned \in Tuned /\ foreign \subseteq GPU /\ running \in BOOLEAN
  /\ tune \in [active : BOOLEAN, start : [GPU -> Nat], original : [GPU -> Nat]]
  /\ \A g \in GPU : tune.start[g] <= Maximum[g]
  /\ faults \in 0 .. MaxFaults /\ restarts \in 0 .. MaxRestarts
  /\ meddling \in 0 .. MaxMeddling

\* What a profile makes of a GPU fresh from a reset.
Intended(p) == AllApplied(Factory, p)

\* "Changing or clearing an applied clock, offset, power, or fan value resets
\* only the removed controls before applying the replacement profile"
\* (README.md:193-195): a rig that was tuned as its profile says is, once it
\* has applied another one, tuned as that one says, in every control.
TunedExactly ==
  [][applied' > applied /\ tuned = Intended(Effective(conf))
       => tuned' = Intended(Effective(conf'))]_vars

\* While the ceiling is being changed the looser one counts.
Looser(a, b) == IF a = 0 \/ b = 0 THEN 0 ELSE Max({a, b})

\* "protect every current and future GPU rig" (README.md:202): while the miner
\* runs no GPU is above the ceiling by anything the agent did, whatever
\* failed, restarted the miner or was tuned on the way.
CeilingHolds ==
  running => \A g \in GPU \ foreign : ~Exceeds(tuned[g]["power"], Looser(conf.limit, tried))

\* "compatible agents periodically reapply it" (README.md:199-200): a limit that
\* somebody else has raised is lowered again, or the miner stops.
CeilingReapplied ==
  \A g \in GPU :
    Exceeds(tuned[g]["power"], conf.limit)
      ~> (~Exceeds(tuned[g]["power"], conf.limit) \/ ~running)

\* "apply overclock; previous overclock restored" (internal/agent/overclock.go:49).
RestoredAsSaid ==
  [][SyncTuningRestored /\ conf.profile # << >> /\ tuned = Intended(Effective(conf)) /\ conf.limit = told.c.limit
       => tuned' = tuned]_vars

=============================================================================
