-------------------------------- MODULE Agent --------------------------------
(***************************************************************************)
(* The agent's workload next to what its telemetry loop does to the same   *)
(* machine: fans and CPU governors. The three models share no variable; in *)
(* a behaviour only one of them moves (`part`), so that the state space is *)
(* the sum of theirs.                                                      *)
(***************************************************************************)
EXTENDS AgentWorkload, Sequences

CONSTANTS
  Gpu, Policy, Heat, MaxUpsets, Manual,        \* AutoFan
  Cpu, Coin, Governor, MaxBreaks               \* CpuOptimizer

VARIABLES
  nvidia, policy, heat, fan, lastPercent, wanted, known, upsets,
  governor, originals, trial, key, baseline, after, rightful, measured, fair,
  broken, breaks,
  part           \* the component that moves

Fans == INSTANCE AutoFan
Cpus == INSTANCE CpuOptimizer WITH Workload <- Coin

\* None is no policy, speed or governor.
ASSUME FanAssumption ==
  /\ Gpu \in Seq(Fans!Gpus) /\ Policy \subseteq Fans!FanPolicy /\ Heat \subseteq Int
  /\ None \notin Fans!FanPolicy /\ None \notin Fans!Percent /\ MaxUpsets \in Nat
  /\ Manual \notin Fans!Percent \cup {None}
ASSUME CpuAssumption == None \notin Cpus!Setting /\ MaxBreaks \in Nat

\* The variables of each component, as its module groups them.
fanVars == << nvidia, policy, heat, fan, lastPercent, wanted, known, upsets >>
cpuVars == << governor, originals, trial, key, baseline, after, rightful, measured,
              fair, broken, breaks >>

agentVars == << vars, fanVars, cpuVars, part >>

\* Of a component's initial states the others need only one.
AgentInit ==
  /\ part \in {"workload", "fans", "cpus"}
  /\ Init
  /\ Fans!FanInit
  /\ part = "fans" \/ (nvidia = {} /\ \A g \in Fans!Gpus : heat[g] = CHOOSE t \in Heat : TRUE)
  /\ Cpus!CpuInit
  /\ part = "cpus" \/ \A c \in Cpu : governor[c] = Cpus!Fast

\* A step of the workload, when that is what moves.
Working(A) == part = "workload" /\ A /\ UNCHANGED << fanVars, cpuVars, part >>

AgentNext ==
  \/ Working(Next)
  \/ part = "fans" /\ Fans!FanNext /\ UNCHANGED << vars, cpuVars, part >>
  \/ part = "cpus" /\ Cpus!CpuNext /\ UNCHANGED << vars, fanVars, part >>

AgentSpec == AgentInit /\ [][AgentNext]_agentVars

\* The fairness of AgentWorkload. Nothing need ever happen to fans and CPUs.
FairAgentSpec ==
  /\ AgentSpec
  /\ SF_agentVars(Working(Fetch(FALSE))) /\ WF_agentVars(Working(Applying))
  /\ WF_agentVars(Working(Watching)) /\ SF_agentVars(Working(Heartbeat))
  /\ WF_agentVars(Working(TuneEnds))

-----------------------------------------------------------------------------
(* What the components promise, as their modules state it. *)

\* The fans a GPU has for itself turn within three points of what its temperature
\* calls for, and are automatic while no policy is in force (autofan.go:17), but for
\* those that others, failing commands and forgotten speeds left otherwise.
FansFollow == Fans!FansFollow

\* Between trials every CPU has its own governor or one that a fair trial earned it,
\* unless putting one back failed or the agent restarted during a trial
\* (cpu_optimization.go:86).
GovernorsGivenBack == Cpus!GovernorsGivenBack

=============================================================================
