----------------------------- MODULE CpuOptimizer -----------------------------
(***************************************************************************)
(* The CPU optimiser of an agent: with a CPU-only workload it measures a   *)
(* baseline, tries the performance governor on every CPU, measures again   *)
(* and keeps the governor if the hashrate grew by one percent, or puts the *)
(* governors back. The workload changes, pauses and ends at any point,     *)
(* writes fail, and the agent restarts without memory of a trial.          *)
(*                                                                         *)
(* Source: internal/agent/cpu_optimization.go.                             *)
(*                                                                         *)
(* Samples are counted; whether they are stable and what they show is any  *)
(* outcome. Diagnostics and messages are left out. Nobody else sets the    *)
(* governors.                                                              *)
(***************************************************************************)
EXTENDS Integers

CONSTANTS
  Cpu,
  Workload,      \* keys of coin and algorithm
  Governor,      \* governors other than performance
  MaxBreaks,     \* bound on failing writes and restarts
  None

Samples == 3     \* cpuTrialSamples
Fast == "performance"
Setting == Governor \cup {Fast}

VARIABLES
  governor,      \* the governor of each CPU
  originals,     \* what a trial found, None for a CPU it does not concern
  trial,         \* a trial is running
  key,           \* the workload of the samples
  baseline, after,   \* how many samples there are
  rightful,      \* history: the governors found at first, or kept by a trial
  measured,      \* history: the workloads whose samples were counted since the
                 \* baseline of the present comparison began
  fair,          \* history: every trial kept was compared on one workload
  broken,        \* history: a governor could not be put back, or the agent
                 \* restarted during a trial
  breaks

cpuVars == << governor, originals, trial, key, baseline, after, rightful, measured,
              fair, broken, breaks >>

-----------------------------------------------------------------------------

Nothing == [c \in Cpu |-> None]

Break == breaks < MaxBreaks /\ breaks' = breaks + 1

\* Faulty variant: what was found is put back only while a trial is running, which
\* it is not yet when one fails to start.
RestoresIfTrying ==
  /\ governor' = IF trial THEN [c \in Cpu |-> IF originals[c] = None THEN governor[c] ELSE originals[c]]
                          ELSE governor
  /\ originals' = Nothing
  /\ UNCHANGED << broken, breaks >>

\* rollback: each original is written back; what fails is forgotten.
Restores ==
  /\ \/ /\ governor' = [c \in Cpu |-> IF originals[c] = None THEN governor[c] ELSE originals[c]]
        /\ UNCHANGED << broken, breaks >>
     \/ /\ Break /\ broken' = TRUE
        /\ \E failed \in SUBSET {c \in Cpu : originals[c] # None} :
             /\ failed # {}
             /\ governor' = [c \in Cpu |-> IF originals[c] = None \/ c \in failed
                                             THEN governor[c] ELSE originals[c]]
  /\ originals' = Nothing

\* Faulty variant: a new workload's samples are added to the old one's.
SamplesStay(k) == key' = k /\ UNCHANGED << baseline, after, measured >>

ForgetSamples(k) == key' = k /\ baseline' = 0 /\ after' = 0 /\ measured' = {}

\* A heartbeat without a CPU-only workload, or in a transition of one.
Interrupted(k) ==
  /\ IF trial THEN Restores ELSE UNCHANGED << governor, originals, broken, breaks >>
  /\ trial' = FALSE
  /\ ForgetSamples(k)
  /\ UNCHANGED << rightful, fair >>

More(n) == IF n = Samples THEN n ELSE n + 1

\* Another workload than at the last heartbeat: a trial is taken back and the
\* baseline begins with this sample.
AnotherWorkload(k) ==
  /\ k # key
  /\ Restores /\ trial' = FALSE
  /\ key' = k /\ baseline' = 1 /\ after' = 0 /\ measured' = {k}
  /\ UNCHANGED << rightful, fair >>

\* One more sample of the baseline, which may not be enough or not be stable, or
\* leave nothing to try.
MeasureBaseline(k) ==
  /\ k = key /\ ~trial
  /\ baseline' = More(baseline)
  /\ measured' = measured \cup {k}
  /\ UNCHANGED << governor, originals, trial, key, after, rightful, fair, broken, breaks >>

\* startGovernorTrial, on a stable baseline; a failing write takes the trial back.
StartTrial(k) ==
  /\ k = key /\ ~trial /\ More(baseline) = Samples
  /\ \E c \in Cpu : governor[c] # Fast
  /\ baseline' = Samples /\ measured' = measured \cup {k} /\ after' = 0
  /\ originals' = governor
  /\ \/ /\ governor' = [c \in Cpu |-> Fast] /\ trial' = TRUE
        /\ UNCHANGED << broken, breaks >>
     \/ /\ Break /\ UNCHANGED broken
        /\ \E done \in SUBSET Cpu :
             /\ done # Cpu
             /\ governor' = [c \in Cpu |-> IF c \in done THEN Fast ELSE governor[c]]
        /\ trial' = FALSE
  /\ UNCHANGED << key, rightful, fair >>

\* The rollback that follows, in the same call.
TakeBackStart ==
  /\ ~trial /\ originals # Nothing
  /\ Restores
  /\ UNCHANGED << trial, key, baseline, after, rightful, measured, fair >>

MeasureTrial(k) ==
  /\ k = key /\ trial
  /\ after' = More(after) /\ measured' = measured \cup {k}
  /\ UNCHANGED << governor, originals, trial, key, baseline, rightful, fair, broken, breaks >>

\* Enough stable samples: the governor stays or goes.
EndTrial(k) ==
  /\ k = key /\ trial /\ More(after) = Samples
  /\ \/ /\ originals' = Nothing /\ rightful' = governor
        /\ fair' = (fair /\ measured \cup {k} = {key})
        /\ UNCHANGED << governor, broken, breaks >>
     \/ Restores /\ UNCHANGED << rightful, fair >>
  /\ trial' = FALSE /\ baseline' = 1 /\ after' = 0 /\ measured' = {k}
  /\ UNCHANGED key

RestartAgent ==
  /\ Break
  /\ originals' = Nothing /\ trial' = FALSE
  /\ key' = None /\ baseline' = 0 /\ after' = 0 /\ measured' = {}
  /\ broken' = (broken \/ trial)
  /\ UNCHANGED << governor, rightful, fair >>

CpuInit ==
  /\ governor \in [Cpu -> Setting] /\ rightful = governor
  /\ originals = Nothing /\ trial = FALSE
  /\ key = None /\ baseline = 0 /\ after = 0 /\ measured = {}
  /\ fair = TRUE /\ broken = FALSE /\ breaks = 0

Between == originals = Nothing \/ trial

CpuNext ==
  \/ TakeBackStart
  \/ Between /\ \/ \E k \in Workload : \/ Interrupted(k) \/ AnotherWorkload(k)
                                       \/ MeasureBaseline(k) \/ StartTrial(k)
                                       \/ MeasureTrial(k) \/ EndTrial(k)
                \/ RestartAgent

CpuSpec == CpuInit /\ [][CpuNext]_cpuVars

-----------------------------------------------------------------------------

CpuTypeOK ==
  /\ governor \in [Cpu -> Setting] /\ rightful \in [Cpu -> Setting]
  /\ originals \in [Cpu -> Setting \cup {None}]
  /\ trial \in BOOLEAN /\ fair \in BOOLEAN /\ broken \in BOOLEAN
  /\ key \in Workload \cup {None} /\ measured \subseteq Workload
  /\ baseline \in 0 .. Samples /\ after \in 0 .. Samples
  /\ breaks \in 0 .. MaxBreaks

\* Outside a trial the governors are the machine's own or those a trial earned, by a
\* comparison on one workload, wherever the workload changes, pauses or ends, and also
\* when a trial could be started on some CPUs only (cpu_optimization.go:211); unless
\* putting one back failed or the agent restarted during a trial.
GovernorsGivenBack ==
  /\ fair
  /\ ~trial /\ originals = Nothing /\ ~broken => governor = rightful
  /\ trial => originals = rightful \/ broken

=============================================================================
