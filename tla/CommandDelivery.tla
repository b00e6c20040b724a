-------------------------- MODULE CommandDelivery --------------------------
(***************************************************************************)
(* How one rig's commands travel: the operator queues them in the          *)
(* controller's store, the rig's agent polls for the next one under a      *)
(* lease, executes it and reports the result, over a network that loses,   *)
(* delays and cuts off calls, with an agent and a controller that restart  *)
(* and a disk that may refuse a save.                                      *)
(*                                                                         *)
(* Sources: internal/server/store.go (AddCommandRequest, AddCommands,      *)
(* NextCommand, FinishCommandResult, saveLocked, rollbackLocked),          *)
(* internal/agent/client.go (pollCommand, submitCommandResult,             *)
(* executeCommand, finishSmartTune), internal/agent/autotune.go.           *)
(*                                                                         *)
(* A command is the position it takes in the rig's Commands slice, which   *)
(* only ever grows. A call is modelled at the instant the controller       *)
(* handles it: the agent's main loop is blocked meanwhile, so no other     *)
(* step of that loop can come between.                                     *)
(***************************************************************************)
EXTENDS Integers, FiniteSets

CONSTANTS
  MaxCommands,   \* how many commands the operator queues at most
  MaxSubmits,    \* attempts finishSmartTune makes (5 in the code)
  MaxFaults      \* lost, late or refused calls and agent restarts, in all

ASSUME MaxCommandsAssumption == MaxCommands \in Nat \ {0}
ASSUME MaxSubmitsAssumption  == MaxSubmits \in Nat \ {0}
ASSUME MaxFaultsAssumption   == MaxFaults \in Nat

VARIABLES
  kind,        \* what each command asks for
  store,       \* the controller's in-memory state
  disk,        \* the state file, as of the last successful save
  agent,       \* where pollCommand is, and with which command
  pending,     \* Client.pendingResult
  tuner,       \* the smart tuner and the run it is in
  finishers,   \* goroutines in finishSmartTune
  lateNext,    \* a "next command" call the agent has given up on is still under way
  lateResults, \* results in calls the agent has given up on
  executed,    \* history: how often each command was carried out (saturating)
  ran,         \* history: how often by the present agent process (saturating)
  faults       \* how many faults have happened

vars == << kind, store, disk, agent, pending, tuner, finishers, lateNext,
           lateResults, executed, ran, faults >>

agentVars == << agent, pending, tuner, finishers, executed, ran >>
lateVars  == << lateNext, lateResults >>

-----------------------------------------------------------------------------
(* Commands and their records. *)

Cmd  == 1 .. MaxCommands
None == 0

Kinds == {"ordinary", "cancel", "system", "tune"}

Final  == {"complete", "failed"}
Status == {"none", "pending", "running"} \cup Final

\* LeaseUntil is abstracted to whether it still lies in the future.
Store == [status   : [Cmd -> Status],
          leased   : [Cmd -> BOOLEAN],
          shared   : BOOLEAN,
          revision : Nat]

Results == [cmd : Cmd, ok : BOOLEAN]
Result(c, ok) == [cmd |-> c, ok |-> ok]
NoResult == [cmd |-> None, ok |-> FALSE]

NoTune == [cmd |-> None, stage |-> "idle", ok |-> FALSE, cancelled |-> FALSE]
NoCall == [phase |-> "idle", cmd |-> None]

\* Histories only distinguish never, once and more than once.
Many == 2
Again(n) == IF n < Many THEN n + 1 ELSE Many

Counted(c) == /\ executed' = [executed EXCEPT ![c] = Again(@)]
              /\ ran' = [ran EXCEPT ![c] = Again(@)]

Fault   == faults < MaxFaults /\ faults' = faults + 1
NoFault == UNCHANGED faults

-----------------------------------------------------------------------------
(* The controller's handlers, as what they make of the store. *)

Saved(s)    == store' = s /\ disk' = s
SaveFailed  == store' = disk /\ UNCHANGED disk
NotReached  == UNCHANGED << store, disk >>

Open(c) == store.status[c] \in {"pending", "running"}

\* Faulty variant: a command is handed out once only.
CanLeaseOnce(s, c) == s.status[c] = "pending"

CanLease(s, c) == \/ s.status[c] = "pending"
                  \/ s.status[c] = "running" /\ ~s.leased[c]

\* Faulty variant: any command that can be leased is handed out.
AnyInLine(c) == CanLease(store, c)

\* NextCommand scans the slice from its start.
NextInLine(c) == /\ CanLease(store, c)
                 /\ \A d \in Cmd : d < c => ~CanLease(store, d)

Leased(s, c) == [s EXCEPT !.status[c] = "running", !.leased[c] = TRUE]

\* FinishCommandResult of a running command. The settings of a successful
\* smart tune are applied only while this rig alone uses the profile.
Applies(s, r)  == r.ok /\ kind[r.cmd] = "tune" /\ ~s.shared
Succeeds(s, r) == r.ok /\ (kind[r.cmd] = "tune" => ~s.shared)
Finished(s, r) ==
  [s EXCEPT !.status[r.cmd] = IF Succeeds(s, r) THEN "complete" ELSE "failed",
            !.revision = IF Applies(s, r) THEN @ + 1 ELSE @]

\* Faulty variant: a repeated result overwrites the recorded one.
AcknowledgedAgain(r) ==
  /\ store.status[r.cmd] \in Final \cup {"running"} /\ Saved(Finished(store, r))
  /\ NoFault
  /\ UNCHANGED lateVars

\* A result is acknowledged when the command is already final or is running
\* and the save succeeds ...
Acknowledged(r) ==
  /\ \/ store.status[r.cmd] \in Final /\ NotReached
     \/ store.status[r.cmd] = "running" /\ Saved(Finished(store, r))
  /\ NoFault
  /\ UNCHANGED lateVars

\* ... and otherwise its sender sees an error: the answer was lost after the
\* handler ran, the save failed, the call never arrived, or it is still under
\* way when the sender gives it up.
CallFails(r) ==
  /\ Fault
  /\ \/ /\ store.status[r.cmd] = "running"
        /\ Saved(Finished(store, r)) \/ SaveFailed
        /\ UNCHANGED lateVars
     \/ NotReached /\ UNCHANGED lateVars
     \/ NotReached /\ lateResults' = lateResults \cup {r} /\ UNCHANGED lateNext

-----------------------------------------------------------------------------
(* The operator. *)

\* AddCommandRequest and AddCommands append to the slice. Smart tune needs a
\* profile that only this rig uses and no other smart tune still open.
QueueCommand(c) ==
  /\ store.status[c] = "none"
  /\ \A d \in Cmd : d < c => store.status[d] # "none"
  /\ kind[c] = "tune" =>
       /\ ~store.shared
       /\ \A d \in Cmd : kind[d] = "tune" => ~Open(d)
  /\ \/ Saved([store EXCEPT !.status[c] = "pending"]) /\ NoFault
     \/ SaveFailed /\ Fault
  /\ UNCHANGED << kind, agentVars, lateVars >>

\* AssignWorker gives another rig the tuned profile, or takes it away again.
ShareProfile ==
  /\ Saved([store EXCEPT !.shared = ~@])
  /\ UNCHANGED << kind, agentVars, lateVars, faults >>

-----------------------------------------------------------------------------
(* The agent's main loop: pollCommand. *)

Idle == agent.phase = "idle"

\* Faulty variant: the result is forgotten when its submission fails.
SubmitPendingOnce ==
  /\ Idle /\ pending # NoResult
  /\ Acknowledged(pending) \/ CallFails(pending)
  /\ pending' = NoResult
  /\ UNCHANGED << kind, agent, tuner, finishers, executed, ran >>

\* pendingResult is submitted before anything else is asked for.
SubmitPending ==
  /\ Idle /\ pending # NoResult
  /\ \/ Acknowledged(pending) /\ pending' = NoResult
     \/ CallFails(pending) /\ UNCHANGED pending
  /\ UNCHANGED << kind, agent, tuner, finishers, executed, ran >>

\* Faulty variant: every command is accepted before it is carried out.
DispatchedAccepting(c) == [cmd |-> c, phase |-> "accepting"]

\* The phase in which a command is handed over.
Dispatched(c) ==
  [cmd |-> c,
   phase |-> CASE kind[c] = "system" -> "accepting"
               [] kind[c] = "tune"   -> "starting"
               [] OTHER              -> "executing"]

\* Faulty variant: the command is handed out though the lease was not saved.
FetchNextUnsaved(c) ==
  /\ Idle /\ pending = NoResult /\ NextInLine(c)
  /\ \/ Saved(Leased(store, c)) /\ agent' = Dispatched(c) /\ NoFault
     \/ Saved(Leased(store, c)) /\ UNCHANGED agent /\ Fault
     \/ SaveFailed /\ agent' = Dispatched(c) /\ Fault
  /\ UNCHANGED << kind, pending, tuner, finishers, executed, ran, lateVars >>

\* GET commands/next: the command is leased and saved, and then its answer
\* may be lost; or the save fails.
FetchNext(c) ==
  /\ Idle /\ pending = NoResult /\ NextInLine(c)
  /\ \/ Saved(Leased(store, c)) /\ agent' = Dispatched(c) /\ NoFault
     \/ Saved(Leased(store, c)) /\ UNCHANGED agent /\ Fault
     \/ SaveFailed /\ UNCHANGED agent /\ Fault
  /\ UNCHANGED << kind, pending, tuner, finishers, executed, ran, lateVars >>

\* The agent's 15 s timeout ends a poll that the controller will still handle.
GiveUpFetch ==
  /\ Idle /\ pending = NoResult /\ ~lateNext
  /\ lateNext' = TRUE /\ Fault
  /\ NotReached
  /\ UNCHANGED << kind, agentVars, lateResults >>

\* executeCommand, up to the assignment of pendingResult. Whether the command
\* succeeds is its own affair. stop-smart-tune also cancels the run it finds.
Execute(c) ==
  /\ agent = [phase |-> "executing", cmd |-> c]
  /\ \E ok \in BOOLEAN : pending' = Result(c, ok)
  /\ tuner' = IF kind[c] = "cancel" /\ tuner.stage # "idle"
                THEN [tuner EXCEPT !.cancelled = TRUE] ELSE tuner
  /\ agent' = NoCall
  /\ Counted(c)
  /\ UNCHANGED << kind, store, disk, finishers, lateVars, faults >>

\* Faulty variant: the action is carried out though its report failed.
AcceptSystemAnyway(c) ==
  /\ agent = [phase |-> "accepting", cmd |-> c]
  /\ Acknowledged(Result(c, TRUE)) \/ CallFails(Result(c, TRUE))
  /\ agent' = [phase |-> "acting", cmd |-> c]
  /\ UNCHANGED << kind, pending, tuner, finishers, executed, ran >>

\* reboot and shutdown report "system action accepted" first and are carried
\* out only when that report has been acknowledged.
AcceptSystem(c) ==
  /\ agent = [phase |-> "accepting", cmd |-> c]
  /\ \/ /\ Acknowledged(Result(c, TRUE))
        /\ agent' = [phase |-> "acting", cmd |-> c]
     \/ CallFails(Result(c, TRUE)) /\ agent' = NoCall
  /\ UNCHANGED << kind, pending, tuner, finishers, executed, ran >>

PerformSystem(c) ==
  /\ agent = [phase |-> "acting", cmd |-> c]
  /\ agent' = NoCall
  /\ Counted(c)
  /\ UNCHANGED << kind, store, disk, pending, tuner, finishers, lateVars, faults >>

\* smartTuner.start: the run goes on in a goroutine of its own ...
StartTune(c) ==
  /\ agent = [phase |-> "starting", cmd |-> c] /\ tuner.stage = "idle"
  /\ tuner' = [cmd |-> c, stage |-> "tuning", ok |-> FALSE, cancelled |-> FALSE]
  /\ agent' = NoCall
  /\ Counted(c)
  /\ UNCHANGED << kind, store, disk, pending, finishers, lateVars, faults >>

\* ... or is refused, which is reported once and not kept for another attempt.
RejectTune(c) ==
  /\ agent = [phase |-> "starting", cmd |-> c] /\ tuner.stage # "idle"
  /\ Acknowledged(Result(c, FALSE)) \/ CallFails(Result(c, FALSE))
  /\ agent' = NoCall
  /\ UNCHANGED << kind, pending, tuner, finishers, executed, ran >>

-----------------------------------------------------------------------------
(* The smart tuner's goroutine. *)

\* runSmartTune looks at its context for the last time: from here on its
\* outcome is fixed, though the tuner is still active.
DecideTune ==
  /\ tuner.stage = "tuning"
  /\ \E ok \in BOOLEAN :
       /\ tuner.cancelled => ~ok
       /\ tuner' = [tuner EXCEPT !.stage = "decided", !.ok = ok]
  /\ UNCHANGED << kind, store, disk, agent, pending, finishers, executed, ran,
                  lateVars, faults >>

\* Faulty variant: the attempts are counted from zero to MaxSubmits.
PublishTuneOnceMore ==
  /\ tuner.stage = "decided"
  /\ finishers' = finishers \cup
       {[cmd |-> tuner.cmd, ok |-> tuner.ok, left |-> MaxSubmits + 1]}
  /\ tuner' = NoTune
  /\ UNCHANGED << kind, store, disk, agent, pending, executed, ran, lateVars,
                  faults >>

\* The tuner becomes inactive before its result is submitted.
PublishTune ==
  /\ tuner.stage = "decided"
  /\ finishers' = finishers \cup
       {[cmd |-> tuner.cmd, ok |-> tuner.ok, left |-> MaxSubmits]}
  /\ tuner' = NoTune
  /\ UNCHANGED << kind, store, disk, agent, pending, executed, ran, lateVars,
                  faults >>

\* One attempt of finishSmartTune, which gives up after the last one.
FinishTune(f) ==
  /\ \/ Acknowledged(Result(f.cmd, f.ok)) /\ finishers' = finishers \ {f}
     \/ /\ CallFails(Result(f.cmd, f.ok))
        /\ finishers' = (finishers \ {f}) \cup
             (IF f.left > 1 THEN {[f EXCEPT !.left = @ - 1]} ELSE {})
  /\ UNCHANGED << kind, agent, pending, tuner, executed, ran >>

-----------------------------------------------------------------------------
(* Time, late calls and restarts. *)

LeaseExpires(c) ==
  /\ store.status[c] = "running" /\ store.leased[c]
  /\ store' = [store EXCEPT !.leased[c] = FALSE]
  /\ disk' = [disk EXCEPT !.leased[c] = FALSE]
  /\ UNCHANGED << kind, agentVars, lateVars, faults >>

\* A given-up poll reaches NextCommand: the command is leased to nobody.
LateFetch ==
  /\ lateNext /\ lateNext' = FALSE
  /\ \/ \E c \in Cmd : NextInLine(c) /\ Saved(Leased(store, c))
     \/ (\A c \in Cmd : ~CanLease(store, c)) /\ NotReached
  /\ UNCHANGED << kind, agentVars, lateResults, faults >>

\* Faulty variant: a late result is recorded whatever the command's status.
LateResultOverwrites(r) ==
  /\ lateResults' = lateResults \ {r}
  /\ Saved(Finished(store, r))
  /\ UNCHANGED << kind, agentVars, lateNext, faults >>

\* A given-up result reaches FinishCommandResult.
LateResult(r) ==
  /\ lateResults' = lateResults \ {r}
  /\ \/ store.status[r.cmd] = "running" /\ Saved(Finished(store, r))
     \/ store.status[r.cmd] # "running" /\ NotReached
  /\ UNCHANGED << kind, agentVars, lateNext, faults >>

\* The agent keeps nothing but its identity across a restart.
AgentRestart ==
  /\ Fault
  /\ agent' = NoCall /\ pending' = NoResult
  /\ tuner' = NoTune /\ finishers' = {}
  /\ ran' = [c \in Cmd |-> 0]
  /\ UNCHANGED << kind, store, disk, executed, lateVars >>

\* The controller comes back with what is on disk, and the calls that were
\* under way are gone.
ControllerRestart ==
  /\ store' = disk /\ lateNext' = FALSE /\ lateResults' = {}
  /\ UNCHANGED << kind, disk, agentVars, faults >>

-----------------------------------------------------------------------------

NewStore == [status   |-> [c \in Cmd |-> "none"],
             leased   |-> [c \in Cmd |-> FALSE],
             shared   |-> FALSE,
             revision |-> 0]

Init ==
  /\ kind \in [Cmd -> Kinds]
  /\ store = NewStore /\ disk = NewStore
  /\ agent = NoCall /\ pending = NoResult
  /\ tuner = NoTune /\ finishers = {}
  /\ lateNext = FALSE /\ lateResults = {}
  /\ executed = [c \in Cmd |-> 0] /\ ran = [c \in Cmd |-> 0]
  /\ faults = 0

MainLoop ==
  \/ SubmitPending
  \/ \E c \in Cmd : \/ FetchNext(c) \/ Execute(c)
                    \/ AcceptSystem(c) \/ PerformSystem(c)
                    \/ StartTune(c) \/ RejectTune(c)

Tuning == DecideTune \/ PublishTune \/ \E f \in finishers : FinishTune(f)

Next ==
  \/ \E c \in Cmd : QueueCommand(c) \/ LeaseExpires(c)
  \/ ShareProfile
  \/ MainLoop
  \/ GiveUpFetch
  \/ Tuning
  \/ LateFetch
  \/ \E r \in lateResults : LateResult(r)
  \/ AgentRestart
  \/ ControllerRestart

Spec == Init /\ [][Next]_vars

\* The agent's tickers keep firing, its goroutines keep running and time
\* passes; nothing makes the operator queue or the network misbehave.
Fairness ==
  /\ WF_vars(MainLoop)
  /\ WF_vars(DecideTune) /\ WF_vars(PublishTune)
  /\ \A c \in Cmd : /\ WF_vars(LeaseExpires(c))
                    /\ WF_vars(\E f \in finishers : f.cmd = c /\ FinishTune(f))

FairSpec == Spec /\ Fairness

-----------------------------------------------------------------------------
(* Properties. *)

\* Every variable keeps to its values.
TypeOK ==
  /\ kind \in [Cmd -> Kinds]
  /\ store \in Store /\ disk \in Store
  /\ agent \in [phase : {"idle", "executing", "accepting", "acting", "starting"},
                cmd : Cmd \cup {None}]
  /\ agent.phase # "idle" => agent.cmd \in Cmd
  /\ pending \in Results \cup {NoResult}
  /\ tuner \in [cmd : Cmd \cup {None}, stage : {"idle", "tuning", "decided"},
                ok : BOOLEAN, cancelled : BOOLEAN]
  /\ tuner.stage # "idle" => tuner.cmd \in Cmd
  /\ finishers \subseteq [cmd : Cmd, ok : BOOLEAN, left : 1 .. MaxSubmits]
  /\ lateNext \in BOOLEAN
  /\ lateResults \subseteq Results
  /\ executed \in [Cmd -> 0 .. Many] /\ ran \in [Cmd -> 0 .. Many]
  /\ faults \in 0 .. MaxFaults

\* One agent process carries a command out at most once, whatever leases run
\* out and answers get lost meanwhile: pollCommand keeps the result of a
\* command until it is acknowledged and asks for nothing else before that.
\* (A smart tune, which runs beside the loop, may be tried again.)
OncePerProcess == \A c \in Cmd : kind[c] # "tune" => ran[c] <= 1

\* A reboot or shutdown is carried out at most once ever, restarts of the
\* agent included, and only after it has been recorded as complete on disk:
\* a rig does not reboot in a loop because a report got lost.
SystemActionOnce ==
  \A c \in Cmd : kind[c] = "system" /\ executed[c] > 0 =>
                   executed[c] = 1 /\ disk.status[c] = "complete"

\* A command the controller shows as complete has been carried out by the
\* rig at least once, late results and controller restarts included.
CompleteWasExecuted ==
  \A c \in Cmd : disk.status[c] = "complete" /\ kind[c] # "system" =>
                   executed[c] > 0

\* No result under way or kept by the agent is for a command that the
\* controller would refuse as "not running": pollCommand, which asks for no
\* other command while a result is pending, cannot get stuck on one.
ResultsAreAccepted ==
  LET held == lateResults \cup ({pending} \ {NoResult})
                 \cup {Result(f.cmd, f.ok) : f \in finishers}
  IN  \A r \in held : /\ store.status[r.cmd] \in {"running"} \cup Final
                      /\ disk.status[r.cmd] \in {"running"} \cup Final

\* A finished command keeps its outcome through duplicated results, refused
\* saves and controller restarts.
FinalIsFinal ==
  [][\A c \in Cmd : store.status[c] \in Final =>
                      store'.status[c] = store.status[c]]_vars

\* However often a smart tune is delivered, run and reported, its settings
\* reach the profile (and advance the rig's revision) once.
TunedOnce ==
  store.revision =
    Cardinality({c \in Cmd : kind[c] = "tune" /\ store.status[c] = "complete"})

\* As long as no call fails and nothing restarts, commands are carried out in
\* the order in which they were queued, even when they outlive their lease.
InOrderWithoutFaults ==
  faults = 0 /\ agent.phase # "idle" =>
    \A d \in Cmd : d < agent.cmd =>
      \/ store.status[d] \in Final
      \/ kind[d] = "tune" /\ executed[d] > 0

\* Every queued command is eventually finished.
EveryCommandFinishes ==
  \A c \in Cmd : store.status[c] = "pending" ~> store.status[c] \in Final

\* stop-smart-tune answers "Smart tune cancellation requested; original power
\* limits will be restored.": a run that was cancelled so keeps nothing.
CancelRestores == tuner.cancelled /\ tuner.stage = "decided" => ~tuner.ok

-----------------------------------------------------------------------------
(* What has to hold besides for these to be preserved by every step. *)

Issued(c) == store.status[c] \in {"running"} \cup Final

\* Between two handlers the store is what is on disk.
Durable == store = disk

\* The command in pollCommand's hands has been leased, and only a system
\* action that was never carried out waits to be accepted or performed.
CallInv ==
  agent.phase # "idle" =>
    /\ Issued(agent.cmd)
    /\ pending = NoResult
    /\ agent.phase = "executing" => kind[agent.cmd] \in {"ordinary", "cancel"}
                                    /\ ran[agent.cmd] = 0
    /\ agent.phase = "starting"  => kind[agent.cmd] = "tune"
    /\ agent.phase = "accepting" => kind[agent.cmd] = "system"
                                    /\ executed[agent.cmd] = 0
    /\ agent.phase = "acting"    => kind[agent.cmd] = "system"
                                    /\ executed[agent.cmd] = 0
                                    /\ store.status[agent.cmd] = "complete"

SystemInv ==
  \A c \in Cmd : kind[c] = "system" =>
    /\ store.status[c] # "failed"
    /\ executed[c] > 0 => executed[c] = 1 /\ store.status[c] = "complete"

\* What may be reported about a command, by whoever reports it.
Reportable(r) ==
  /\ Issued(r.cmd)
  /\ kind[r.cmd] = "system" => r.ok
  /\ kind[r.cmd] # "system" /\ r.ok => executed[r.cmd] > 0

HeldInv ==
  /\ \A r \in lateResults : Reportable(r)
  /\ pending # NoResult => Reportable(pending) /\ kind[pending.cmd] \in {"ordinary", "cancel"}
  /\ \A f \in finishers : Reportable(Result(f.cmd, f.ok)) /\ kind[f.cmd] = "tune"
  /\ tuner.stage # "idle" => /\ kind[tuner.cmd] = "tune" /\ Issued(tuner.cmd)
                             /\ executed[tuner.cmd] > 0

\* What this process has carried out is finished or still to be reported.
ProcessInv ==
  \A c \in Cmd : ran[c] > 0 =>
    /\ ran[c] <= executed[c]
    /\ kind[c] \in {"ordinary", "cancel"} =>
         /\ ran[c] = 1
         /\ store.status[c] \in Final \/ pending.cmd = c

Inductive == /\ TypeOK /\ Durable /\ CallInv /\ SystemInv
             /\ CompleteWasExecuted /\ HeldInv /\ ProcessInv

\* The durable state and the history implement CommandLife.
Life == INSTANCE CommandLife WITH status <- disk.status, runs <- executed
ImplementsLife == Life!LifeSpec

=============================================================================
