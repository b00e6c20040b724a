----------------------- MODULE CommandDeliveryProofs -----------------------
(***************************************************************************)
(* Proofs about CommandDelivery for any number of commands, submission     *)
(* attempts and faults: the inductive invariant, the safety properties     *)
(* that follow from it, that a tune is applied once, the order of commands *)
(* without faults, and the refinement of CommandLife.                      *)
(***************************************************************************)
EXTENDS CommandDelivery, FiniteSetTheorems, TLAPS

USE DEF Cmd, None, Many

(***************************************************************************)
(* What a handler makes of a well-formed store.                            *)
(***************************************************************************)

\* NextCommand touches the status and the lease of one command.
LEMMA LeasedStore ==
  ASSUME NEW s \in Store, NEW c \in Cmd
  PROVE  /\ Leased(s, c) \in Store
         /\ Leased(s, c).status = [s.status EXCEPT ![c] = "running"]
         /\ Leased(s, c).shared = s.shared
  BY DEF Leased, Store, Status, Final

\* FinishCommandResult makes one command final, successful only if the
\* result was, and failed only if the result was not or it was a smart tune.
LEMMA FinishedStore ==
  ASSUME NEW s \in Store, NEW r \in Results, kind \in [Cmd -> Kinds]
  PROVE  /\ Finished(s, r) \in Store
         /\ Finished(s, r).status =
              [s.status EXCEPT ![r.cmd] = IF Succeeds(s, r) THEN "complete"
                                                            ELSE "failed"]
  <1>1. Succeeds(s, r) \in BOOLEAN /\ Applies(s, r) \in BOOLEAN
    BY DEF Succeeds, Applies, Store, Results
  <1>2. s.revision \in Nat /\ s.revision + 1 \in Nat
    BY DEF Store
  <1>. QED
    BY <1>1, <1>2 DEF Finished, Store, Status, Final, Results

\* What reporting a result can do, delivered or not.
LEMMA Reporting ==
  ASSUME TypeOK, Durable, NEW r \in Results,
         Acknowledged(r) \/ CallFails(r)
  PROVE  /\ store' = disk' /\ store' \in Store
         /\ \A d \in Cmd : d # r.cmd => store'.status[d] = store.status[d]
         /\ \/ store'.status[r.cmd] = store.status[r.cmd]
            \/ /\ store.status[r.cmd] = "running"
               /\ \/ store'.status[r.cmd] = "complete" /\ r.ok
                  \/ /\ store'.status[r.cmd] = "failed"
                     /\ ~r.ok \/ kind[r.cmd] = "tune"
         /\ Acknowledged(r) => store'.status[r.cmd] \in Final
         /\ lateResults' \subseteq lateResults \cup {r}
         /\ lateNext' = lateNext
         /\ faults' \in 0 .. MaxFaults
  <1>. DEFINE Change(s) ==
         /\ s \in Store
         /\ \A d \in Cmd : d # r.cmd => s.status[d] = store.status[d]
         /\ \/ s.status[r.cmd] = store.status[r.cmd]
            \/ /\ store.status[r.cmd] = "running"
               /\ \/ s.status[r.cmd] = "complete" /\ r.ok
                  \/ /\ s.status[r.cmd] = "failed"
                     /\ ~r.ok \/ kind[r.cmd] = "tune"
  <1>1. store \in Store /\ store = disk /\ r.cmd \in Cmd
    BY DEF TypeOK, Durable, Results
  <1>2. Change(store)
    BY <1>1
  <1>3. store.status[r.cmd] = "running" =>
          Change(Finished(store, r)) /\ Finished(store, r).status[r.cmd] \in Final
    <2>1. kind \in [Cmd -> Kinds] /\ store.status \in [Cmd -> Status]
      BY DEF TypeOK, Store
    <2>2. /\ Finished(store, r) \in Store
          /\ Finished(store, r).status =
               [store.status EXCEPT ![r.cmd] = IF Succeeds(store, r) THEN "complete"
                                                                     ELSE "failed"]
      BY <1>1, <2>1, FinishedStore
    <2>. QED
      BY <1>1, <2>1, <2>2 DEF Succeeds, Final
  <1>4. faults' \in 0 .. MaxFaults
    BY MaxFaultsAssumption DEF Acknowledged, CallFails, Fault, NoFault, TypeOK
  <1>5. CASE Acknowledged(r)
    BY <1>1, <1>2, <1>3, <1>4, <1>5 DEF Acknowledged, NotReached, Saved, lateVars
  <1>6. CASE CallFails(r)
    <2>1. store' = disk' /\ Change(store')
      BY <1>1, <1>2, <1>3, <1>6 DEF CallFails, NotReached, Saved, SaveFailed
    <2>2. lateResults' \subseteq lateResults \cup {r} /\ lateNext' = lateNext
      BY <1>6 DEF CallFails, lateVars
    <2>3. Acknowledged(r) => store'.status[r.cmd] \in Final
      BY <1>1, <1>3 DEF Acknowledged, NotReached, Saved
    <2>. QED
      BY <1>4, <2>1, <2>2, <2>3
  <1>. QED
    BY <1>5, <1>6

(***************************************************************************)
(* The steps of the agent that involve no handler, one conjunct at a time. *)
(***************************************************************************)

LEMMA ExecuteStep ==
  ASSUME Inductive, NEW c \in Cmd, Execute(c)
  PROVE  Inductive'
  <1>. USE MaxFaultsAssumption, MaxSubmitsAssumption DEF Inductive
  <1>1. TypeOK'
    <2>1. tuner' \in [cmd : Cmd \cup {None}, stage : {"idle", "tuning", "decided"},
                      ok : BOOLEAN, cancelled : BOOLEAN]
          /\ tuner'.stage = tuner.stage /\ tuner'.cmd = tuner.cmd
      BY DEF TypeOK, Execute
    <2>2. pending' \in Results
      BY DEF Execute, Results, Result
    <2>. QED
      BY <2>1, <2>2 DEF TypeOK, NoCall, Execute, Counted, Again, lateVars
  <1>2. Durable'
    BY DEF Durable, Execute
  <1>3. CallInv'
    BY DEF CallInv, NoCall, Execute
  <1>4. SystemInv'
    BY DEF SystemInv, Execute, Counted, CallInv
  <1>5. CompleteWasExecuted'
    BY DEF CompleteWasExecuted, TypeOK, Execute, Counted, Again
  <1>6. HeldInv'
    BY DEF HeldInv, Reportable, Issued, Result, TypeOK, Execute, Counted, Again, lateVars, CallInv
  <1>7. ProcessInv'
    BY DEF ProcessInv, Result, NoResult, TypeOK, Execute, Counted, Again, CallInv
  <1>. QED
    BY <1>1, <1>2, <1>3, <1>4, <1>5, <1>6, <1>7

LEMMA PerformSystemStep ==
  ASSUME Inductive, NEW c \in Cmd, PerformSystem(c)
  PROVE  Inductive'
  <1>. USE MaxFaultsAssumption, MaxSubmitsAssumption DEF Inductive
  <1>1. TypeOK'
    BY DEF TypeOK, Results, Result, NoResult, NoCall, NoTune, PerformSystem, Counted, Again, lateVars, CallInv, Issued
  <1>2. Durable'
    BY DEF Durable, TypeOK, Store, PerformSystem, Counted, Again, lateVars, CallInv, NoResult, Issued, Final
  <1>3. CallInv'
    BY DEF CallInv, Issued, Final, Result, NoResult, NoCall, TypeOK, Store, PerformSystem, Counted, Again, lateVars
  <1>4. SystemInv'
    BY DEF SystemInv, Final, Result, TypeOK, Store, PerformSystem, Counted, Again, lateVars, CallInv, NoResult, Issued
  <1>5. CompleteWasExecuted'
    BY DEF CompleteWasExecuted, TypeOK, Store, PerformSystem, Counted, Again, lateVars, CallInv, NoResult, Issued, Final
  <1>6. HeldInv'
    BY DEF HeldInv, Reportable, Issued, Final, Result, NoResult, NoTune, TypeOK, Store, PerformSystem, Counted, Again, lateVars, CallInv
  <1>7. ProcessInv'
    BY DEF ProcessInv, Final, Result, NoResult, TypeOK, Store, PerformSystem, Counted, Again, lateVars, CallInv, Issued
  <1>. QED
    BY <1>1, <1>2, <1>3, <1>4, <1>5, <1>6, <1>7

LEMMA StartTuneStep ==
  ASSUME Inductive, NEW c \in Cmd, StartTune(c)
  PROVE  Inductive'
  <1>. USE MaxFaultsAssumption, MaxSubmitsAssumption DEF Inductive
  <1>1. TypeOK'
    BY DEF TypeOK, Store, Status, Final, Kinds, Results, Result, NoResult, NoCall, NoTune, StartTune, Counted, Again, lateVars, CallInv, Issued
  <1>2. Durable'
    BY DEF Durable, TypeOK, Store, StartTune, Counted, Again, lateVars, CallInv, NoResult, Issued, Final
  <1>3. CallInv'
    BY DEF CallInv, Issued, Final, Result, NoResult, NoCall, TypeOK, Store, StartTune, Counted, Again, lateVars
  <1>4. SystemInv'
    BY DEF SystemInv, Final, Result, TypeOK, Store, StartTune, Counted, Again, lateVars, CallInv, NoResult, Issued
  <1>5. CompleteWasExecuted'
    BY DEF CompleteWasExecuted, TypeOK, Store, StartTune, Counted, Again, lateVars, CallInv, NoResult, Issued, Final
  <1>6. HeldInv'
    BY DEF HeldInv, Reportable, Issued, Final, Result, NoResult, NoTune, TypeOK, Store, StartTune, Counted, Again, lateVars, CallInv
  <1>7. ProcessInv'
    BY DEF ProcessInv, Final, Result, NoResult, TypeOK, Store, StartTune, Counted, Again, lateVars, CallInv, Issued
  <1>. QED
    BY <1>1, <1>2, <1>3, <1>4, <1>5, <1>6, <1>7

LEMMA DecideTuneStep ==
  ASSUME Inductive, DecideTune
  PROVE  Inductive'
  <1>. USE MaxFaultsAssumption, MaxSubmitsAssumption DEF Inductive
  <1>1. TypeOK'
    BY DEF TypeOK, Store, Status, Final, Kinds, Results, Result, NoResult, NoCall, NoTune, DecideTune, lateVars
  <1>2. Durable'
    BY DEF Durable, TypeOK, Store, DecideTune, lateVars
  <1>3. CallInv'
    BY DEF CallInv, Issued, Final, Result, NoResult, NoCall, TypeOK, Store, DecideTune, lateVars
  <1>4. SystemInv'
    BY DEF SystemInv, Final, Result, TypeOK, Store, DecideTune, lateVars
  <1>5. CompleteWasExecuted'
    BY DEF CompleteWasExecuted, TypeOK, Store, DecideTune, lateVars
  <1>6. HeldInv'
    BY DEF HeldInv, Reportable, Issued, Final, Result, NoResult, NoTune, TypeOK, Store, DecideTune, lateVars
  <1>7. ProcessInv'
    BY DEF ProcessInv, Final, Result, NoResult, TypeOK, Store, DecideTune, lateVars
  <1>. QED
    BY <1>1, <1>2, <1>3, <1>4, <1>5, <1>6, <1>7

LEMMA PublishTuneStep ==
  ASSUME Inductive, PublishTune
  PROVE  Inductive'
  <1>. USE MaxFaultsAssumption, MaxSubmitsAssumption DEF Inductive
  <1>1. TypeOK'
    BY DEF TypeOK, Store, Status, Final, Kinds, Results, Result, NoResult, NoCall, NoTune, PublishTune, lateVars
  <1>2. Durable'
    BY DEF Durable, TypeOK, Store, PublishTune, lateVars
  <1>3. CallInv'
    BY DEF CallInv, Issued, Final, Result, NoResult, NoCall, TypeOK, Store, PublishTune, lateVars
  <1>4. SystemInv'
    BY DEF SystemInv, Final, Result, TypeOK, Store, PublishTune, lateVars
  <1>5. CompleteWasExecuted'
    BY DEF CompleteWasExecuted, TypeOK, Store, PublishTune, lateVars
  <1>6. HeldInv'
    BY DEF HeldInv, Reportable, Issued, Final, Result, NoResult, NoTune, TypeOK, Store, PublishTune, lateVars
  <1>7. ProcessInv'
    BY DEF ProcessInv, Final, Result, NoResult, TypeOK, Store, PublishTune, lateVars
  <1>. QED
    BY <1>1, <1>2, <1>3, <1>4, <1>5, <1>6, <1>7

LEMMA AgentRestartStep ==
  ASSUME Inductive, AgentRestart
  PROVE  Inductive'
  <1>. USE MaxFaultsAssumption, MaxSubmitsAssumption DEF Inductive
  <1>1. TypeOK'
    BY DEF TypeOK, Store, Status, Final, Kinds, Results, Result, NoResult, NoCall, NoTune, AgentRestart, Fault, lateVars
  <1>2. Durable'
    BY DEF Durable, TypeOK, Store, AgentRestart, Fault, lateVars
  <1>3. CallInv'
    BY DEF CallInv, Issued, Final, Result, NoResult, NoCall, TypeOK, Store, AgentRestart, Fault, lateVars
  <1>4. SystemInv'
    BY DEF SystemInv, Final, Result, TypeOK, Store, AgentRestart, Fault, lateVars
  <1>5. CompleteWasExecuted'
    BY DEF CompleteWasExecuted, TypeOK, Store, AgentRestart, Fault, lateVars
  <1>6. HeldInv'
    BY DEF HeldInv, Reportable, Issued, Final, Result, NoResult, NoTune, TypeOK, Store, AgentRestart, Fault, lateVars
  <1>7. ProcessInv'
    BY DEF ProcessInv, Final, Result, NoResult, TypeOK, Store, AgentRestart, Fault, lateVars
  <1>. QED
    BY <1>1, <1>2, <1>3, <1>4, <1>5, <1>6, <1>7

(***************************************************************************)
(* The handlers of the controller: what all of them keep of the invariant, *)
(* and that nothing else is needed where the agent only notes the answer.  *)
(***************************************************************************)

Calls == [phase : {"idle", "executing", "accepting", "acting", "starting"},
          cmd : Cmd \cup {None}]
Finishers == [cmd : Cmd, ok : BOOLEAN, left : 1 .. MaxSubmits]

Kept ==
  /\ Durable' /\ SystemInv' /\ CompleteWasExecuted'
  /\ \A x \in lateResults' : Reportable(x)'
  /\ \A d \in Cmd : Issued(d) => Issued(d)'
  /\ \A d \in Cmd : store.status[d] \in Final => store'.status[d] = store.status[d]
  /\ \A x \in Results : Reportable(x) => Reportable(x)'
  /\ store' \in Store /\ disk' \in Store
  /\ lateResults' \subseteq Results /\ lateNext' \in BOOLEAN
  /\ faults' \in 0 .. MaxFaults

\* The agent's part of the invariant, after a handler that the agent learns
\* from at most that its pending result has been recorded.
LEMMA HandlerStep ==
  ASSUME Inductive, Kept, UNCHANGED << kind, tuner, executed, ran >>,
         CallInv', agent' \in Calls, agent'.phase # "idle" => agent'.cmd \in Cmd,
         \/ pending' = pending
         \/ pending' = NoResult /\ store'.status[pending.cmd] \in Final,
         finishers' \subseteq Finishers,
         \A g \in finishers' : \E h \in finishers : g.cmd = h.cmd /\ g.ok = h.ok
  PROVE  Inductive'
  <1>1. TypeOK'
    BY DEF Inductive, TypeOK, Kept, Calls, Finishers
  <1>2. HeldInv'
    <2>1. \A g \in finishers' : Reportable(Result(g.cmd, g.ok))' /\ kind'[g.cmd] = "tune"
      <3>1. \A h \in finishers : /\ Result(h.cmd, h.ok) \in Results
                                 /\ Reportable(Result(h.cmd, h.ok)) /\ kind[h.cmd] = "tune"
        BY DEF Inductive, TypeOK, HeldInv, Result, Results
      <3>. QED
        BY <3>1 DEF Kept
    <2>2. pending' # NoResult =>
            Reportable(pending)' /\ kind'[pending'.cmd] \in {"ordinary", "cancel"}
      <3>1. SUFFICES ASSUME pending' # NoResult
                     PROVE  Reportable(pending)' /\ kind'[pending'.cmd] \in {"ordinary", "cancel"}
        OBVIOUS
      <3>2. /\ pending' = pending /\ pending \in Results
            /\ Reportable(pending) /\ kind[pending.cmd] \in {"ordinary", "cancel"}
        BY <3>1 DEF Inductive, TypeOK, HeldInv
      <3>. QED
        BY <3>2 DEF Kept
    <2>3. tuner'.stage # "idle" => /\ kind'[tuner'.cmd] = "tune" /\ Issued(tuner.cmd)'
                                   /\ executed'[tuner'.cmd] > 0
      <3>1. tuner.stage # "idle" => /\ tuner.cmd \in Cmd /\ kind[tuner.cmd] = "tune"
                                    /\ Issued(tuner.cmd) /\ executed[tuner.cmd] > 0
        BY DEF Inductive, TypeOK, HeldInv
      <3>2. tuner.stage # "idle" => Issued(tuner.cmd)'
        BY <3>1 DEF Kept, Issued
      <3>. QED
        BY <3>1, <3>2
    <2>. QED
      BY <2>1, <2>2, <2>3 DEF HeldInv, Kept
  <1>3. ProcessInv'
    BY DEF Inductive, ProcessInv, Kept, Final, NoResult
  <1>. QED
    BY <1>1, <1>2, <1>3 DEF Inductive, Kept

\* An agent that goes on with its call, or ends it, needs nothing else.
LEMMA CallKept ==
  ASSUME Inductive, Kept, UNCHANGED << kind, executed, ran >>,
         agent' \in {agent, NoCall}, pending' \in {pending, NoResult}
  PROVE  /\ CallInv' /\ agent' \in Calls
         /\ agent'.phase # "idle" => agent'.cmd \in Cmd
  <1>1. agent \in Calls /\ (agent.phase # "idle" => agent.cmd \in Cmd) /\ NoCall \in Calls
    BY DEF Inductive, TypeOK, Calls, NoCall
  <1>2. agent.phase # "idle" =>
          /\ Issued(agent.cmd)' \/ agent' # agent
          /\ store.status[agent.cmd] = "complete" => store'.status[agent.cmd] = "complete"
    BY <1>1 DEF Inductive, CallInv, Kept, Final, Issued
  <1>. QED
    BY <1>1, <1>2 DEF Inductive, CallInv, NoCall

(***************************************************************************)
(* Reporting a result that may be reported.                                *)
(***************************************************************************)

LEMMA ReportingPreserves ==
  ASSUME Inductive, NEW r \in Results, Reportable(r),
         Acknowledged(r) \/ CallFails(r),
         UNCHANGED << kind, executed >>
  PROVE  Kept /\ (Acknowledged(r) => store'.status[r.cmd] \in Final)
  <1>. USE DEF Inductive
  <1>1. /\ store' = disk' /\ store' \in Store
        /\ \A d \in Cmd : d # r.cmd => store'.status[d] = store.status[d]
        /\ \/ store'.status[r.cmd] = store.status[r.cmd]
           \/ /\ store.status[r.cmd] = "running"
              /\ \/ store'.status[r.cmd] = "complete" /\ r.ok
                 \/ /\ store'.status[r.cmd] = "failed"
                    /\ ~r.ok \/ kind[r.cmd] = "tune"
        /\ Acknowledged(r) => store'.status[r.cmd] \in Final
        /\ lateResults' \subseteq lateResults \cup {r}
        /\ lateNext' = lateNext
        /\ faults' \in 0 .. MaxFaults
    BY Reporting
  <1>2. r.cmd \in Cmd /\ lateResults \subseteq Results /\ store = disk
    BY DEF TypeOK, Results, Durable
  <1>3. Durable'
    BY <1>1 DEF Durable
  <1>4. SystemInv'
    BY <1>1, <1>2 DEF SystemInv, Reportable
  <1>5. CompleteWasExecuted'
    BY <1>1, <1>2 DEF CompleteWasExecuted, Reportable
  <1>6. \A c \in Cmd : /\ Issued(c) => Issued(c)'
                       /\ store.status[c] \in Final => store'.status[c] = store.status[c]
    BY <1>1, <1>2 DEF Issued, Final
  <1>7. \A x \in Results : Reportable(x) => Reportable(x)'
    BY <1>6 DEF Reportable, Results
  <1>8. \A x \in lateResults' : Reportable(x)'
    BY <1>1, <1>2, <1>7 DEF HeldInv
  <1>. QED
    BY <1>1, <1>2, <1>3, <1>4, <1>5, <1>6, <1>7, <1>8 DEF TypeOK, Kept

LEMMA SubmitPendingStep ==
  ASSUME Inductive, SubmitPending
  PROVE  Inductive'
  <1>1. pending \in Results /\ Reportable(pending)
    BY DEF Inductive, SubmitPending, HeldInv, TypeOK
  <1>2. Kept /\ (Acknowledged(pending) => store'.status[pending.cmd] \in Final)
    BY <1>1, ReportingPreserves DEF SubmitPending
  <1>3. UNCHANGED << kind, agent, tuner, finishers, executed, ran >>
        /\ (pending' = pending \/ (pending' = NoResult /\ Acknowledged(pending)))
    BY DEF SubmitPending
  <1>4. finishers \subseteq Finishers
    BY DEF Inductive, TypeOK, Finishers
  <1>. QED
    BY <1>2, <1>3, <1>4, CallKept, HandlerStep

LEMMA AcceptSystemStep ==
  ASSUME Inductive, NEW c \in Cmd, AcceptSystem(c)
  PROVE  Inductive'
  <1>. DEFINE r == Result(c, TRUE)
  <1>1. r \in Results /\ Reportable(r) /\ r.cmd = c
    BY DEF Inductive, AcceptSystem, CallInv, Reportable, Result, Results
  <1>2. Kept /\ (Acknowledged(r) => store'.status[c] \in Final)
    BY <1>1, ReportingPreserves DEF AcceptSystem
  <1>3. UNCHANGED << kind, pending, tuner, finishers, executed, ran >>
    BY DEF AcceptSystem
  <1>4. finishers \subseteq Finishers
    BY DEF Inductive, TypeOK, Finishers
  <1>5. CallInv' /\ agent' \in Calls /\ (agent'.phase # "idle" => agent'.cmd \in Cmd)
    <2>1. CASE agent' = NoCall
      BY <1>2, <1>3, <2>1, CallKept
    <2>2. CASE agent' = [phase |-> "acting", cmd |-> c] /\ Acknowledged(r)
      <3>1. pending = NoResult /\ kind[c] = "system" /\ executed[c] = 0
        BY DEF Inductive, CallInv, AcceptSystem
      <3>2. store'.status[c] = "complete"
        BY <1>2, <1>3, <2>2, <3>1 DEF Kept, SystemInv, Final
      <3>. QED
        BY <1>3, <2>2, <3>1, <3>2 DEF CallInv, Calls, Issued, Final
    <2>. QED
      BY <2>1, <2>2 DEF AcceptSystem
  <1>. QED
    BY <1>2, <1>3, <1>4, <1>5, HandlerStep

LEMMA RejectTuneStep ==
  ASSUME Inductive, NEW c \in Cmd, RejectTune(c)
  PROVE  Inductive'
  <1>. DEFINE r == Result(c, FALSE)
  <1>1. r \in Results /\ Reportable(r)
    BY DEF Inductive, RejectTune, CallInv, Reportable, Result, Results
  <1>2. Kept
    BY <1>1, ReportingPreserves DEF RejectTune
  <1>3. UNCHANGED << kind, pending, tuner, finishers, executed, ran >> /\ agent' = NoCall
    BY DEF RejectTune
  <1>4. finishers \subseteq Finishers
    BY DEF Inductive, TypeOK, Finishers
  <1>. QED
    BY <1>2, <1>3, <1>4, CallKept, HandlerStep

LEMMA FinishTuneStep ==
  ASSUME Inductive, NEW f \in finishers, FinishTune(f)
  PROVE  Inductive'
  <1>. DEFINE r == Result(f.cmd, f.ok)
  <1>1. r \in Results /\ Reportable(r)
    BY DEF Inductive, TypeOK, HeldInv, Result, Results
  <1>2. Kept
    BY <1>1, ReportingPreserves DEF FinishTune
  <1>3. UNCHANGED << kind, agent, pending, tuner, executed, ran >>
    BY DEF FinishTune
  <1>4. /\ finishers' \subseteq Finishers
        /\ \A g \in finishers' : \E h \in finishers : g.cmd = h.cmd /\ g.ok = h.ok
    <2>1. finishers \subseteq Finishers /\ f.left \in Nat
      BY DEF Inductive, TypeOK, Finishers
    <2>2. f.left > 1 =>
            LET g == [f EXCEPT !.left = @ - 1]
            IN  g \in Finishers /\ g.cmd = f.cmd /\ g.ok = f.ok
      BY <2>1, MaxSubmitsAssumption DEF Finishers
    <2>. QED
      BY <2>1, <2>2 DEF FinishTune
  <1>. QED
    BY <1>2, <1>3, <1>4, CallKept, HandlerStep

(***************************************************************************)
(* The other handlers: no result is involved, so that what may be reported *)
(* follows from the statuses alone.                                        *)
(***************************************************************************)

\* A command that is queued, leased or finished as it may be reported.
LEMMA StatusKept ==
  ASSUME Inductive, UNCHANGED << kind, executed >>,
         store' = disk', store' \in Store,
         lateResults' \subseteq lateResults, lateNext' \in BOOLEAN,
         faults' \in 0 .. MaxFaults,
         \A d \in Cmd : \/ store'.status[d] = store.status[d]
                        \/ ~Issued(d) /\ store'.status[d] = "pending"
                        \/ store.status[d] \in {"pending", "running"}
                           /\ store'.status[d] = "running"
                        \/ /\ store.status[d] = "running"
                           /\ \E r \in lateResults :
                                /\ r.cmd = d
                                /\ \/ store'.status[d] = "complete" /\ r.ok
                                   \/ store'.status[d] = "failed" /\ (~r.ok \/ kind[d] = "tune")
  PROVE  Kept
  <1>1. lateResults \subseteq Results /\ store = disk
    BY DEF Inductive, TypeOK, Durable
  <1>2. \A d \in Cmd : /\ Issued(d) => Issued(d)'
                       /\ store.status[d] \in Final => store'.status[d] = store.status[d]
    BY DEF Issued, Final
  <1>3. SystemInv'
    BY <1>1 DEF Inductive, SystemInv, HeldInv, Reportable, Issued, Final
  <1>4. CompleteWasExecuted'
    BY <1>1 DEF Inductive, CompleteWasExecuted, HeldInv, Reportable
  <1>5. \A x \in Results : Reportable(x) => Reportable(x)'
    BY <1>2 DEF Reportable, Results
  <1>6. \A x \in lateResults' : Reportable(x)'
    BY <1>1, <1>5 DEF Inductive, HeldInv
  <1>. QED
    BY <1>1, <1>2, <1>3, <1>4, <1>5, <1>6 DEF Kept, Durable

\* Where the agent is not involved at all.
LEMMA AgentUntouched ==
  ASSUME Inductive, Kept, UNCHANGED << kind, agentVars >>
  PROVE  Inductive'
  <1>1. UNCHANGED << kind, agent, pending, tuner, finishers, executed, ran >>
    BY DEF agentVars
  <1>2. finishers \subseteq Finishers
    BY DEF Inductive, TypeOK, Finishers
  <1>. QED
    BY <1>1, <1>2, CallKept, HandlerStep

\* A poll given up leaves a call under way, and nothing else.
LEMMA GiveUpFetchStep ==
  ASSUME Inductive, GiveUpFetch
  PROVE  Inductive'
  <1>1. store \in Store /\ store = disk /\ faults' \in 0 .. MaxFaults
    BY MaxFaultsAssumption DEF Inductive, TypeOK, Durable, GiveUpFetch, Fault
  <1>2. Kept
    BY <1>1, StatusKept DEF GiveUpFetch, NotReached, agentVars
  <1>. QED
    BY <1>2, AgentUntouched DEF GiveUpFetch

LEMMA ControllerRestartStep ==
  ASSUME Inductive, ControllerRestart
  PROVE  Inductive'
  <1>1. store \in Store /\ store = disk /\ faults \in 0 .. MaxFaults
    BY DEF Inductive, TypeOK, Durable
  <1>2. Kept
    BY <1>1, StatusKept DEF ControllerRestart, agentVars
  <1>. QED
    BY <1>2, AgentUntouched DEF ControllerRestart

LEMMA LateResultStep ==
  ASSUME Inductive, NEW r \in lateResults, LateResult(r)
  PROVE  Inductive'
  <1>1. r \in Results /\ r.cmd \in Cmd /\ kind \in [Cmd -> Kinds]
        /\ store \in Store /\ store = disk /\ store.status \in [Cmd -> Status]
    BY DEF Inductive, TypeOK, Durable, Store, Results
  <1>2. /\ Finished(store, r) \in Store
        /\ Finished(store, r).status =
             [store.status EXCEPT ![r.cmd] = IF Succeeds(store, r) THEN "complete"
                                                                   ELSE "failed"]
    BY <1>1, FinishedStore
  <1>3. Kept
    <2>1. UNCHANGED << kind, executed, lateNext, faults >> /\ lateResults' \subseteq lateResults
      BY DEF LateResult, agentVars
    <2>2. lateNext \in BOOLEAN /\ faults \in 0 .. MaxFaults
      BY DEF Inductive, TypeOK
    <2>3. CASE store.status[r.cmd] = "running" /\ Saved(Finished(store, r))
      BY <1>1, <1>2, <2>1, <2>2, <2>3, StatusKept DEF Saved, Succeeds
    <2>4. CASE NotReached
      BY <1>1, <2>1, <2>2, <2>4, StatusKept DEF NotReached
    <2>. QED
      BY <2>3, <2>4 DEF LateResult
  <1>. QED
    BY <1>3, AgentUntouched DEF LateResult

LEMMA QueueCommandStep ==
  ASSUME Inductive, NEW c \in Cmd, QueueCommand(c)
  PROVE  Inductive'
  <1>1. store \in Store /\ store = disk /\ store.status \in [Cmd -> Status]
        /\ lateNext \in BOOLEAN /\ faults \in 0 .. MaxFaults /\ lateResults \subseteq Results
    BY DEF Inductive, TypeOK, Durable, Store
  <1>2. /\ [store EXCEPT !.status[c] = "pending"] \in Store
        /\ [store EXCEPT !.status[c] = "pending"].status = [store.status EXCEPT ![c] = "pending"]
    BY <1>1 DEF Store, Status
  <1>3. Kept
    <2>1. UNCHANGED << kind, executed, lateNext, lateResults >> /\ ~Issued(c)
      BY DEF QueueCommand, agentVars, lateVars, Issued, Final
    <2>2. faults' \in 0 .. MaxFaults
      BY <1>1, MaxFaultsAssumption DEF QueueCommand, Fault, NoFault
    <2>3. CASE Saved([store EXCEPT !.status[c] = "pending"])
      BY <1>1, <1>2, <2>1, <2>2, <2>3, StatusKept DEF Saved
    <2>4. CASE SaveFailed
      BY <1>1, <2>1, <2>2, <2>4, StatusKept DEF SaveFailed
    <2>. QED
      BY <2>3, <2>4 DEF QueueCommand
  <1>. QED
    BY <1>3, AgentUntouched DEF QueueCommand

LEMMA ShareProfileStep ==
  ASSUME Inductive, ShareProfile
  PROVE  Inductive'
  <1>1. store \in Store /\ lateNext \in BOOLEAN /\ faults \in 0 .. MaxFaults
    BY DEF Inductive, TypeOK
  <1>2. /\ [store EXCEPT !.shared = ~@] \in Store
        /\ [store EXCEPT !.shared = ~@].status = store.status
    BY <1>1 DEF Store
  <1>3. Kept
    BY <1>1, <1>2, StatusKept DEF ShareProfile, Saved, agentVars, lateVars
  <1>. QED
    BY <1>3, AgentUntouched DEF ShareProfile

LEMMA LeaseExpiresStep ==
  ASSUME Inductive, NEW c \in Cmd, LeaseExpires(c)
  PROVE  Inductive'
  <1>1. store \in Store /\ store = disk /\ lateNext \in BOOLEAN /\ faults \in 0 .. MaxFaults
    BY DEF Inductive, TypeOK, Durable
  <1>2. /\ [store EXCEPT !.leased[c] = FALSE] \in Store
        /\ [store EXCEPT !.leased[c] = FALSE].status = store.status
    BY <1>1 DEF Store
  <1>3. Kept
    BY <1>1, <1>2, StatusKept DEF LeaseExpires, agentVars, lateVars
  <1>. QED
    BY <1>3, AgentUntouched DEF LeaseExpires

\* Leasing the next command.
LEMMA LeasedKept ==
  ASSUME Inductive, NEW c \in Cmd, NextInLine(c), Saved(Leased(store, c)),
         UNCHANGED << kind, executed, lateResults >>,
         lateNext' \in BOOLEAN, faults' \in 0 .. MaxFaults
  PROVE  Kept /\ store'.status[c] = "running"
  <1>1. store \in Store /\ store.status \in [Cmd -> Status]
        /\ store.status[c] \in {"pending", "running"}
    BY DEF Inductive, TypeOK, Store, NextInLine, CanLease
  <1>2. store' \in Store /\ store' = disk'
        /\ store'.status = [store.status EXCEPT ![c] = "running"]
    BY <1>1, LeasedStore DEF Saved
  <1>. QED
    BY <1>1, <1>2, StatusKept

LEMMA LateFetchStep ==
  ASSUME Inductive, LateFetch
  PROVE  Inductive'
  <1>1. /\ UNCHANGED << kind, agentVars, lateResults, faults >>
        /\ UNCHANGED executed /\ lateNext' = FALSE
        /\ store \in Store /\ store = disk /\ faults \in 0 .. MaxFaults
    BY DEF LateFetch, agentVars, Inductive, TypeOK, Durable
  <1>2. CASE \E c \in Cmd : NextInLine(c) /\ Saved(Leased(store, c))
    <2>1. Kept
      BY <1>1, <1>2, LeasedKept
    <2>. QED
      BY <1>1, <2>1, AgentUntouched
  <1>3. CASE NotReached
    <2>1. Kept
      BY <1>1, <1>3, StatusKept DEF NotReached
    <2>. QED
      BY <1>1, <2>1, AgentUntouched
  <1>. QED
    BY <1>2, <1>3 DEF LateFetch

\* A command handed to the agent has never been carried out by this process:
\* had it been, it would be final or its result still pending.
LEMMA FetchNextStep ==
  ASSUME Inductive, NEW c \in Cmd, FetchNext(c)
  PROVE  Inductive'
  <1>1. /\ UNCHANGED << kind, pending, tuner, finishers, executed, ran >>
        /\ UNCHANGED << lateNext, lateResults >>
        /\ NextInLine(c) /\ pending = NoResult
    BY DEF FetchNext, lateVars
  <1>2. /\ store \in Store /\ store = disk /\ lateNext \in BOOLEAN
        /\ faults \in 0 .. MaxFaults /\ finishers \subseteq Finishers
        /\ kind \in [Cmd -> Kinds] /\ executed \in [Cmd -> 0 .. Many]
        /\ ran \in [Cmd -> 0 .. Many]
    BY DEF Inductive, TypeOK, Durable, Finishers
  <1>3. faults' \in 0 .. MaxFaults
    BY <1>2, MaxFaultsAssumption DEF FetchNext, Fault, NoFault
  <1>4. CASE agent' = agent
    <2>1. CASE Saved(Leased(store, c))
      <3>1. Kept
        BY <1>1, <1>2, <1>3, <2>1, LeasedKept
      <3>. QED
        BY <1>1, <1>2, <1>4, <3>1, CallKept, HandlerStep
    <2>2. CASE SaveFailed
      <3>1. Kept
        BY <1>1, <1>2, <1>3, <2>2, StatusKept DEF SaveFailed
      <3>. QED
        BY <1>1, <1>2, <1>4, <3>1, CallKept, HandlerStep
    <2>. QED
      BY <2>1, <2>2 DEF FetchNext
  <1>5. CASE agent' = Dispatched(c) /\ Saved(Leased(store, c))
    <2>1. Kept /\ store'.status[c] = "running"
      BY <1>1, <1>2, <1>3, <1>5, LeasedKept
    <2>2. agent' \in Calls /\ agent'.cmd = c
      BY <1>5 DEF Dispatched, Calls
    <2>3. store.status[c] \in {"pending", "running"}
      BY <1>1 DEF NextInLine, CanLease
    <2>4. kind[c] \in {"ordinary", "cancel"} => ran[c] = 0
      BY <1>1, <1>2, <2>3 DEF Inductive, ProcessInv, NoResult, Final
    <2>5. kind[c] = "system" => executed[c] = 0
      BY <1>2, <2>3 DEF Inductive, SystemInv
    <2>6. CallInv'
      BY <1>1, <1>2, <1>5, <2>1, <2>4, <2>5 DEF CallInv, Dispatched, Issued, Kinds
    <2>. QED
      BY <1>1, <1>2, <2>1, <2>2, <2>6, HandlerStep
  <1>. QED
    BY <1>4, <1>5 DEF FetchNext

(***************************************************************************)
(* The inductive invariant.                                                *)
(***************************************************************************)

LEMMA InitInductive == Init => Inductive
  <1>1. SUFFICES ASSUME Init PROVE Inductive
    OBVIOUS
  <1>2. NewStore \in Store
    BY DEF NewStore, Store, Status
  <1>3. TypeOK
    <2>1. /\ kind \in [Cmd -> Kinds] /\ store \in Store /\ disk \in Store
          /\ executed \in [Cmd -> 0 .. Many] /\ ran \in [Cmd -> 0 .. Many]
          /\ faults \in 0 .. MaxFaults
      BY <1>1, <1>2, MaxFaultsAssumption DEF Init
    <2>. QED
      BY <1>1, <2>1 DEF Init, TypeOK, NoCall, NoResult, NoTune
  <1>4. Durable /\ CallInv /\ SystemInv /\ CompleteWasExecuted
    BY <1>1 DEF Init, Durable, CallInv, SystemInv, CompleteWasExecuted, NewStore, NoCall
  <1>5. HeldInv /\ ProcessInv
    BY <1>1 DEF Init, HeldInv, ProcessInv, NoTune
  <1>. QED
    BY <1>3, <1>4, <1>5 DEF Inductive

LEMMA StutterInductive == Inductive /\ UNCHANGED vars => Inductive'
  <1>1. SUFFICES ASSUME Inductive, UNCHANGED vars PROVE Inductive'
    OBVIOUS
  <1>2. TypeOK' /\ Durable' /\ CallInv' /\ SystemInv' /\ CompleteWasExecuted'
    BY <1>1 DEF Inductive, TypeOK, Durable, CallInv, SystemInv, CompleteWasExecuted, Issued, vars
  <1>3. HeldInv' /\ ProcessInv'
    BY <1>1 DEF Inductive, HeldInv, ProcessInv, Reportable, Issued, vars
  <1>. QED
    BY <1>2, <1>3 DEF Inductive

LEMMA NextInductive == Inductive /\ [Next]_vars => Inductive'
  <1>1. SUFFICES ASSUME Inductive, Next PROVE Inductive'
    BY StutterInductive
  <1>2. ASSUME NEW c \in Cmd, QueueCommand(c) \/ LeaseExpires(c) PROVE Inductive'
    BY <1>1, <1>2, QueueCommandStep, LeaseExpiresStep
  <1>3. CASE ShareProfile
    BY <1>1, <1>3, ShareProfileStep
  <1>4. CASE MainLoop
    BY <1>1, <1>4, SubmitPendingStep, FetchNextStep, ExecuteStep, AcceptSystemStep,
       PerformSystemStep, StartTuneStep, RejectTuneStep DEF MainLoop
  <1>5. CASE Tuning
    BY <1>1, <1>5, DecideTuneStep, PublishTuneStep, FinishTuneStep DEF Tuning
  <1>6. CASE GiveUpFetch \/ LateFetch
    BY <1>1, <1>6, GiveUpFetchStep, LateFetchStep
  <1>7. ASSUME NEW r \in lateResults, LateResult(r) PROVE Inductive'
    BY <1>1, <1>7, LateResultStep
  <1>8. CASE AgentRestart \/ ControllerRestart
    BY <1>1, <1>8, AgentRestartStep, ControllerRestartStep
  <1>. QED
    BY <1>1, <1>2, <1>3, <1>4, <1>5, <1>6, <1>7, <1>8 DEF Next

\* Whatever is queued, lost, repeated, refused or restarted, the store, the
\* agent and the calls between them stay in the states described by the
\* parts of Inductive.
THEOREM Invariance == Spec => []Inductive
  <1>. QED
    BY InitInductive, NextInductive, PTL DEF Spec

(***************************************************************************)
(* What follows from it.                                                   *)
(***************************************************************************)

\* Every variable of the command channel keeps to its values.
THEOREM TypeCorrect == Spec => []TypeOK
  <1>1. Inductive => TypeOK
    BY DEF Inductive
  <1>. QED
    BY <1>1, Invariance, PTL

\* pollCommand never carries an ordinary command out twice in one process.
THEOREM AtMostOncePerProcess == Spec => []OncePerProcess
  <1>1. Inductive => OncePerProcess
    <2>1. SUFFICES ASSUME Inductive, NEW c \in Cmd, kind[c] # "tune"
                   PROVE  ran[c] <= 1
      BY DEF OncePerProcess
    <2>2. kind[c] \in {"ordinary", "cancel", "system"} /\ ran[c] \in 0 .. Many
          /\ executed[c] \in 0 .. Many
      BY <2>1 DEF Inductive, TypeOK, Kinds
    <2>. QED
      BY <2>1, <2>2 DEF Inductive, ProcessInv, SystemInv
  <1>. QED
    BY <1>1, Invariance, PTL

\* A reboot or shutdown happens at most once, after it is on disk as complete.
THEOREM SystemActionAtMostOnce == Spec => []SystemActionOnce
  <1>1. Inductive => SystemActionOnce
    BY DEF Inductive, SystemInv, SystemActionOnce, Durable
  <1>. QED
    BY <1>1, Invariance, PTL

\* The controller never shows an ordinary command or a smart tune as complete
\* that no agent carried out.
THEOREM NoFalseCompletion == Spec => []CompleteWasExecuted
  <1>1. Inductive => CompleteWasExecuted
    BY DEF Inductive
  <1>. QED
    BY <1>1, Invariance, PTL

\* FinishCommandResult never answers "not running" to a result an agent holds
\* or has under way, so that no pending result blocks the command loop.
THEOREM HeldResultsAccepted == Spec => []ResultsAreAccepted
  <1>1. Inductive => ResultsAreAccepted
    BY DEF Inductive, HeldInv, Reportable, Issued, Durable, ResultsAreAccepted, Result
  <1>. QED
    BY <1>1, Invariance, PTL

(***************************************************************************)
(* Steps.                                                                  *)
(***************************************************************************)

\* What the controller may do to the statuses of the commands in one step.
StatusStep ==
  \/ UNCHANGED store.status
  \/ \E c \in Cmd :
       \/ /\ store.status[c] = "none"
          /\ \A d \in Cmd : d < c => store.status[d] # "none"
          /\ store'.status = [store.status EXCEPT ![c] = "pending"]
       \/ /\ store.status[c] \in {"pending", "running"}
          /\ store'.status = [store.status EXCEPT ![c] = "running"]
       \/ /\ store.status[c] = "running"
          /\ \E o \in Final :
               /\ store'.status = [store.status EXCEPT ![c] = o]
               /\ o = "complete" => kind[c] = "system" \/ executed[c] > 0

\* Recording a result that may be reported is such a step.
LEMMA FinishedStep ==
  ASSUME Inductive, NEW r \in Results, Reportable(r),
         store.status[r.cmd] = "running", Saved(Finished(store, r))
  PROVE  StatusStep
  <1>1. kind \in [Cmd -> Kinds] /\ store \in Store /\ r.cmd \in Cmd
    BY DEF Inductive, TypeOK, Results
  <1>2. store'.status = [store.status EXCEPT ![r.cmd] =
                           IF Succeeds(store, r) THEN "complete" ELSE "failed"]
    BY <1>1, FinishedStore DEF Saved
  <1>3. Succeeds(store, r) => r.ok
    BY DEF Succeeds
  <1>. QED
    BY <1>1, <1>2, <1>3 DEF StatusStep, Reportable, Final

LEMMA ReportStep ==
  ASSUME Inductive, NEW r \in Results, Reportable(r),
         Acknowledged(r) \/ CallFails(r)
  PROVE  StatusStep
  <1>1. store = disk
    BY DEF Inductive, Durable
  <1>2. CASE store.status[r.cmd] = "running" /\ Saved(Finished(store, r))
    BY <1>2, FinishedStep
  <1>3. CASE NotReached \/ SaveFailed
    BY <1>1, <1>3 DEF NotReached, SaveFailed, StatusStep
  <1>. QED
    BY <1>2, <1>3 DEF Acknowledged, CallFails

LEMMA LeasedStep ==
  ASSUME Inductive, NEW c \in Cmd, NextInLine(c), Saved(Leased(store, c))
  PROVE  StatusStep
  <1>1. store \in Store /\ store.status[c] \in {"pending", "running"}
    BY DEF Inductive, TypeOK, NextInLine, CanLease
  <1>2. store'.status = [store.status EXCEPT ![c] = "running"]
    BY <1>1, LeasedStore DEF Saved
  <1>. QED
    BY <1>1, <1>2 DEF StatusStep

\* Carrying a command out, which leaves the store alone.
RunStep(c) ==
  /\ UNCHANGED store.status
  /\ executed' = [executed EXCEPT ![c] = Again(@)]
  /\ IF kind[c] = "system" THEN store.status[c] = "complete" /\ executed[c] = 0
                           ELSE Issued(c)

\* Every step changes the statuses or carries one command out, never both.
LEMMA EveryStep ==
  ASSUME Inductive, Next
  PROVE  /\ UNCHANGED kind
         /\ \/ StatusStep /\ UNCHANGED executed
            \/ \E c \in Cmd : RunStep(c)
  <1>1. store = disk /\ store \in Store
    BY DEF Inductive, TypeOK, Durable
  <1>2. ASSUME NEW c \in Cmd, QueueCommand(c)
        PROVE  StatusStep /\ UNCHANGED << kind, executed >>
    BY <1>1, <1>2 DEF QueueCommand, Saved, SaveFailed, StatusStep, agentVars, Store
  <1>3. ASSUME NEW c \in Cmd, LeaseExpires(c)
        PROVE  StatusStep /\ UNCHANGED << kind, executed >>
    BY <1>1, <1>3 DEF LeaseExpires, StatusStep, agentVars, Store
  <1>4. CASE ShareProfile
    BY <1>1, <1>4 DEF ShareProfile, Saved, StatusStep, agentVars, Store
  <1>5. CASE SubmitPending
    <2>1. pending \in Results /\ Reportable(pending)
      BY <1>5 DEF Inductive, TypeOK, HeldInv, SubmitPending
    <2>. QED
      BY <1>5, <2>1, ReportStep DEF SubmitPending
  <1>6. ASSUME NEW c \in Cmd, FetchNext(c)
        PROVE  StatusStep /\ UNCHANGED << kind, executed >>
    BY <1>1, <1>6, LeasedStep DEF FetchNext, SaveFailed, StatusStep
  <1>7. ASSUME NEW c \in Cmd, Execute(c) \/ PerformSystem(c) \/ StartTune(c)
        PROVE  RunStep(c) /\ UNCHANGED kind
    BY <1>7 DEF Execute, PerformSystem, StartTune, Counted, RunStep, Inductive, CallInv
  <1>8. ASSUME NEW c \in Cmd, AcceptSystem(c)
        PROVE  StatusStep /\ UNCHANGED << kind, executed >>
    <2>1. Result(c, TRUE) \in Results /\ Reportable(Result(c, TRUE))
      BY <1>8 DEF Inductive, AcceptSystem, CallInv, Reportable, Result, Results
    <2>. QED
      BY <1>8, <2>1, ReportStep DEF AcceptSystem
  <1>9. ASSUME NEW c \in Cmd, RejectTune(c)
        PROVE  StatusStep /\ UNCHANGED << kind, executed >>
    <2>1. Result(c, FALSE) \in Results /\ Reportable(Result(c, FALSE))
      BY <1>9 DEF Inductive, RejectTune, CallInv, Reportable, Result, Results
    <2>. QED
      BY <1>9, <2>1, ReportStep DEF RejectTune
  <1>10. ASSUME NEW f \in finishers, FinishTune(f)
         PROVE  StatusStep /\ UNCHANGED << kind, executed >>
    <2>1. Result(f.cmd, f.ok) \in Results /\ Reportable(Result(f.cmd, f.ok))
      BY <1>10 DEF Inductive, TypeOK, HeldInv, Result, Results
    <2>. QED
      BY <1>10, <2>1, ReportStep DEF FinishTune
  <1>11. ASSUME NEW r \in lateResults, LateResult(r)
         PROVE  StatusStep /\ UNCHANGED << kind, executed >>
    <2>1. r \in Results /\ Reportable(r)
      BY <1>11 DEF Inductive, TypeOK, HeldInv
    <2>. QED
      BY <1>11, <2>1, FinishedStep DEF LateResult, NotReached, StatusStep, agentVars
  <1>12. CASE LateFetch
    BY <1>12, LeasedStep DEF LateFetch, NotReached, StatusStep, agentVars
  <1>13. CASE DecideTune \/ PublishTune \/ GiveUpFetch \/ AgentRestart \/ ControllerRestart
    BY <1>1, <1>13 DEF DecideTune, PublishTune, GiveUpFetch, AgentRestart,
       ControllerRestart, NotReached, StatusStep, agentVars
  <1>. QED
    BY <1>2, <1>3, <1>4, <1>5, <1>6, <1>7, <1>8, <1>9, <1>10, <1>11, <1>12, <1>13
       DEF Next, MainLoop, Tuning

\* No duplicated result, refused save or restart changes the outcome that was
\* recorded for a command.
THEOREM OutcomesAreFinal == Spec => FinalIsFinal
  <1>1. Inductive /\ [Next]_vars =>
          \A c \in Cmd : store.status[c] \in Final => store'.status[c] = store.status[c]
    <2>1. SUFFICES ASSUME Inductive, Next
                   PROVE  \A c \in Cmd : store.status[c] \in Final =>
                                           store'.status[c] = store.status[c]
      BY DEF vars
    <2>2. store.status \in [Cmd -> Status]
      BY <2>1 DEF Inductive, TypeOK, Store
    <2>3. StatusStep \/ UNCHANGED store.status
      BY <2>1, EveryStep DEF RunStep
    <2>. QED
      BY <2>2, <2>3 DEF StatusStep, Final
  <1>. QED
    BY <1>1, Invariance, PTL DEF Spec, FinalIsFinal

(***************************************************************************)
(* A tune is applied once: the revision counts the tunes recorded as       *)
(* complete.                                                               *)
(***************************************************************************)

Tuned == {c \in Cmd : kind[c] = "tune" /\ store.status[c] = "complete"}

\* A step leaves the tunes that are complete and the revision alone, or makes
\* one of them complete and raises the revision.
CountStep ==
  \/ UNCHANGED store.revision /\ Tuned' = Tuned
  \/ \E c \in Cmd \ Tuned :
       store'.revision = store.revision + 1 /\ Tuned' = Tuned \cup {c}

LEMMA NothingTuned ==
  ASSUME UNCHANGED kind, UNCHANGED store.revision,
         \A c \in Cmd : kind[c] = "tune" =>
           (store'.status[c] = "complete" <=> store.status[c] = "complete")
  PROVE  CountStep
  BY DEF CountStep, Tuned

LEMMA FinishedCounts ==
  ASSUME Inductive, NEW r \in Results, UNCHANGED kind,
         store.status[r.cmd] = "running", Saved(Finished(store, r))
  PROVE  CountStep
  <1>1. kind \in [Cmd -> Kinds] /\ store \in Store /\ r.cmd \in Cmd
    BY DEF Inductive, TypeOK, Results
  <1>2. store.status \in [Cmd -> Status] /\ store.revision \in Nat
    BY <1>1 DEF Store
  <1>3. store'.status = [store.status EXCEPT ![r.cmd] =
                           IF Succeeds(store, r) THEN "complete" ELSE "failed"]
    BY <1>1, FinishedStore DEF Saved
  <1>4. store'.revision = IF Applies(store, r) THEN store.revision + 1
                                               ELSE store.revision
    BY <1>1 DEF Saved, Finished, Store
  <1>5. Applies(store, r) <=> Succeeds(store, r) /\ kind[r.cmd] = "tune"
    BY DEF Applies, Succeeds
  <1>6. CASE Applies(store, r)
    <2>1. r.cmd \in Cmd \ Tuned
      BY <1>1 DEF Tuned
    <2>2. Tuned' = Tuned \cup {r.cmd}
      <3>1. store'.status = [store.status EXCEPT ![r.cmd] = "complete"]
        BY <1>3, <1>5, <1>6
      <3>. QED
        BY <1>1, <1>2, <1>5, <1>6, <3>1 DEF Tuned
    <2>. QED
      BY <1>4, <1>6, <2>1, <2>2 DEF CountStep
  <1>7. CASE ~Applies(store, r)
    <2>1. UNCHANGED store.revision
      BY <1>4, <1>7
    <2>2. ASSUME NEW c \in Cmd, kind[c] = "tune"
          PROVE  store'.status[c] = "complete" <=> store.status[c] = "complete"
      BY <1>1, <1>2, <1>3, <1>5, <1>7, <2>2
    <2>. QED
      BY <2>1, <2>2, NothingTuned
  <1>. QED
    BY <1>6, <1>7

LEMMA LeasedCounts ==
  ASSUME Inductive, NEW c \in Cmd, NextInLine(c), Saved(Leased(store, c)),
         UNCHANGED kind
  PROVE  CountStep
  <1>1. /\ store \in Store /\ store.status[c] \in {"pending", "running"}
        /\ store.status \in [Cmd -> Status]
    BY DEF Inductive, TypeOK, NextInLine, CanLease, Store
  <1>2. store'.status = [store.status EXCEPT ![c] = "running"]
    BY <1>1, LeasedStore DEF Saved
  <1>3. UNCHANGED store.revision
    BY <1>1 DEF Saved, Leased, Store
  <1>. QED
    BY <1>1, <1>2, <1>3, NothingTuned

LEMMA ReportCounts ==
  ASSUME Inductive, NEW r \in Results, UNCHANGED kind,
         Acknowledged(r) \/ CallFails(r)
  PROVE  CountStep
  <1>1. store = disk
    BY DEF Inductive, Durable
  <1>2. CASE store.status[r.cmd] = "running" /\ Saved(Finished(store, r))
    BY <1>2, FinishedCounts
  <1>3. CASE NotReached \/ SaveFailed
    BY <1>1, <1>3, NothingTuned DEF NotReached, SaveFailed
  <1>. QED
    BY <1>2, <1>3 DEF Acknowledged, CallFails

LEMMA EveryCount ==
  ASSUME Inductive, Next
  PROVE  CountStep
  <1>1. store = disk /\ store \in Store /\ store.status \in [Cmd -> Status]
    BY DEF Inductive, TypeOK, Durable, Store
  <1>2. CASE store' = store /\ UNCHANGED kind
    BY <1>2, NothingTuned
  <1>3. ASSUME NEW c \in Cmd, QueueCommand(c)
        PROVE  CountStep
    <2>1. CASE Saved([store EXCEPT !.status[c] = "pending"])
      <3>1. /\ store'.status = [store.status EXCEPT ![c] = "pending"]
            /\ UNCHANGED store.revision
        BY <1>1, <2>1 DEF Saved, Store
      <3>. QED
        BY <1>1, <1>3, <3>1, NothingTuned DEF QueueCommand
    <2>2. CASE SaveFailed
      BY <1>1, <1>2, <1>3, <2>2 DEF SaveFailed, QueueCommand
    <2>. QED
      BY <1>3, <2>1, <2>2 DEF QueueCommand
  <1>4. ASSUME UNCHANGED kind, UNCHANGED store.status, UNCHANGED store.revision
        PROVE  CountStep
    BY <1>4, NothingTuned
  <1>5. ASSUME NEW c \in Cmd, LeaseExpires(c)
        PROVE  CountStep
    BY <1>1, <1>4, <1>5 DEF LeaseExpires, Store
  <1>6. CASE ShareProfile
    BY <1>1, <1>4, <1>6 DEF ShareProfile, Saved, Store
  <1>7. CASE SubmitPending
    <2>1. pending \in Results
      BY <1>7 DEF Inductive, TypeOK, SubmitPending
    <2>. QED
      BY <1>7, <2>1, ReportCounts DEF SubmitPending
  <1>8. ASSUME NEW c \in Cmd, FetchNext(c)
        PROVE  CountStep
    BY <1>1, <1>2, <1>8, LeasedCounts DEF FetchNext, SaveFailed
  <1>9. ASSUME NEW c \in Cmd, Execute(c) \/ PerformSystem(c) \/ StartTune(c)
        PROVE  CountStep
    BY <1>2, <1>9 DEF Execute, PerformSystem, StartTune
  <1>10. ASSUME NEW c \in Cmd, AcceptSystem(c) \/ RejectTune(c)
         PROVE  CountStep
    <2>1. Result(c, TRUE) \in Results /\ Result(c, FALSE) \in Results
      BY DEF Result, Results
    <2>. QED
      BY <1>10, <2>1, ReportCounts DEF AcceptSystem, RejectTune
  <1>11. ASSUME NEW f \in finishers, FinishTune(f)
         PROVE  CountStep
    <2>1. Result(f.cmd, f.ok) \in Results
      BY <1>11 DEF Inductive, TypeOK, Result, Results
    <2>. QED
      BY <1>11, <2>1, ReportCounts DEF FinishTune
  <1>12. ASSUME NEW r \in lateResults, LateResult(r)
         PROVE  CountStep
    <2>1. r \in Results
      BY <1>12 DEF Inductive, TypeOK
    <2>. QED
      BY <1>2, <1>12, <2>1, FinishedCounts DEF LateResult, NotReached
  <1>13. CASE LateFetch
    BY <1>2, <1>13, LeasedCounts DEF LateFetch, NotReached
  <1>14. CASE DecideTune \/ PublishTune \/ GiveUpFetch \/ AgentRestart \/ ControllerRestart
    BY <1>1, <1>2, <1>14 DEF DecideTune, PublishTune, GiveUpFetch, AgentRestart,
       ControllerRestart, NotReached
  <1>. QED
    BY <1>3, <1>5, <1>6, <1>7, <1>8, <1>9, <1>10, <1>11, <1>12, <1>13, <1>14
       DEF Next, MainLoop, Tuning

\* However often a smart tune is leased, run, reported and reported again, its
\* settings are applied once (FinishCommandResult).
THEOREM TunesApplyOnce == Spec => []TunedOnce
  <1>1. IsFiniteSet(Cmd)
    <2>1. 1 \in Int /\ MaxCommands \in Int
      BY MaxCommandsAssumption
    <2>. QED
      BY <2>1, FS_Interval DEF Cmd
  <1>2. TunedOnce <=> store.revision = Cardinality(Tuned)
    BY DEF TunedOnce, Tuned
  <1>3. Init => TunedOnce
    <2>1. Init => Tuned = {} /\ store.revision = 0
      BY DEF Init, NewStore, Tuned
    <2>. QED
      BY <1>2, <2>1, FS_EmptySet
  <1>4. TunedOnce /\ Inductive /\ [Next]_vars => TunedOnce'
    <2>1. SUFFICES ASSUME store.revision = Cardinality(Tuned), CountStep
                   PROVE  store'.revision = Cardinality(Tuned')
      <3>1. UNCHANGED vars => CountStep
        BY NothingTuned DEF vars
      <3>2. TunedOnce' <=> store'.revision = Cardinality(Tuned')
        BY DEF TunedOnce, Tuned
      <3>. QED
        BY <1>2, <3>1, <3>2, <2>1, EveryCount
    <2>2. CASE UNCHANGED store.revision /\ Tuned' = Tuned
      BY <2>1, <2>2
    <2>3. ASSUME NEW c \in Cmd \ Tuned,
                 store'.revision = store.revision + 1, Tuned' = Tuned \cup {c}
          PROVE  store'.revision = Cardinality(Tuned')
      <3>1. IsFiniteSet(Tuned)
        BY <1>1, FS_Subset DEF Tuned
      <3>2. Cardinality(Tuned \cup {c}) = Cardinality(Tuned) + 1
        BY <3>1, FS_AddElement
      <3>. QED
        BY <2>1, <2>3, <3>2
    <2>. QED
      BY <2>1, <2>2, <2>3 DEF CountStep
  <1>. QED
    BY <1>3, <1>4, Invariance, PTL DEF Spec

(***************************************************************************)
(* Order: without faults a command that runs is in the agent's hands, or   *)
(* is a tune that runs beside them.                                        *)
(***************************************************************************)

\* The slice has no gaps.
Appended ==
  \A c, d \in Cmd : d < c /\ store.status[c] # "none" => store.status[d] # "none"

\* Who has the commands that are running.
InHand(d) ==
  \/ agent.phase # "idle" /\ agent.cmd = d
  \/ pending.cmd = d
  \/ kind[d] = "tune" /\ executed[d] > 0

\* What the order of commands rests on as long as nothing fails.
Calm ==
  /\ lateNext = FALSE /\ lateResults = {}
  /\ \A d \in Cmd : store.status[d] = "running" => InHand(d)
  /\ agent.phase # "idle" =>
       \A d \in Cmd : d < agent.cmd =>
         \/ store.status[d] \in Final
         \/ kind[d] = "tune" /\ executed[d] > 0

Orderly == Appended /\ (faults = 0 => Calm)

\* The slice only grows at its end.
LEMMA AppendedStep ==
  ASSUME Inductive, Appended, Next
  PROVE  Appended'
  <1>1. store.status \in [Cmd -> Status] /\ store = disk
    BY DEF Inductive, TypeOK, Store, Durable
  <1>2. StatusStep
    BY EveryStep DEF RunStep, StatusStep
  <1>3. CASE \A c \in Cmd : store.status[c] # "none" <=> store'.status[c] # "none"
    BY <1>3 DEF Appended
  <1>4. ASSUME NEW c \in Cmd, store.status[c] = "none",
               \A d \in Cmd : d < c => store.status[d] # "none",
               store'.status = [store.status EXCEPT ![c] = "pending"]
        PROVE  Appended'
    BY <1>1, <1>4 DEF Appended
  <1>. QED
    BY <1>1, <1>2, <1>3, <1>4 DEF StatusStep, Final

\* What a report makes of the statuses when it does not fail.
LEMMA AcknowledgedRuns ==
  ASSUME Inductive, NEW r \in Results, Acknowledged(r)
  PROVE  /\ store'.status[r.cmd] \in Final
         /\ \A d \in Cmd : d # r.cmd => store'.status[d] = store.status[d]
         /\ UNCHANGED << lateNext, lateResults, faults >>
  BY Reporting DEF Inductive, Acknowledged, NoFault, lateVars

\* What finishes some commands, and moves none between hands, keeps the calm.
LEMMA HandsKept ==
  ASSUME Calm, UNCHANGED kind, UNCHANGED agent, UNCHANGED pending,
         UNCHANGED executed, lateNext' = FALSE, lateResults' = {},
         \A d \in Cmd : \/ store'.status[d] = store.status[d]
                        \/ store'.status[d] \in Final
                        \/ store.status[d] = "none" /\ store'.status[d] # "running"
  PROVE  Calm'
  BY DEF Calm, InHand, Final

\* Of the agent's own steps the store takes no notice.
LEMMA ExecutedGrows ==
  ASSUME Inductive, NEW c \in Cmd, Counted(c)
  PROVE  /\ executed'[c] > 0
         /\ \A d \in Cmd : executed[d] > 0 => executed'[d] > 0
  <1>1. executed \in [Cmd -> 0 .. Many] /\ executed' = [executed EXCEPT ![c] = Again(@)]
    BY DEF Inductive, TypeOK, Counted
  <1>. QED
    BY <1>1 DEF Again, Many

LEMMA ExecuteCalm ==
  ASSUME Inductive, Calm, NEW c \in Cmd, Execute(c)
  PROVE  Calm'
  <1>1. /\ agent.phase = "executing" /\ agent.cmd = c /\ pending.cmd = None
        /\ agent' = NoCall /\ pending'.cmd = c
        /\ UNCHANGED << kind, store, lateNext, lateResults >>
    BY DEF Execute, Inductive, CallInv, NoResult, Result, lateVars
  <1>2. \A d \in Cmd : executed[d] > 0 => executed'[d] > 0
    BY ExecutedGrows DEF Execute
  <1>. QED
    BY <1>1, <1>2 DEF Calm, InHand, NoCall, Cmd, None

LEMMA PerformSystemCalm ==
  ASSUME Inductive, Calm, NEW c \in Cmd, PerformSystem(c)
  PROVE  Calm'
  <1>1. /\ agent.cmd = c /\ store.status[c] = "complete"
        /\ agent' = NoCall
        /\ UNCHANGED << kind, store, pending, lateNext, lateResults >>
    BY DEF PerformSystem, Inductive, CallInv, lateVars
  <1>2. \A d \in Cmd : executed[d] > 0 => executed'[d] > 0
    BY ExecutedGrows DEF PerformSystem
  <1>. QED
    BY <1>1, <1>2 DEF Calm, InHand, NoCall

LEMMA StartTuneCalm ==
  ASSUME Inductive, Calm, NEW c \in Cmd, StartTune(c)
  PROVE  Calm'
  <1>1. /\ agent.cmd = c /\ kind[c] = "tune"
        /\ agent' = NoCall
        /\ UNCHANGED << kind, store, pending, lateNext, lateResults >>
    BY DEF StartTune, Inductive, CallInv, lateVars
  <1>2. executed'[c] > 0 /\ \A d \in Cmd : executed[d] > 0 => executed'[d] > 0
    BY ExecutedGrows DEF StartTune
  <1>. QED
    BY <1>1, <1>2 DEF Calm, InHand, NoCall

\* The one who hands commands over takes the first that nobody has.
LEMMA FetchNextCalm ==
  ASSUME Inductive, Appended, Calm, NEW c \in Cmd, FetchNext(c), NoFault,
         Saved(Leased(store, c)), agent' = Dispatched(c)
  PROVE  Calm'
  <1>1. /\ store \in Store /\ store.status[c] \in {"pending", "running"}
        /\ store.status \in [Cmd -> Status] /\ agent.phase = "idle"
        /\ pending.cmd = None
        /\ UNCHANGED << kind, pending, executed, lateNext, lateResults >>
    BY DEF Inductive, TypeOK, FetchNext, NextInLine, CanLease, Store, Idle, NoResult,
           lateVars
  <1>2. store'.status = [store.status EXCEPT ![c] = "running"]
    BY <1>1, LeasedStore DEF Saved
  <1>3. agent'.phase # "idle" /\ agent'.cmd = c
    BY DEF Dispatched
  <1>4. ASSUME NEW d \in Cmd, d < c
        PROVE  \/ store'.status[d] \in Final
               \/ kind'[d] = "tune" /\ executed'[d] > 0
    <2>1. store.status[d] \notin {"none", "pending"}
      BY <1>1, <1>4 DEF Appended, FetchNext, NextInLine, CanLease
    <2>2. d # c
      BY <1>4 DEF Cmd
    <2>3. CASE store.status[d] = "running"
      BY <1>1, <2>3 DEF Calm, InHand, Cmd, None
    <2>. QED
      BY <1>1, <1>2, <2>1, <2>2, <2>3 DEF Status, Final
  <1>5. \A d \in Cmd : store'.status[d] = "running" => InHand(d)'
    BY <1>1, <1>2, <1>3 DEF Calm, InHand
  <1>. QED
    BY <1>1, <1>3, <1>4, <1>5 DEF Calm

LEMMA ReportCalm ==
  ASSUME Inductive, Calm,
         \/ SubmitPending /\ Acknowledged(pending)
         \/ \E c \in Cmd : AcceptSystem(c) /\ Acknowledged(Result(c, TRUE))
                           /\ agent' = [phase |-> "acting", cmd |-> c]
         \/ \E c \in Cmd : RejectTune(c) /\ Acknowledged(Result(c, FALSE))
         \/ \E f \in finishers : FinishTune(f) /\ Acknowledged(Result(f.cmd, f.ok))
  PROVE  Calm'
  <1>1. CASE SubmitPending /\ Acknowledged(pending)
    <2>1. pending \in Results
      BY <1>1 DEF Inductive, TypeOK, SubmitPending
    <2>2. /\ store'.status[pending.cmd] \in Final
          /\ \A d \in Cmd : d # pending.cmd => store'.status[d] = store.status[d]
          /\ UNCHANGED << lateNext, lateResults, kind, agent, executed >>
      BY <1>1, <2>1, AcknowledgedRuns DEF SubmitPending
    <2>. QED
      BY <1>1, <2>2 DEF Calm, InHand, Final
  <1>2. ASSUME NEW c \in Cmd, AcceptSystem(c), Acknowledged(Result(c, TRUE)),
               agent' = [phase |-> "acting", cmd |-> c]
        PROVE  Calm'
    <2>1. Result(c, TRUE) \in Results /\ Result(c, TRUE).cmd = c
      BY DEF Result, Results
    <2>2. /\ store'.status[c] \in Final
          /\ \A d \in Cmd : d # c => store'.status[d] = store.status[d]
          /\ UNCHANGED << lateNext, lateResults, kind, pending, executed >>
          /\ agent.phase # "idle" /\ agent.cmd = c /\ agent'.cmd = c
      BY <1>2, <2>1, AcknowledgedRuns DEF AcceptSystem
    <2>. QED
      BY <2>2 DEF Calm, InHand, Final
  <1>3. ASSUME NEW c \in Cmd, RejectTune(c), Acknowledged(Result(c, FALSE))
        PROVE  Calm'
    <2>1. Result(c, FALSE) \in Results /\ Result(c, FALSE).cmd = c
      BY DEF Result, Results
    <2>2. /\ store'.status[c] \in Final
          /\ \A d \in Cmd : d # c => store'.status[d] = store.status[d]
          /\ UNCHANGED << lateNext, lateResults, kind, pending, executed >>
          /\ agent.phase # "idle" /\ agent.cmd = c /\ agent' = NoCall
      BY <1>3, <2>1, AcknowledgedRuns DEF RejectTune
    <2>. QED
      BY <2>2 DEF Calm, InHand, Final, NoCall
  <1>4. ASSUME NEW f \in finishers, FinishTune(f), Acknowledged(Result(f.cmd, f.ok))
        PROVE  Calm'
    <2>1. Result(f.cmd, f.ok) \in Results /\ Result(f.cmd, f.ok).cmd = f.cmd
      BY DEF Inductive, TypeOK, Result, Results
    <2>2. /\ store'.status[f.cmd] \in Final
          /\ \A d \in Cmd : d # f.cmd => store'.status[d] = store.status[d]
          /\ UNCHANGED << lateNext, lateResults, kind, agent, pending, executed >>
      BY <1>4, <2>1, AcknowledgedRuns DEF FinishTune
    <2>3. lateNext' = FALSE /\ lateResults' = {}
      BY <2>2 DEF Calm
    <2>. QED
      BY <2>2, <2>3, HandsKept
  <1>. QED
    BY <1>1, <1>2, <1>3, <1>4

\* Without a fault, every step keeps the calm.
LEMMA CalmStep ==
  ASSUME Inductive, Appended, faults = 0 => Calm, Next, faults' = 0
  PROVE  Calm'
  <1>1. store = disk /\ store \in Store /\ store.status \in [Cmd -> Status]
        /\ faults \in Nat
    BY DEF Inductive, TypeOK, Durable, Store
  <1>2. ~Fault /\ \A r \in Results : ~CallFails(r)
    BY <1>1 DEF Fault, CallFails
  <1>3. CASE \E c \in Cmd : QueueCommand(c)
    <2>1. PICK c \in Cmd : QueueCommand(c)
      BY <1>3
    <2>2. /\ store.status[c] = "none" /\ Saved([store EXCEPT !.status[c] = "pending"])
          /\ UNCHANGED << kind, agent, pending, executed, lateNext, lateResults, faults >>
      BY <1>2, <2>1 DEF QueueCommand, NoFault, agentVars, lateVars
    <2>3. store'.status = [store.status EXCEPT ![c] = "pending"]
      BY <1>1, <2>2 DEF Saved, Store
    <2>4. Calm
      BY <2>2
    <2>5. \A d \in Cmd : \/ store'.status[d] = store.status[d]
                         \/ store.status[d] = "none" /\ store'.status[d] # "running"
      BY <1>1, <2>2, <2>3
    <2>6. lateNext' = FALSE /\ lateResults' = {}
      BY <2>2, <2>4 DEF Calm
    <2>. QED
      BY <2>2, <2>4, <2>5, <2>6, HandsKept
  <1>4. CASE \/ \E c \in Cmd : LeaseExpires(c)
             \/ ShareProfile \/ DecideTune \/ PublishTune \/ ControllerRestart
    <2>1. UNCHANGED << kind, agent, pending, executed, faults, store.status >>
      BY <1>1, <1>4 DEF LeaseExpires, ShareProfile, DecideTune, PublishTune,
         ControllerRestart, Saved, agentVars, Store
    <2>2. Calm
      BY <2>1
    <2>3. lateNext' = FALSE /\ lateResults' = {}
      <3>1. lateNext = FALSE /\ lateResults = {}
        BY <2>2 DEF Calm
      <3>2. \/ UNCHANGED << lateNext, lateResults >>
            \/ lateNext' = FALSE /\ lateResults' = {}
        BY <1>4 DEF LeaseExpires, ShareProfile, DecideTune, PublishTune,
           ControllerRestart, lateVars
      <3>. QED
        BY <3>1, <3>2
    <2>4. \A d \in Cmd : \/ store'.status[d] = store.status[d]
                         \/ store'.status[d] \in Final
                         \/ store.status[d] = "none" /\ store'.status[d] # "running"
      BY <2>1
    <2>5. UNCHANGED << kind, agent, pending, executed >>
      BY <2>1
    <2>. QED
      BY <2>2, <2>3, <2>4, <2>5, HandsKept
  <1>5. CASE SubmitPending
    <2>1. pending \in Results
      BY <1>5 DEF Inductive, TypeOK, SubmitPending
    <2>2. SubmitPending /\ Acknowledged(pending)
      BY <1>2, <1>5, <2>1 DEF SubmitPending
    <2>3. Calm
      BY <2>2 DEF Acknowledged, NoFault
    <2>. QED
      BY <2>2, <2>3, ReportCalm
  <1>6. ASSUME NEW c \in Cmd, AcceptSystem(c)
        PROVE  Calm'
    <2>1. Result(c, TRUE) \in Results
      BY DEF Result, Results
    <2>2. /\ AcceptSystem(c) /\ Acknowledged(Result(c, TRUE))
          /\ agent' = [phase |-> "acting", cmd |-> c]
      BY <1>2, <1>6, <2>1 DEF AcceptSystem
    <2>3. Calm
      BY <2>2 DEF Acknowledged, NoFault
    <2>. QED
      BY <2>2, <2>3, ReportCalm
  <1>7. ASSUME NEW c \in Cmd, RejectTune(c)
        PROVE  Calm'
    <2>1. Result(c, FALSE) \in Results
      BY DEF Result, Results
    <2>2. RejectTune(c) /\ Acknowledged(Result(c, FALSE))
      BY <1>2, <1>7, <2>1 DEF RejectTune
    <2>3. Calm
      BY <2>2 DEF Acknowledged, NoFault
    <2>. QED
      BY <2>2, <2>3, ReportCalm
  <1>8. ASSUME NEW f \in finishers, FinishTune(f)
        PROVE  Calm'
    <2>1. Result(f.cmd, f.ok) \in Results
      BY <1>8 DEF Inductive, TypeOK, Result, Results
    <2>2. FinishTune(f) /\ Acknowledged(Result(f.cmd, f.ok))
      BY <1>2, <1>8, <2>1 DEF FinishTune
    <2>3. Calm
      BY <2>2 DEF Acknowledged, NoFault
    <2>. QED
      BY <2>2, <2>3, ReportCalm
  <1>9. ASSUME NEW c \in Cmd, FetchNext(c)
        PROVE  Calm'
    <2>1. Saved(Leased(store, c)) /\ agent' = Dispatched(c) /\ NoFault
      BY <1>2, <1>9 DEF FetchNext
    <2>2. Calm
      BY <2>1 DEF NoFault
    <2>. QED
      BY <1>9, <2>1, <2>2, FetchNextCalm
  <1>10. ASSUME NEW c \in Cmd, Execute(c) \/ PerformSystem(c) \/ StartTune(c)
         PROVE  Calm'
    <2>1. Calm
      BY <1>10 DEF Execute, PerformSystem, StartTune
    <2>. QED
      BY <1>10, <2>1, ExecuteCalm, PerformSystemCalm, StartTuneCalm
  <1>11. ~GiveUpFetch /\ ~AgentRestart
    BY <1>2 DEF GiveUpFetch, AgentRestart
  <1>12. ~LateFetch /\ ~\E r \in lateResults : LateResult(r)
    <2>1. LateFetch => Calm
      BY DEF LateFetch
    <2>2. ASSUME NEW r \in lateResults, LateResult(r) PROVE Calm
      BY <2>2 DEF LateResult
    <2>. QED
      BY <2>1, <2>2 DEF Calm, LateFetch
  <1>. QED
    BY <1>3, <1>4, <1>5, <1>6, <1>7, <1>8, <1>9, <1>10, <1>11, <1>12
       DEF Next, MainLoop, Tuning

\* As long as no call fails and no agent restarts, commands are carried out in
\* the order in which they were queued, even those that outlive their lease
\* (NextCommand scans from the start, and pollCommand has one at a time).
THEOREM CommandsInOrder == Spec => []InOrderWithoutFaults
  <1>1. Init => Orderly
    BY DEF Init, NewStore, NoCall, Orderly, Appended, Calm
  <1>2. Orderly /\ Inductive /\ [Next]_vars => Orderly'
    <2>1. Orderly /\ UNCHANGED vars => Orderly'
      BY DEF Orderly, Appended, Calm, InHand, vars
    <2>. QED
      BY <2>1, AppendedStep, CalmStep DEF Orderly
  <1>3. Orderly => InOrderWithoutFaults
    BY DEF Orderly, Calm, InOrderWithoutFaults
  <1>. QED
    BY <1>1, <1>2, <1>3, Invariance, PTL DEF Spec

(***************************************************************************)
(* The refinement.                                                         *)
(***************************************************************************)

\* What is on disk, with the history of what agents carried out, behaves as
\* CommandLife promises: queued, issued, carried out and finished, a system
\* action finished first and carried out once.
THEOREM Refinement == Spec => ImplementsLife
  <1>1. Init => Life!LifeInit
    BY DEF Init, Life!LifeInit, NewStore
  <1>2. Inductive /\ Inductive' /\ [Next]_vars => [Life!LifeNext]_(Life!lifeVars)
    <2>1. SUFFICES ASSUME Inductive, Inductive', Next
                   PROVE  Life!LifeNext \/ UNCHANGED << kind, disk.status, executed >>
      BY DEF vars, Life!lifeVars
    <2>2. store = disk /\ store' = disk' /\ store.status \in [Cmd -> Status]
          /\ executed \in [Cmd -> 0 .. Many] /\ UNCHANGED kind
      BY <2>1, EveryStep DEF Inductive, TypeOK, Durable, Store
    <2>3. CASE StatusStep /\ UNCHANGED executed
      <3>1. CASE UNCHANGED store.status
        BY <2>2, <2>3, <3>1
      <3>2. ASSUME NEW c \in Cmd, store.status[c] = "none",
                   store'.status = [store.status EXCEPT ![c] = "pending"]
            PROVE  Life!LifeNext
        BY <2>2, <2>3, <3>2 DEF Life!LifeNext, Life!Queue
      <3>3. ASSUME NEW c \in Cmd, store.status[c] \in {"pending", "running"},
                   store'.status = [store.status EXCEPT ![c] = "running"]
            PROVE  Life!LifeNext \/ UNCHANGED << kind, disk.status, executed >>
        BY <2>2, <2>3, <3>3 DEF Life!LifeNext, Life!Issue
      <3>4. ASSUME NEW c \in Cmd, NEW o \in Final, store.status[c] = "running",
                   store'.status = [store.status EXCEPT ![c] = o],
                   o = "complete" => kind[c] = "system" \/ executed[c] > 0
            PROVE  Life!LifeNext
        BY <2>2, <2>3, <3>4 DEF Life!LifeNext, Life!Finish, Final
      <3>. QED
        BY <2>3, <3>1, <3>2, <3>3, <3>4 DEF StatusStep
    <2>4. ASSUME NEW c \in Cmd, RunStep(c) PROVE Life!LifeNext
      BY <2>2, <2>4 DEF RunStep, Again, Issued, Final, Life!LifeNext, Life!Run
    <2>. QED
      BY <2>1, <2>3, <2>4, EveryStep
  <1>. QED
    BY <1>1, <1>2, Invariance, PTL DEF Spec, ImplementsLife, Life!LifeSpec

=============================================================================
