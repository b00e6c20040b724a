------------------------------ MODULE FarmAlerts ------------------------------
(***************************************************************************)
(* The alerts of the rigs at the controller: a heartbeat raises and        *)
(* resolves those of the watchdog's limits and of a stopped miner, the     *)
(* connectivity check, every 15 s, those of overdue heartbeats. The list   *)
(* is limited; the oldest are dropped, also active ones. A heartbeat may   *)
(* end on a telemetry error with the rig changed in memory; saves fail and *)
(* restore what was saved last; rigs are deleted.                          *)
(*                                                                         *)
(* Sources: internal/server/telemetry.go (evaluateAlertsLocked,            *)
(* activateAlertLocked, resolveAlertLocked, EvaluateWorkerConnectivity),   *)
(* store.go (Heartbeat, DeleteRig), cmd/minerdash-server/main.go           *)
(* (runScheduler).                                                         *)
(*                                                                         *)
(* Messages and severities are left out; what a heartbeat reports is       *)
(* reduced to what the alerts compare.                                     *)
(***************************************************************************)
EXTENDS Integers, SequencesExt

CONSTANTS
  Rig,
  Setting,       \* what operators set for a rig's sheet and watchdog
  LogLimit,      \* how many alerts are kept
  MaxFailures,   \* bound on failing saves, telemetry errors and crashes
  None

Judged == {"temperature", "hashrate", "miner"}
AlertType == Judged \cup {"offline"}

Alert == [rig : Rig, type : AlertType, active : BOOLEAN]

\* assigned: a sheet is; rules: the limits of the watchdog that are set, none
\* while it is disabled.
AnySetting == [assigned : BOOLEAN, rules : SUBSET {"temperature", "hashrate"}]

\* found: history, what held when the alerts of the rig were last decided.
Watched == [heard : {"never", "lately", "long ago"}, set : AnySetting,
            found : SUBSET AlertType]

\* What a heartbeat reports: a GPU at the limit, the miner running, its
\* hashrate below the limit, the present revision applied.
Report == [hot : BOOLEAN, running : BOOLEAN, slow : BOOLEAN, current : BOOLEAN]

FarmState == [rigs : [Rig -> Watched \cup {None}], alerts : Seq(Alert)]

VARIABLES
  farm, savedFarm,   \* rigs and alerts, in memory and in the state file
  known,             \* the rigs enrolled so far
  failures           \* failing saves, telemetry errors and crashes so far

alertVars == << farm, savedFarm, known, failures >>

Present(s) == {r \in Rig : s.rigs[r] # None}

-----------------------------------------------------------------------------

IsActive(log, r, t) == \E n \in DOMAIN log : log[n] = [rig |-> r, type |-> t, active |-> TRUE]

\* Faulty variant: an alert that is active already is raised again.
RaiseAgain(log, r, t) ==
  LET longer == Append(log, [rig |-> r, type |-> t, active |-> TRUE])
  IN IF Len(longer) > LogLimit THEN Tail(longer) ELSE longer

\* activateAlertLocked
Activate(log, r, t) ==
  LET longer == Append(log, [rig |-> r, type |-> t, active |-> TRUE])
  IN IF IsActive(log, r, t) THEN log
     ELSE IF Len(longer) > LogLimit THEN Tail(longer)
     ELSE longer

\* resolveAlertLocked
Resolve(log, r, t) ==
  [n \in DOMAIN log |->
     IF log[n].rig = r /\ log[n].type = t THEN [log[n] EXCEPT !.active = FALSE] ELSE log[n]]

Decide(log, r, t, holds) == IF holds THEN Activate(log, r, t) ELSE Resolve(log, r, t)

\* The conditions of evaluateAlertsLocked.
Conditions(v, m) ==
  {t \in Judged :
     \/ t = "temperature" /\ t \in v.set.rules /\ m.hot
     \/ t = "hashrate" /\ t \in v.set.rules /\ m.running /\ m.slow
     \/ t = "miner" /\ v.set.assigned /\ m.current /\ ~m.running}

Evaluated(log, r, found) ==
  LET Judge(l, t) == Decide(l, r, t, t \in found)
  IN Judge(Judge(Judge(log, "temperature"), "hashrate"), "miner")

Overdue(v) == v.heard # "lately"

\* The connectivity check takes the rigs in the order Go's map yields them: the
\* alerts after so many of them.
AfterChecks(s, order) ==
  LET after[n \in 0 .. Len(order)] ==
        IF n = 0 THEN s.alerts
        ELSE Decide(after[n - 1], order[n], "offline", Overdue(s.rigs[order[n]]))
  IN after

Checked(s, order) ==
  [rigs |-> [r \in Rig |->
     IF s.rigs[r] = None THEN None
     ELSE [s.rigs[r] EXCEPT !.found =
             IF Overdue(s.rigs[r]) THEN @ \cup {"offline"} ELSE @ \ {"offline"}]],
   alerts |-> AfterChecks(s, order)[Len(order)]]

-----------------------------------------------------------------------------

Fails == failures < MaxFailures /\ failures' = failures + 1

SaveFarm(s) == \/ farm' = s /\ savedFarm' = s /\ UNCHANGED failures
               \/ farm' = savedFarm /\ UNCHANGED savedFarm /\ Fails

EnrollRig(r) ==
  /\ r \notin known
  /\ SaveFarm([farm EXCEPT !.rigs[r] =
       [heard |-> "never", set |-> [assigned |-> FALSE, rules |-> {}], found |-> {}]])
  /\ known' = IF farm'.rigs[r] = None THEN known ELSE known \cup {r}

\* A sheet and the limits of the watchdog, by AssignWorker and its like.
Assign(r, setting) ==
  /\ r \in Present(farm)
  /\ SaveFarm([farm EXCEPT !.rigs[r].set = setting])
  /\ UNCHANGED known

\* Heartbeat: the rig is changed, the history is written or an error ends it
\* there, the alerts are decided, everything is saved.
Beat(r, m) ==
  LET v     == farm.rigs[r]
      heard == [farm EXCEPT !.rigs[r].heard = "lately"]
      found == Conditions(v, m)
  IN /\ r \in Present(farm)
     /\ \/ SaveFarm([heard EXCEPT
             !.rigs[r].found = found \cup (@ \cap {"offline"}),
             !.alerts = Evaluated(@, r, found)])
        \/ farm' = heard /\ UNCHANGED savedFarm /\ Fails
     /\ UNCHANGED known

\* EvaluateWorkerConnectivity saves only if an alert changed.
CheckConnectivity ==
  \E order \in SetToSeqs(Present(farm)) :
    /\ Checked(farm, order).alerts # farm.alerts
    /\ SaveFarm(Checked(farm, order))
    /\ UNCHANGED known

\* Thirty seconds without a heartbeat; what was saved is at least as old.
Silence(r) ==
  LET Aged(s) == IF s.rigs[r] # None /\ s.rigs[r].heard = "lately"
                   THEN [s EXCEPT !.rigs[r].heard = "long ago"] ELSE s
  IN /\ r \in Present(farm) \/ r \in Present(savedFarm)
     /\ savedFarm' = Aged(savedFarm)
     /\ farm' \in {farm, Aged(farm)}
     /\ farm = savedFarm => farm' = savedFarm'
     /\ UNCHANGED << known, failures >>

\* The alerts of a deleted rig stay.
Forget(r) ==
  /\ r \in Present(farm)
  /\ SaveFarm([farm EXCEPT !.rigs[r] = None])
  /\ UNCHANGED known

SaveOther ==
  /\ farm # savedFarm
  /\ SaveFarm(farm)
  /\ UNCHANGED known

AlertCrash ==
  /\ Fails
  /\ farm' = savedFarm
  /\ UNCHANGED << savedFarm, known >>

AlertInit ==
  /\ farm = [rigs |-> [r \in Rig |-> None], alerts |-> << >>]
  /\ savedFarm = farm /\ known = {} /\ failures = 0

AlertNext ==
  \/ \E r \in Rig : EnrollRig(r) \/ Forget(r) \/ Silence(r)
  \/ \E r \in Rig, setting \in Setting : Assign(r, setting)
  \/ \E r \in Rig, m \in Report : Beat(r, m)
  \/ CheckConnectivity \/ SaveOther \/ AlertCrash

AlertSpec == AlertInit /\ [][AlertNext]_alertVars

-----------------------------------------------------------------------------

AlertTypeOK ==
  /\ farm \in FarmState /\ savedFarm \in FarmState
  /\ Len(farm.alerts) <= LogLimit /\ Len(savedFarm.alerts) <= LogLimit
  /\ known \subseteq Rig /\ failures \in 0 .. MaxFailures

\* What the active alerts say of a rig is what held when they were last decided,
\* each once: through any order of heartbeats, checks and settings, errors between
\* the change of a rig and its alerts (store.go:336), failed saves, and the loss of
\* an alert that is still active when the list is full (telemetry.go:279).
AlertsMatch ==
  \A s \in {farm, savedFarm} : \A r \in Present(s), t \in AlertType :
    LET active == {n \in DOMAIN s.alerts :
                     s.alerts[n] = [rig |-> r, type |-> t, active |-> TRUE]}
    IN /\ Cardinality(active) <= 1
       /\ active # {} => t \in s.rigs[r].found
       /\ t \in s.rigs[r].found /\ active = {} => Len(s.alerts) = LogLimit

=============================================================================
