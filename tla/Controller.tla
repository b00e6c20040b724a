----------------------------- MODULE Controller ------------------------------
(***************************************************************************)
(* The controller's services next to each other: the configuration store,  *)
(* the packages of miners, enrollment with the USB writer, alerts, the     *)
(* history of telemetry, accounts, the updates of the controller itself,   *)
(* and what is kept of other web sites.                                    *)
(*                                                                         *)
(* The services' models share no variable, so that whatever one of them    *)
(* does leaves the others' properties alone: in a behaviour only the       *)
(* service `part` moves, and the state space is the sum of theirs instead  *)
(* of the product. What the services do share in the program, the state    *)
(* file, is in each model as far as it bears on the service.               *)
(***************************************************************************)
EXTENDS MC_ConfigStore, RigEnrollment, Accounts, ControllerUpdate, SourceCache

CONSTANTS
  Content, Entry, Job, Seed, MaxEvents,                       \* PackageStore
  LogLimit, MaxFailures,                                      \* FarmAlerts
  Retention, LastDay, MaxErrors                               \* TelemetryHistory

VARIABLES
  record, saved, born, files, lock, jobs, up, trusted, quiet, operations, faults,
  farm, savedFarm, known, failures,
  today, wrong, enrolled, series, savedSeries, dayFiles, serving, stored, misled,
  errors,
  part           \* the service that moves

\* A rig on a sheet whose temperature and hashrate are both watched.
Watchdog == {[assigned |-> TRUE, rules |-> {"hashrate"}]}

Packages == INSTANCE PackageStore WITH Name <- Entry
Alerts   == INSTANCE FarmAlerts WITH Setting <- Watchdog
History  == INSTANCE TelemetryHistory

\* The history keeps at least the present day; None is no day.
ASSUME HistoryAssumption ==
  /\ {Retention, LastDay, MaxErrors} \subseteq Nat
  /\ None \notin History!Day

\* None is no content, executable, request or anything else of a package, and a
\* package is no executable.
ASSUME PackageAssumption ==
  /\ Seed \in Content \cup {None} /\ MaxEvents \in Nat
  /\ None \notin Content \cup Entry \cup Job \cup Packages!Executable \cup Packages!MinerRecord
  /\ None \notin [Packages!Format -> Packages!Opt(Content)]
  /\ Content \cap Packages!Executable = {}

\* Finitely many rigs; None is no rig's state.
ASSUME AlertAssumption ==
  /\ IsFiniteSet(Rig) /\ {LogLimit, MaxFailures} \subseteq Nat
  /\ None \notin Alerts!Watched

Service == {"configuration", "packages", "enrollment", "alerts", "history",
            "users", "updates", "cache"}

\* The variables of each service, as its module groups them.
packageVars    == << record, saved, born, files, lock, jobs, up, trusted, quiet,
                     operations, faults >>
alertVars      == << farm, savedFarm, known, failures >>
historyVars    == << today, wrong, enrolled, series, savedSeries, dayFiles, serving,
                     stored, misled, errors >>

\* All services but p stay as they are.
Only(p) ==
  /\ part = p /\ UNCHANGED part
  /\ IF p = "configuration"  THEN TRUE ELSE UNCHANGED vars
  /\ IF p = "packages"       THEN TRUE ELSE UNCHANGED packageVars
  /\ IF p = "enrollment"     THEN TRUE ELSE UNCHANGED enrollmentVars
  /\ IF p = "alerts"         THEN TRUE ELSE UNCHANGED alertVars
  /\ IF p = "history"        THEN TRUE ELSE UNCHANGED historyVars
  /\ IF p = "users"          THEN TRUE ELSE UNCHANGED accountVars
  /\ IF p = "updates"        THEN TRUE ELSE UNCHANGED updateVars
  /\ IF p = "cache"          THEN TRUE ELSE UNCHANGED cacheVars

\* Of a service's initial states the others need only one.
ControllerInit ==
  /\ part \in Service
  /\ Init /\ Alerts!AlertInit /\ AccountsInit
  /\ Packages!PackageInit /\ (part = "packages" \/ record = None)
  /\ EnrollmentInit
  /\ drive.image = None /\ (part = "enrollment" \/ image.content = None)
  /\ History!HistoryInit
  /\ part = "history" \/ series.embedded = [r \in Rig |-> {}]
  /\ UpdateInit
  /\ part = "updates" \/ \A v \in DOMAIN works : works[v]
  /\ CacheInit /\ (part = "cache" \/ kind = "pool")

ControllerNext ==
  \/ Only("configuration") /\ Next
  \/ Only("packages")      /\ Packages!PackageNext
  \/ Only("enrollment")    /\ EnrollmentNext
  \/ Only("alerts")        /\ Alerts!AlertNext
  \/ Only("history")       /\ History!HistoryNext
  \/ Only("users")         /\ AccountsNext
  \/ Only("updates")       /\ UpdateNext
  \/ Only("cache")         /\ CacheNext

controllerVars ==
  << vars, packageVars, enrollmentVars, alertVars, historyVars, accountVars,
     updateVars, cacheVars, part >>

ControllerSpec == ControllerInit /\ [][ControllerNext]_controllerVars

ServiceSymmetry == Permutations(Rig) \cup Permutations(Identity)

-----------------------------------------------------------------------------
(* What the services promise, each as its module states it. *)

\* Every variable of every service keeps to its values.
ControllerTypeOK ==
  /\ TypeOK /\ part \in Service
  /\ Packages!PackageTypeOK /\ EnrollmentTypeOK /\ Alerts!AlertTypeOK
  /\ History!HistoryTypeOK /\ AccountsTypeOK /\ UpdateTypeOK
  /\ CacheTypeOK

\* A rig gets the package whose digest it has been told, in spite of overlapping
\* uploads, imports and edits (packages.go:96).
ServedPackageMatches == Packages!ServedPackageMatches

\* A failed import leaves no trace (custom_packages.go:20).
FailedImportUndone == Packages!FailedImportUndone

\* A started controller serves its built-in package (main.go:60).
StartsWithSeed == Packages!StartsWithSeed

\* The active alerts of a rig are what was last found of it (telemetry.go:233).
AlertsMatch == Alerts!AlertsMatch

\* No sample disappears before its time (telemetry.go:405).
HistoryKept == History!HistoryKept

=============================================================================
