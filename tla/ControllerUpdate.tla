--------------------------- MODULE ControllerUpdate ---------------------------
(***************************************************************************)
(* The one-click update of the controller. The controller downloads and    *)
(* verifies the latest release and starts a helper, which stops the        *)
(* service, backs the executable up, replaces it, publishes the agents of  *)
(* the release, starts the service and, if it does not get healthy, goes   *)
(* back to the backup. Every file operation may fail, the machine may      *)
(* restart at any point, and nothing keeps a second helper from starting.  *)
(*                                                                         *)
(* Sources: cmd/minerdash-updater/main.go; internal/server/                *)
(* application_updates.go (installApplicationUpdate,                       *)
(* applicationVersionLess).                                                *)
(*                                                                         *)
(* A file is the version it holds, 0 if it is not there. The staged files  *)
(* of a release are verified and complete. A helper's working title is its *)
(* next step; copyFile removes the destination and renames a whole copy    *)
(* into its place.                                                         *)
(***************************************************************************)
EXTENDS Integers

CONSTANTS
  Helper,
  Newest,        \* bound on the releases
  MaxMishaps     \* bound on failing steps and restarts of the machine

ASSUME UpdateAssumption == Newest \in Nat \ {0} /\ MaxMishaps \in Nat

Release == 1 .. Newest
File == 0 .. Newest
Architecture == {"amd64", "arm64"}

Step == {"idle", "stop", "discard", "backup", "remove", "replace",
         "amd64", "amd64 rename", "arm64", "arm64 rename", "start", "health",
         "back", "back remove", "back rename", "back start", "ended"}

Task == [at : Step, target : File, clean : BOOLEAN]

VARIABLES
  works,         \* the releases whose controller gets healthy
  server,        \* the installed executable
  previous,      \* its backup
  agents,        \* the published agents
  running,       \* the version the service runs, 0 if it is stopped
  helpers,       \* per helper its step, its release, and whether nothing but
                 \* itself has interfered since it was started (history)
  overlapped,    \* history: two helpers have worked at once
  mishaps

updateVars == << works, server, previous, agents, running, helpers, overlapped, mishaps >>

-----------------------------------------------------------------------------

Healthy == running # 0 /\ works[running]

Working(h) == helpers[h].at \notin {"idle", "ended"}

Go(h, step) == helpers' = [helpers EXCEPT ![h].at = step]

\* A step that fails ends the helper, or the part the code carries on after.
Mishap(h, step) ==
  /\ mishaps < MaxMishaps /\ mishaps' = mishaps + 1
  /\ helpers' = [i \in Helper |-> [helpers[i] EXCEPT !.clean = FALSE,
                                                     !.at = IF i = h THEN step ELSE @]]

Same == UNCHANGED << works, overlapped >>

\* installApplicationUpdate, by a controller that answers and is older; the
\* download and the verification have succeeded.
InstallUpdate(h, v) ==
  /\ Healthy /\ running < v
  /\ ~Working(h)
  /\ helpers' = [i \in Helper |-> IF i = h THEN [at |-> "stop", target |-> v, clean |-> TRUE]
                                  ELSE [helpers[i] EXCEPT !.clean = FALSE]]
  /\ overlapped' = (overlapped \/ \E i \in Helper : Working(i))
  /\ UNCHANGED << works, server, previous, agents, running, mishaps >>

\* sc.exe stop, and waiting; it may stop after the helper has given up.
StopService(h) ==
  /\ helpers[h].at = "stop"
  /\ \/ running' = 0 /\ Go(h, "discard") /\ UNCHANGED mishaps
     \/ running' \in {0, running} /\ Mishap(h, "ended")
  /\ Same /\ UNCHANGED << server, previous, agents >>

DiscardBackup(h) ==
  /\ helpers[h].at = "discard"
  /\ \/ previous' = 0 /\ Go(h, "backup") /\ UNCHANGED mishaps
     \/ Mishap(h, "ended") /\ UNCHANGED previous
  /\ Same /\ UNCHANGED << server, agents, running >>

\* Faulty variant: the executable is only replaced.
NoBackUp(h) ==
  /\ helpers[h].at = "backup"
  /\ Go(h, "remove")
  /\ Same /\ UNCHANGED << server, previous, agents, running, mishaps >>

BackUp(h) ==
  /\ helpers[h].at = "backup"
  /\ \/ server # 0 /\ previous' = server /\ Go(h, "remove") /\ UNCHANGED mishaps
     \/ server = 0 /\ Go(h, "ended") /\ UNCHANGED << previous, mishaps >>
     \/ Mishap(h, "ended") /\ UNCHANGED previous
  /\ Same /\ UNCHANGED << server, agents, running >>

\* Windows does not remove an executable that runs.
InUse == running # 0

\* The copy is complete before the old executable goes, and renamed after.
RemoveOld(h) ==
  /\ helpers[h].at = "remove"
  /\ \/ ~InUse /\ server' = 0 /\ Go(h, "replace") /\ UNCHANGED mishaps
     \/ InUse /\ Go(h, "ended") /\ UNCHANGED << server, mishaps >>
     \/ Mishap(h, "ended") /\ UNCHANGED server
  /\ Same /\ UNCHANGED << previous, agents, running >>

Replace(h) ==
  /\ helpers[h].at = "replace"
  /\ \/ server' = helpers[h].target /\ Go(h, "amd64") /\ UNCHANGED mishaps
     \/ Mishap(h, "ended") /\ UNCHANGED server
  /\ Same /\ UNCHANGED << previous, agents, running >>

PublishAgents(h) ==
  /\ \/ \E a \in Architecture :
          /\ helpers[h].at = a
          /\ \/ /\ agents' = [agents EXCEPT ![a] = 0] /\ UNCHANGED mishaps
                /\ Go(h, IF a = "amd64" THEN "amd64 rename" ELSE "arm64 rename")
             \/ Mishap(h, "ended") /\ UNCHANGED agents
     \/ /\ helpers[h].at = "amd64 rename"
        /\ \/ /\ agents' = [agents EXCEPT !["amd64"] = helpers[h].target]
              /\ Go(h, "arm64") /\ UNCHANGED mishaps
           \/ Mishap(h, "ended") /\ UNCHANGED agents
     \/ /\ helpers[h].at = "arm64 rename"
        /\ \/ /\ agents' = [agents EXCEPT !["arm64"] = helpers[h].target]
              /\ Go(h, "start") /\ UNCHANGED mishaps
           \/ Mishap(h, "ended") /\ UNCHANGED agents
  /\ Same /\ UNCHANGED << server, previous, running >>

StartService(h) ==
  /\ helpers[h].at = "start"
  /\ \/ server # 0 /\ running = 0 /\ running' = server /\ Go(h, "health") /\ UNCHANGED mishaps
     \/ (server = 0 \/ running # 0) /\ Go(h, "back") /\ UNCHANGED << running, mishaps >>
     \/ Mishap(h, "back") /\ UNCHANGED running
  /\ Same /\ UNCHANGED << server, previous, agents >>

\* Faulty variant: a service that was started is fine.
NoHealthCheck(h) ==
  /\ helpers[h].at = "health"
  /\ previous' = 0 /\ Go(h, "ended")
  /\ Same /\ UNCHANGED << server, agents, running, mishaps >>

\* A healthy controller ends the update, and its backup is removed if possible.
CheckHealth(h) ==
  /\ helpers[h].at = "health"
  /\ \/ /\ Healthy
        /\ previous' \in {0, previous} /\ Go(h, "ended") /\ UNCHANGED mishaps
     \/ /\ ~Healthy
        /\ Go(h, "back") /\ UNCHANGED << previous, mishaps >>
     \/ Mishap(h, "back") /\ UNCHANGED previous
  /\ Same /\ UNCHANGED << server, agents, running >>

\* rollback, which does not mind if the service does not stop.
RollBack(h) ==
  /\ \/ /\ helpers[h].at = "back"
        /\ UNCHANGED server
        /\ \/ running' = 0 /\ Go(h, "back remove") /\ UNCHANGED mishaps
           \/ Mishap(h, "back remove") /\ UNCHANGED running
     \/ /\ helpers[h].at = "back remove"
        /\ UNCHANGED running
        /\ \/ /\ previous # 0 /\ ~InUse
              /\ server' = 0 /\ Go(h, "back rename") /\ UNCHANGED mishaps
           \/ /\ previous = 0 \/ InUse
              /\ Go(h, "ended") /\ UNCHANGED << server, mishaps >>
           \/ Mishap(h, "ended") /\ UNCHANGED server
     \/ /\ helpers[h].at = "back rename"
        /\ UNCHANGED running
        /\ \/ server' = previous /\ Go(h, "back start") /\ UNCHANGED mishaps
           \/ Mishap(h, "ended") /\ UNCHANGED server
     \/ /\ helpers[h].at = "back start"
        /\ UNCHANGED server
        /\ \/ /\ running' = IF running = 0 THEN server ELSE running
              /\ Go(h, "ended") /\ UNCHANGED mishaps
           \/ Mishap(h, "ended") /\ UNCHANGED running
  /\ Same /\ UNCHANGED << previous, agents >>

\* The machine restarts: the helpers are gone and Windows starts the service.
RestartMachine ==
  /\ mishaps < MaxMishaps /\ mishaps' = mishaps + 1
  /\ helpers' = [h \in Helper |-> [helpers[h] EXCEPT !.at = "idle", !.clean = FALSE]]
  /\ running' = server
  /\ UNCHANGED << works, server, previous, agents, overlapped >>

\* An operator starts a service that was left stopped.
OperatorStart ==
  /\ running = 0 /\ server # 0 /\ \A h \in Helper : ~Working(h)
  /\ running' = server
  /\ UNCHANGED << works, server, previous, agents, helpers, overlapped, mishaps >>

\* Releases may be broken, but not the one installed.
UpdateInit ==
  /\ works \in {w \in [Release -> BOOLEAN] : w[1]}
  /\ server = 1 /\ previous = 0 /\ running = 1
  /\ agents = [a \in Architecture |-> 1]
  /\ helpers = [h \in Helper |-> [at |-> "idle", target |-> 0, clean |-> FALSE]]
  /\ overlapped = FALSE /\ mishaps = 0

UpdateNext ==
  \/ \E h \in Helper :
       \/ \E v \in Release : InstallUpdate(h, v)
       \/ StopService(h) \/ DiscardBackup(h) \/ BackUp(h) \/ RemoveOld(h) \/ Replace(h)
       \/ PublishAgents(h) \/ StartService(h) \/ CheckHealth(h) \/ RollBack(h)
  \/ RestartMachine \/ OperatorStart

UpdateSpec == UpdateInit /\ [][UpdateNext]_updateVars

-----------------------------------------------------------------------------

UpdateTypeOK ==
  /\ works \in [Release -> BOOLEAN]
  /\ server \in File /\ previous \in File /\ running \in File
  /\ agents \in [Architecture -> File]
  /\ helpers \in [Helper -> Task]
  /\ overlapped \in BOOLEAN /\ mishaps \in 0 .. MaxMishaps

\* While helpers do not overlap, an update loses nothing, whichever step fails and
\* wherever the machine stops (main.go:61-88): a controller that works is installed
\* or in the backup; and an update whose only trouble is its own controller ends
\* with the new one if it works and the one before if it does not.
ControllerKept ==
  overlapped \/
    /\ \E v \in {server, previous} \ {0} : works[v]
    /\ \A h \in Helper : helpers[h].at = "ended" /\ helpers[h].clean =>
         /\ Healthy /\ running = server
         /\ works[helpers[h].target] => running = helpers[h].target

=============================================================================
