---------------------------- MODULE PackageStore ----------------------------
(***************************************************************************)
(* One managed miner at the controller: its record, with the digests by    *)
(* which the agents verify what they download, and its package file, a     *)
(* plain executable or a tar.gz bundle. Bodies are read and hashed outside *)
(* the store's lock; the file is put in place and recorded under it.       *)
(* Uploads, catalogue refreshes, imports of custom miners, edits and       *)
(* deletions overlap, saves fail and the controller crashes.               *)
(*                                                                         *)
(* Sources: internal/server/packages.go, catalog_packages.go,              *)
(* custom_packages.go, rigos.go (InstallCatalogMiner), resources.go        *)
(* (SaveMiner, DeleteResource), cmd/minerdash-server/main.go.              *)
(*                                                                         *)
(* Identifiers are random and never used again, so one miner is followed   *)
(* from its creation to its deletion. The executable's name and the entry  *)
(* point of a bundle are one name here and change together. Errors of      *)
(* Close after a package was stored are left out.                          *)
(***************************************************************************)
EXTENDS Integers

CONSTANTS
  Content,       \* what a package file may hold
  Name,          \* names of the executable
  Job,           \* requests that upload, refresh or import
  Seed,          \* the content built into the controller, or None
  None,
  MaxEvents      \* bound on what operators start, failing steps and crashes

Opt(S) == S \cup {None}

Format == {"binary", "tar.gz"}
Other(f) == CHOOSE g \in Format : g # f

\* The digest of an executable: of the file itself, or of the entry a bundle
\* has under a name.
Executable == [of : Content, entry : Opt(Name)]

MinerRecord == [name : Name, format : Format,
                binary : Opt(Executable), package : Opt(Content)]

\* What a request does when its upload is over.
Kind == {"upload", "refresh", "import", "repair"}

Point == {"idle", "looking", "fetching", "reading", "backed", "placed",
          "recorded", "version", "cleanup"}

VARIABLES
  record,    \* the miner in memory
  saved,     \* the miner in the state file
  born,      \* whether it was ever created
  files,     \* the package file of either format
  lock,      \* the request that holds the store's lock for its upload
  jobs,      \* the requests
  up,        \* the controller has finished starting
  trusted,   \* history: nothing named in ServedPackageMatches has happened
  quiet,     \* history: for an import during which nobody else has changed the
             \* record or the files, the files it began with
  operations, faults   \* how many of either have happened

packageVars == << record, saved, born, files, lock, jobs, up, trusted, quiet,
                  operations, faults >>

-----------------------------------------------------------------------------

IdleJob == [kind |-> "upload", at |-> "idle", format |-> "binary",
            content |-> None, name |-> None, seen |-> None, was |-> None, old |-> None]

Digests(v) == {None} \cup (IF v = None THEN {} ELSE {v.binary, v.package})

\* SaveMiner keeps a digest that is not given while the name stays the same.
Kept(old, new) ==
  [new EXCEPT
     !.binary  = IF @ = None /\ old.name = new.name THEN old.binary ELSE @,
     !.package = IF @ = None /\ old.name = new.name THEN old.package ELSE @]

\* MinerBinaryForRig, for a rig whose sheet has the miner: the file it serves.
Served(v, fs) ==
  IF v = None \/ v.binary = None \/ (v.format = "tar.gz" /\ v.package = None)
    THEN None
    ELSE fs[v.format]

\* What the agent finds when it verifies content c against the record.
Verifies(v, c) ==
  IF v.format = "binary"
    THEN v.binary = [of |-> c, entry |-> None]
    ELSE v.package = c /\ v.binary = [of |-> c, entry |-> v.name]

\* Faulty variant: the digest of a bundle is recorded, that of its executable stays.
OldExecutable(v, n, f, c) ==
  IF f = "binary"
    THEN [v EXCEPT !.format = "binary", !.package = None,
                   !.binary = [of |-> c, entry |-> None]]
    ELSE [v EXCEPT !.package = c]

\* The record after saveMinerBinary or saveMinerBundle has stored content c, whose
\* executable was looked for under name n before the lock was taken.
Recorded(v, n, f, c) ==
  IF f = "binary"
    THEN [v EXCEPT !.format = "binary", !.package = None,
                   !.binary = [of |-> c, entry |-> None]]
    ELSE [v EXCEPT !.package = c, !.binary = [of |-> c, entry |-> n]]

\* Faulty variant: the digests of the record are enough.
RecordIntact == record.package = Seed /\ record.binary = [of |-> Seed, entry |-> record.name]

\* EnsureCatalogMinerPackage finds the built-in package in place.
SeedIntact ==
  /\ record.package = Seed /\ record.binary # None
  /\ files["tar.gz"] = Seed
  /\ record.binary = [of |-> Seed, entry |-> record.name]

Free == up /\ lock = None
Fault == operations + faults < MaxEvents /\ faults' = faults + 1
NoFault == UNCHANGED faults
Starts == operations + faults < MaxEvents /\ operations' = operations + 1

\* A SaveMiner that leaves v: it is a stale write-back if it brings a digest
\* that the record does not have.
SaveRecord(v) ==
  \/ /\ record' = v /\ saved' = v
     /\ trusted' = (trusted /\ Digests(v) \subseteq Digests(record))
     /\ NoFault
  \/ record' = saved /\ Fault /\ UNCHANGED << saved, trusted >>

Finish(j) == jobs' = [jobs EXCEPT ![j] = IdleJob]

\* An import is taken back when it fails, the others just end.
GiveUp(j) ==
  jobs' = [jobs EXCEPT ![j] = IF @.kind = "import" THEN [@ EXCEPT !.at = "cleanup"]
                                                   ELSE IdleJob]

-----------------------------------------------------------------------------
(* Operators edit and delete. *)

\* SaveMiner of a new miner, by InstallCatalogMiner or an operator.
Create(n, f) ==
  /\ Free /\ ~born
  /\ SaveRecord([name |-> n, format |-> f, binary |-> None, package |-> None])
  /\ born' = (record' # None)
  /\ UNCHANGED << files, lock, jobs, up, operations >>

\* SaveMiner of the present one. A client may send back the package digest
\* its page shows.
Edit(n, f, p) ==
  /\ Free /\ record # None /\ Starts
  /\ SaveRecord(Kept(record, [name |-> n, format |-> f, binary |-> None, package |-> p]))
  /\ UNCHANGED << born, files, lock, jobs, up >>

NoFiles == [f \in Format |-> None]

\* DeleteResource of a miner no sheet uses: gone from memory, then its files,
\* one by one, then from the state file.
Removed ==
  \/ /\ record' = None /\ saved' = None /\ files' = NoFiles /\ NoFault
  \/ /\ record' = saved /\ files' = NoFiles /\ Fault /\ UNCHANGED saved
  \/ /\ record' = None /\ Fault /\ UNCHANGED saved
     /\ files' \in {files, [files EXCEPT !["binary"] = None]}

Delete ==
  /\ Free /\ record # None /\ Starts
  /\ Removed
  /\ UNCHANGED << born, lock, jobs, up, trusted >>

\* Any other operation of the store saves the whole state, or goes back.
SaveElsewhere ==
  /\ Free /\ record # saved
  /\ \/ saved' = record /\ UNCHANGED record
     \/ record' = saved /\ UNCHANGED saved
  /\ UNCHANGED << born, files, lock, jobs, up, trusted, operations, faults >>

-----------------------------------------------------------------------------
(* Uploads. *)

\* A request begins to fetch or receive content c: SaveMinerPackage with the
\* format of the record, EnsureCatalogMinerPackage always with an executable.
StartUpload(j, kind, f, c) ==
  /\ Free /\ jobs[j].at = "idle" /\ record # None /\ Starts
  /\ \/ kind = "upload" /\ f = record.format
     \/ kind = "refresh" /\ f = "binary"
  /\ jobs' = [jobs EXCEPT ![j] = [IdleJob EXCEPT !.kind = kind, !.at = "fetching",
                                                 !.format = f, !.content = c]]
  /\ UNCHANGED << record, saved, born, files, lock, up, trusted, faults >>

\* The built-in package, at start-up and whenever its miner is installed.
StartRepair(j) ==
  /\ Seed # None /\ lock = None /\ record # None /\ ~SeedIntact
  /\ IF up THEN jobs[j].at = "idle" /\ Starts
           ELSE (\A i \in Job : jobs[i].at = "idle") /\ UNCHANGED operations
  /\ jobs' = [jobs EXCEPT ![j] = [IdleJob EXCEPT !.kind = "repair", !.at = "fetching",
                                                 !.format = "tar.gz", !.content = Seed]]
  /\ UNCHANGED << record, saved, born, files, lock, up, trusted, faults >>

\* saveMinerBinary and saveMinerBundle note the definition, then read the body.
Read(j) ==
  /\ jobs[j].at = "fetching" /\ lock = None /\ record # None
  /\ jobs[j].format = "tar.gz" => record.format = "tar.gz"
  /\ jobs' = [jobs EXCEPT ![j].at = "reading", ![j].seen = record]
  /\ UNCHANGED << record, saved, born, files, lock, up, trusted, operations, faults >>

NothingStored == UNCHANGED << record, saved, born, files, lock, up, trusted, operations, faults >>

\* The release, its archive, the digest it publishes or the executable in it is no good.
RefuseRelease(j) ==
  /\ jobs[j].at = "fetching" /\ jobs[j].kind = "refresh"
  /\ GiveUp(j) /\ NothingStored

\* The address of a custom miner is not public or answers with something else.
RefuseDownload(j) ==
  /\ jobs[j].at = "fetching" /\ jobs[j].kind = "import"
  /\ GiveUp(j) /\ NothingStored

\* The body is empty, too long or interrupted; or the bundle lacks its entry point,
\* or a digest is not the one expected; or the miner is gone, or has changed.
RefuseBody(j) ==
  /\ jobs[j].at \in {"fetching", "reading"}
  /\ GiveUp(j) /\ NothingStored

\* Faulty variant: the definition may have changed meanwhile.
StillThere(j) == record # None

StillTheSame(j) == record # None /\ record = jobs[j].seen

\* stagePackageFile: the present file becomes the backup ...
BackUp(j) ==
  LET f == jobs[j].format
  IN /\ jobs[j].at = "reading" /\ lock = None
     /\ StillTheSame(j)
     /\ lock' = j
     /\ files' = [files EXCEPT ![f] = None]
     /\ jobs' = [jobs EXCEPT ![j].at = "backed", ![j].old = files[f]]
     /\ UNCHANGED << record, saved, born, up, trusted, operations, faults >>

\* ... and the new one takes its place, or the backup is put back.
Place(j) ==
  LET f == jobs[j].format
  IN /\ jobs[j].at = "backed"
     /\ \/ /\ files' = [files EXCEPT ![f] = jobs[j].content]
           /\ jobs' = [jobs EXCEPT ![j].at = "placed"]
           /\ NoFault /\ UNCHANGED lock
        \/ /\ files' = [files EXCEPT ![f] = jobs[j].old]
           /\ lock' = None /\ GiveUp(j) /\ Fault
     /\ UNCHANGED << record, saved, born, up, trusted, operations >>

\* Faulty variant: a failed save leaves the new file.
LeftInPlace(j) == files

\* After a failed save: the new file removed, the backup restored.
PutBack(j) == [files EXCEPT ![jobs[j].format] = jobs[j].old]

Record(j) ==
  LET v == Recorded(record, jobs[j].seen.name, jobs[j].format, jobs[j].content)
  IN /\ jobs[j].at = "placed"
     /\ \/ /\ record' = v /\ saved' = v /\ NoFault
           /\ jobs' = [jobs EXCEPT ![j].at = "recorded"]
           /\ UNCHANGED << files, lock >>
        \/ /\ record' = saved /\ Fault /\ UNCHANGED saved
           /\ files' = PutBack(j)
           /\ lock' = None /\ GiveUp(j)
     /\ UNCHANGED << born, up, trusted, operations >>

\* The file of the other format goes, and the lock is released. A refreshed
\* miner then gets its version. A controller that was starting has finished with its
\* repair, and does not look at the package again.
Tidy(j) ==
  /\ jobs[j].at = "recorded"
  /\ files' = [files EXCEPT ![Other(jobs[j].format)] = None]
  /\ lock' = None
  /\ jobs' = [jobs EXCEPT ![j] = IF @.kind = "refresh"
                                   THEN [@ EXCEPT !.at = "version", !.seen = record]
                                   ELSE IdleJob]
  /\ trusted' = TRUE /\ up' = TRUE
  /\ UNCHANGED << record, saved, born, operations, faults >>

\* EnsureCatalogMinerPackage saves the record it got back, with its version.
SaveVersion(j) ==
  /\ Free /\ jobs[j].at = "version"
  /\ IF record = None THEN UNCHANGED << record, saved, trusted, faults >>
                      ELSE SaveRecord(Kept(record, jobs[j].seen))
  /\ Finish(j)
  /\ UNCHANGED << born, files, lock, up, operations >>

-----------------------------------------------------------------------------
(* Importing a custom or community miner. *)

\* The miner already there, by its catalogue identifier, is remembered ...
LookUp(j, n, f, c) ==
  /\ Free /\ jobs[j].at = "idle" /\ Starts
  /\ born => record # None
  /\ jobs' = [jobs EXCEPT ![j] = [IdleJob EXCEPT !.kind = "import", !.at = "looking",
                !.format = f, !.content = c, !.name = n, !.was = record]]
  /\ UNCHANGED << record, saved, born, files, lock, up, trusted, faults >>

\* ... and replaced by the definition to import, or the new one created.
Define(j) ==
  LET v == [name |-> jobs[j].name, format |-> jobs[j].format,
            binary |-> None, package |-> None]
  IN /\ Free /\ jobs[j].at = "looking"
     /\ IF born /\ record = None
          THEN Finish(j) /\ UNCHANGED << record, saved, trusted, born, faults >>
          ELSE /\ SaveRecord(IF record = None THEN v ELSE Kept(record, v))
               /\ born' = (born \/ record' # None)
               /\ jobs' = [jobs EXCEPT ![j] = IF faults' = faults
                             THEN [@ EXCEPT !.at = "fetching"] ELSE IdleJob]
     /\ UNCHANGED << files, lock, up, operations >>

\* Faulty variant: the new definition stays.
NotUndone(j) ==
  /\ Free /\ jobs[j].at = "cleanup"
  /\ Finish(j)
  /\ UNCHANGED << record, saved, trusted, files, faults, born, lock, up, operations >>

\* A failed import saves the remembered definition or deletes the new miner,
\* unless somebody has deleted it or put it on a sheet.
Undo(j) ==
  /\ Free /\ jobs[j].at = "cleanup"
  /\ \/ /\ record # None /\ jobs[j].was # None
        /\ SaveRecord(Kept(record, jobs[j].was)) /\ UNCHANGED files
     \/ /\ record # None /\ jobs[j].was = None
        /\ Removed /\ UNCHANGED trusted
     \/ /\ \/ record = None /\ NoFault
           \/ record # None /\ jobs[j].was = None /\ Fault
        /\ UNCHANGED << record, saved, trusted, files >>
  /\ Finish(j)
  /\ UNCHANGED << born, lock, up, operations >>

-----------------------------------------------------------------------------
(* The controller stops and starts. *)

\* A stop or crash at any point. With a built-in package the new process
\* refreshes it before it serves (RefreshInstalledEmbeddedMinerPackages): it finds
\* it intact (StartupDone) or repairs it (StartRepair to Tidy). A failed repair ends
\* the process; the next one has the same record and files and repairs again.
Restart ==
  /\ IF up THEN Fault ELSE NoFault
  /\ record' = saved /\ lock' = None
  /\ jobs' = [j \in Job |-> IdleJob]
  /\ up' = (Seed = None \/ saved = None)
  /\ trusted' = (trusted /\ lock = None)
  /\ UNCHANGED << saved, born, files, operations >>

\* The built-in package was in place: nothing to repair.
StartupDone ==
  /\ ~up /\ \A j \in Job : jobs[j].at = "idle"
  /\ SeedIntact
  /\ up' = TRUE
  /\ UNCHANGED << record, saved, born, files, lock, jobs, trusted, operations, faults >>

-----------------------------------------------------------------------------

\* The miner is not there yet, or defined, or has had a package uploaded.
PackageInit ==
  /\ \/ record = None /\ files = NoFiles
     \/ \E n \in Name, f \in Format, c \in Opt(Content) :
          LET v == [name |-> n, format |-> f, binary |-> None, package |-> None]
          IN /\ record = IF c = None THEN v ELSE Recorded(v, n, f, c)
             /\ files = [NoFiles EXCEPT ![f] = c]
  /\ saved = record /\ born = (record # None) /\ lock = None
  /\ jobs = [j \in Job |-> IdleJob]
  /\ up = TRUE /\ trusted = TRUE
  /\ quiet = [j \in Job |-> None]
  /\ operations = 0 /\ faults = 0

JobStep(j) ==
  \/ \E kind \in {"upload", "refresh"}, f \in Format, c \in Content :
       StartUpload(j, kind, f, c)
  \/ \E n \in Name, f \in Format, c \in Content : LookUp(j, n, f, c)
  \/ StartRepair(j)
  \/ Read(j) \/ RefuseRelease(j) \/ RefuseDownload(j) \/ RefuseBody(j)
  \/ BackUp(j) \/ Place(j) \/ Record(j) \/ Tidy(j) \/ SaveVersion(j)
  \/ Define(j) \/ Undo(j)

StoreStep ==
  \/ \E n \in Name, f \in Format : Create(n, f)
  \/ \E n \in Name, f \in Format, p \in Opt(Content) : Edit(n, f, p)
  \/ Delete \/ SaveElsewhere \/ Restart \/ StartupDone

Changes == << record, files >>' # << record, files >>

\* Who has been disturbed by a step of the requests in S.
Disturbed(S) ==
  quiet' = [j \in Job |->
    IF jobs'[j].at = "looking" /\ jobs[j].at = "idle" THEN files
    ELSE IF jobs'[j].at = "idle" \/ (Changes /\ j \notin S) THEN None
    ELSE quiet[j]]

PackageNext == \/ StoreStep /\ Disturbed({})
               \/ \E j \in Job : JobStep(j) /\ Disturbed({j})

PackageSpec == PackageInit /\ [][PackageNext]_packageVars

-----------------------------------------------------------------------------

JobRecord == [kind : Kind, at : Point, format : Format, content : Opt(Content),
              name : Opt(Name), seen : Opt(MinerRecord), was : Opt(MinerRecord),
              old : Opt(Content)]

PackageTypeOK ==
  /\ record \in Opt(MinerRecord) /\ saved \in Opt(MinerRecord)
  /\ files \in [Format -> Opt(Content)]
  /\ lock \in Opt(Job) /\ jobs \in [Job -> JobRecord]
  /\ quiet \in [Job -> Opt([Format -> Opt(Content)])]
  /\ {born, up, trusted} \subseteq BOOLEAN
  /\ operations \in 0 .. MaxEvents /\ faults \in 0 .. MaxEvents

\* The file a rig is given is the one its configuration has the digests of,
\* so that the agent accepts it (packages.go:96, :176, :297): whatever uploads,
\* imports, refreshes, edits and deletions overlap and whichever save fails.
\* Two things break this until the next upload: a crash while a file is being put in
\* place, and a SaveMiner that writes back digests read before another upload.
ServedPackageMatches ==
  LET c == Served(record, files)
  IN trusted /\ lock = None /\ c # None => Verifies(record, c)

\* "Installation is rejected and cleaned up if either downloaded hash does not
\* match" (README.md:244): an import that fails leaves the miner's definition
\* and its package as they were, if nobody else changed them meanwhile, also
\* when it got as far as putting the new file in place.
FailedImportUndone ==
  [][\A j \in Job :
       Undo(j) /\ UNCHANGED faults /\ quiet[j] # None =>
         record' = jobs[j].was /\ files' = quiet[j]]_packageVars

\* Whatever a crash, a failed save or a failed repair left behind, a controller that
\* comes to serve has the built-in package as its file, its record in memory and on
\* disk has the digests of that file, and no agent is told others (main.go:60,
\* catalog_packages.go:145-160). After a repair nothing looks at the package again.
StartsWithSeed ==
  [][~up /\ up' /\ record'.format = "tar.gz" =>
       /\ Served(record', files') = Seed
       /\ Verifies(record', Seed)
       /\ saved' = record']_packageVars

=============================================================================
