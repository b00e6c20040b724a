---------------------------- MODULE RigEnrollment ----------------------------
(***************************************************************************)
(* How a rig gets its credential. The controller writes a USB drive with   *)
(* the Rig OS image and a provisioning file, which holds the rig's name    *)
(* and a one-time enrollment token; the machine that boots from the drive  *)
(* sends both to the controller and gets an identity. One USB operation    *)
(* runs at a time, step by step beside everything else, and any step may   *)
(* fail; answers to a machine are lost and it asks again; saves fail and   *)
(* the controller crashes.                                                 *)
(*                                                                         *)
(* Sources: internal/server/store.go (Enroll, CreateEnrollmentGrant,       *)
(* RevokeEnrollmentGrant), usb.go, rigos.go, internal/agent/client.go      *)
(* (Run, enroll); deploy/linux/image/first-boot-identity.sh and            *)
(* scripts/enroll-linux-agent.sh.                                          *)
(*                                                                         *)
(* There is one drive; a machine that is cloned from it holds the same     *)
(* provisioning. Tokens and identities are random and never made twice.    *)
(***************************************************************************)
EXTENDS Absent, Integers

CONSTANTS
  Token,         \* one-time enrollment tokens
  Identity,      \* the identifiers of enrolled rigs
  RigName,       \* names of rigs, up to case
  Machine,       \* machines that boot from the drive
  Version,       \* Rig OS releases
  MaxTasks,      \* bound on USB operations
  MaxTroubles    \* bound on failing saves, crashes, unreadable files and bad writes

Grant  == [name : RigName, expired : BOOLEAN]

\* None is no grant and no token; the farm's shared token is no one-time token.
ASSUME EnrollmentAssumption ==
  /\ None \notin Grant /\ None \notin Token /\ "shared" \notin Token
  /\ MaxTasks \in Nat /\ MaxTroubles \in Nat

Registry   == [grants : [Token -> Opt(Grant)], rigs : [Identity -> Opt(RigName)]]

\* What a machine finds on its drive.
Provisioning == [name : RigName, token : Token]

Action == {"download", "flash", "pair", "restore"}
Stage  == {"none", "start", "image", "download", "digest", "ready", "erased",
           "written", "pairing", "revoking"}

Operation == [state : {"idle", "running", "failed", "complete"}, at : Stage,
              action : Opt(Action), name : Opt(RigName), token : Opt(Token),
              release : Opt(Version), \* the one being downloaded or expected on the drive
              kept : BOOLEAN]         \* history: the revocation was not saved

VARIABLES
  memory, file,  \* the controller's grants and rigs, in memory and saved
  usb,           \* the last USB operation
  image,         \* the files in the image directory: manifest, content, digest
  drive,         \* the image and the provisioning on the drive
  machines,      \* per machine its provisioning, requests and identity
  issued,        \* the tokens made so far
  by,            \* history: with which token each identity was enrolled
  tasks, troubles

enrollmentVars == << memory, file, usb, image, drive, machines, issued, by,
                     tasks, troubles >>

-----------------------------------------------------------------------------

Nobody == [grants |-> [t \in Token |-> None], rigs |-> [i \in Identity |-> None]]
NoTask == [state |-> "idle", at |-> "none", action |-> None, name |-> None,
           token |-> None, release |-> None, kept |-> FALSE]
Blank  == [image |-> None, conf |-> None]
Bare   == [conf |-> None, asked |-> 0, id |-> None]

NameTaken(s, n) == \E i \in Identity : s.rigs[i] = n

Unused == {i \in Identity : by[i] = None}

\* The grant for a token still lets a rig of this name in.
Lets(s, t, n) == s.grants[t] = [name |-> n, expired |-> FALSE]

Trouble == troubles < MaxTroubles /\ troubles' = troubles + 1
NoTrouble == UNCHANGED troubles

\* saveLocked: all of s, or everything as it was saved last.
Save(s) == \/ memory' = s /\ file' = s /\ NoTrouble
           \/ memory' = file /\ UNCHANGED file /\ Trouble

Saved == UNCHANGED troubles

-----------------------------------------------------------------------------
(* The controller's grants. *)

\* Expired grants and those of the same name are replaced.
Granted(s, t, n) ==
  [s EXCEPT !.grants =
     [u \in Token |->
        IF u = t THEN [name |-> n, expired |-> FALSE]
        ELSE IF s.grants[u] = None THEN None
        ELSE IF s.grants[u].expired \/ s.grants[u].name = n THEN None
        ELSE s.grants[u]]]

\* Faulty variant: the grant stays until it expires.
NotRedeemed(s, t, n, i) == [s EXCEPT !.rigs[i] = n]

Redeemed(s, t, n, i) == [s EXCEPT !.grants[t] = None, !.rigs[i] = n]

Revoked(s, t) == [s EXCEPT !.grants[t] = None]

\* By hand, with the shared token, which is no grant.
EnrollShared(n, i) ==
  /\ i \in Unused /\ ~NameTaken(memory, n)
  /\ Save([memory EXCEPT !.rigs[i] = n])
  /\ by' = [by EXCEPT ![i] = IF Saved THEN "shared" ELSE None]
  /\ UNCHANGED << usb, image, drive, machines, issued, tasks >>

RemoveRig(i) ==
  /\ memory.rigs[i] # None
  /\ Save([memory EXCEPT !.rigs[i] = None])
  /\ UNCHANGED << usb, image, drive, machines, issued, by, tasks >>

\* Thirty days pass.
Expire(t) ==
  LET Old(s) == [s EXCEPT !.grants[t].expired = TRUE]
  IN /\ memory.grants[t] # None /\ file.grants[t] # None
     /\ ~memory.grants[t].expired
     /\ memory' = Old(memory) /\ file' = Old(file)
     /\ UNCHANGED << usb, image, drive, machines, issued, by, tasks, troubles >>

-----------------------------------------------------------------------------
(* USB operations. *)

At(stage, actions) == /\ usb.state = "running" /\ usb.at = stage
                      /\ usb.action \in actions

To(stage) == usb' = [usb EXCEPT !.at = stage]
Completed == usb' = [usb EXCEPT !.state = "complete", !.at = "none"]
Failed == usb' = [usb EXCEPT !.state = "failed", !.at = "none"]

\* Faulty variant: only pair takes its grant back.
OnlyAnError == Failed

\* A flash that made a grant revokes it on its way out, and so does a pair.
GiveUp == IF usb.token = None THEN Failed ELSE To("revoking")

OnlyUsb == UNCHANGED << memory, file, image, drive, machines, issued, by, tasks, troubles >>

\* begin: one operation at a time.
Begin(action, n) ==
  /\ usb.state # "running" /\ tasks < MaxTasks
  /\ tasks' = tasks + 1
  /\ usb' = [NoTask EXCEPT !.state = "running", !.action = action,
               !.name = IF action \in {"flash", "pair"} THEN n ELSE None,
               !.at = IF action = "download" THEN "image" ELSE "start"]
  /\ UNCHANGED << memory, file, image, drive, machines, issued, by, troubles >>

\* The drive is gone, a request does not fit, a download is interrupted ...
Fail ==
  /\ usb.state = "running" /\ usb.at # "revoking"
  /\ GiveUp
  /\ OnlyUsb

\* createProvisioning
MakeGrant(t) ==
  /\ At("start", {"flash", "pair"}) /\ t \notin issued
  /\ ~NameTaken(memory, usb.name)
  /\ issued' = issued \cup {t}
  /\ Save(Granted(memory, t, usb.name))
  /\ IF Saved THEN usb' = [usb EXCEPT !.token = t,
                             !.at = IF usb.action = "flash" THEN "image" ELSE "pairing"]
              ELSE Failed
  /\ UNCHANGED << image, drive, machines, by, tasks >>

ImageReady == image.content # None /\ image.digest = image.content /\ image.manifest # None

\* ensureImage finds a verified image, and expects on the drive what the
\* build manifest beside it says ...
HaveImage ==
  /\ At("image", {"download", "flash"}) /\ ImageReady
  /\ usb' = [usb EXCEPT !.at = "ready", !.release = image.manifest]
  /\ OnlyUsb

\* ... or replaces the manifest, the image and its digest by those of the
\* latest release, one after the other.
GetManifest(v) ==
  /\ At("image", {"download", "flash"})
  /\ IF ImageReady THEN Trouble ELSE NoTrouble
  /\ image' = [image EXCEPT !.manifest = v]
  /\ usb' = [usb EXCEPT !.at = "download", !.release = v]
  /\ UNCHANGED << memory, file, drive, machines, issued, by, tasks >>

GetImage ==
  /\ At("download", {"download", "flash"})
  /\ image' = [image EXCEPT !.content = usb.release]
  /\ To("digest")
  /\ UNCHANGED << memory, file, drive, machines, issued, by, tasks, troubles >>

\* WriteFile may leave the digest unreadable.
GetDigest ==
  /\ At("digest", {"download", "flash"})
  /\ \/ image' = [image EXCEPT !.digest = usb.release] /\ To("ready")
     \/ image' = [image EXCEPT !.digest = None] /\ GiveUp
  /\ UNCHANGED << memory, file, drive, machines, issued, by, tasks, troubles >>

Downloaded ==
  /\ At("ready", {"download"})
  /\ Completed
  /\ OnlyUsb

Erase ==
  /\ At("ready", {"flash"})
  /\ drive' = Blank
  /\ To("erased") \/ GiveUp
  /\ UNCHANGED << memory, file, image, machines, issued, by, tasks, troubles >>

\* The image is decompressed onto the drive, and compared with the manifest.
Write ==
  /\ At("erased", {"flash"})
  /\ \/ drive' = [drive EXCEPT !.image = image.content] /\ NoTrouble
     \/ drive' = [drive EXCEPT !.image = "damaged"] /\ Trouble
  /\ IF image.content = usb.release THEN To("written") ELSE GiveUp
  /\ UNCHANGED << memory, file, image, machines, issued, by, tasks >>

\* verifyUSBContents reads it back.
Verify ==
  /\ At("written", {"flash"})
  /\ IF drive.image = usb.release THEN To("pairing") ELSE GiveUp
  /\ OnlyUsb

\* The provisioning file is written, perhaps in spite of an error.
Pair ==
  /\ At("pairing", {"flash", "pair"}) /\ drive.image # None
  /\ \/ /\ drive' = [drive EXCEPT !.conf = [name |-> usb.name, token |-> usb.token]]
        /\ Completed \/ GiveUp
     \/ drive' = [drive EXCEPT !.conf = None] /\ GiveUp
  /\ UNCHANGED << memory, file, image, machines, issued, by, tasks, troubles >>

RevokeGrant ==
  /\ usb.state = "running" /\ usb.at = "revoking"
  /\ Save(Revoked(memory, usb.token))
  /\ usb' = [usb EXCEPT !.state = "failed", !.at = "none", !.kept = ~Saved]
  /\ UNCHANGED << image, drive, machines, issued, by, tasks >>

Restore ==
  /\ At("start", {"restore"})
  /\ drive' = Blank
  /\ Completed \/ GiveUp
  /\ UNCHANGED << memory, file, image, machines, issued, by, tasks, troubles >>

-----------------------------------------------------------------------------
(* Machines. *)

\* The first boot, or a clone of the drive.
Boot(a) ==
  /\ usb.state # "running" /\ drive.image \in Version /\ drive.conf # None
  /\ machines[a].id = None
  /\ machines' = [machines EXCEPT ![a].conf = drive.conf]
  /\ UNCHANGED << memory, file, usb, image, drive, issued, by, tasks, troubles >>

\* The agent asks, or asks again after a timeout while the controller may yet
\* handle what it asked before.
Ask(a) ==
  /\ machines[a].conf # None /\ machines[a].id = None /\ machines[a].asked < 2
  /\ machines' = [machines EXCEPT ![a].asked = @ + 1]
  /\ UNCHANGED << memory, file, usb, image, drive, issued, by, tasks, troubles >>

\* Enroll, with a one-time token: it must let this name in and the name be free. The answer
\* reaches the agent, which saves its identity, or it does not.
EnrollWithGrant(a, i) ==
  LET c == machines[a].conf
  IN /\ machines[a].asked > 0 /\ i \in Unused
     /\ Lets(memory, c.token, c.name) /\ ~NameTaken(memory, c.name)
     /\ Save(Redeemed(memory, c.token, c.name, i))
     /\ by' = [by EXCEPT ![i] = IF Saved THEN c.token ELSE None]
     /\ \/ /\ Saved /\ machines[a].id = None
           /\ machines' = [machines EXCEPT ![a].asked = @ - 1, ![a].id = i]
           /\ drive' = IF drive.conf = c THEN [drive EXCEPT !.conf = None] ELSE drive
        \/ /\ machines' = [machines EXCEPT ![a].asked = @ - 1]
           /\ UNCHANGED drive
     /\ UNCHANGED << usb, image, issued, tasks >>

\* Refused, or lost on its way.
NotEnrolled(a) ==
  /\ machines[a].asked > 0
  /\ machines' = [machines EXCEPT ![a].asked = @ - 1]
  /\ UNCHANGED << memory, file, usb, image, drive, issued, by, tasks, troubles >>

-----------------------------------------------------------------------------

\* The controller stops at any point: the operation and the requests are gone.
Crash ==
  /\ Trouble
  /\ memory' = file
  /\ usb' = NoTask
  /\ machines' = [a \in Machine |-> [machines[a] EXCEPT !.asked = 0]]
  /\ UNCHANGED << file, image, drive, issued, by, tasks >>

\* A new controller, with or without the image it was installed with, and a
\* drive that is empty or was written by another tool.
EnrollmentInit ==
  /\ memory = Nobody /\ file = Nobody
  /\ usb = NoTask
  /\ \E v \in Opt(Version) : image = [manifest |-> v, content |-> v, digest |-> v]
  /\ \E v \in Opt(Version) : drive = [Blank EXCEPT !.image = v]
  /\ machines = [a \in Machine |-> Bare]
  /\ issued = {} /\ by = [i \in Identity |-> None]
  /\ tasks = 0 /\ troubles = 0

EnrollmentNext ==
  \/ \E action \in Action, n \in RigName : Begin(action, n)
  \/ \E t \in Token : MakeGrant(t)
  \/ \E v \in Version : GetManifest(v)
  \/ Fail \/ HaveImage \/ GetImage \/ GetDigest \/ Downloaded
  \/ Erase \/ Write \/ Verify \/ Pair \/ RevokeGrant \/ Restore
  \/ \E n \in RigName, i \in Identity : EnrollShared(n, i)
  \/ \E i \in Identity : RemoveRig(i)
  \/ \E t \in Token : Expire(t)
  \/ \E a \in Machine : Boot(a) \/ Ask(a) \/ NotEnrolled(a)
  \/ \E a \in Machine, i \in Identity : EnrollWithGrant(a, i)
  \/ Crash

EnrollmentSpec == EnrollmentInit /\ [][EnrollmentNext]_enrollmentVars

-----------------------------------------------------------------------------

EnrollmentTypeOK ==
  /\ memory \in Registry /\ file \in Registry
  /\ usb \in Operation
  /\ image \in [manifest : Opt(Version), content : Opt(Version), digest : Opt(Version)]
  /\ drive \in [image : Opt(Version) \cup {"damaged"}, conf : Opt(Provisioning)]
  /\ machines \in [Machine -> [conf : Opt(Provisioning), asked : 0 .. 2,
                               id : Opt(Identity)]]
  /\ issued \subseteq Token
  /\ by \in [Identity -> Opt(Token) \cup {"shared"}]
  /\ tasks \in 0 .. MaxTasks /\ troubles \in 0 .. MaxTroubles

\* A "one-use enrollment credential" (README.md:376, store.go:253) lets in one
\* rig only: however often a machine asks, the drive is cloned, the rig deleted
\* again, a save fails or the controller restarts.
GrantUsedOnce ==
  \A i, j \in Identity : by[i] = by[j] /\ by[i] \in Token => i = j

\* What the dashboard says of the last USB operation and what the drive can do
\* agree (usb.go:296, :353, :386). "Written, verified, and paired": a whole image
\* is on the drive, and its token lets the rig in or has done so. "Failed": its
\* token lets nobody in, unless even the revocation could not be saved.
WriterAndGrantAgree ==
  /\ usb.state = "complete" /\ usb.action = "flash" => drive.image = usb.release
  /\ usb.state = "complete" /\ usb.token # None =>
       \/ memory.grants[usb.token] # None /\ file.grants[usb.token] # None
       \/ \E i \in Identity : by[i] = usb.token
  /\ usb.state = "failed" /\ usb.token # None /\ ~usb.kept =>
       memory.grants[usb.token] = None /\ file.grants[usb.token] = None

=============================================================================
