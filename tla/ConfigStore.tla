---------------------------- MODULE ConfigStore ----------------------------
(***************************************************************************)
(* The configuration the controller keeps for its farm: wallets, pools,    *)
(* miners, flight sheets with their fallbacks, overclock profiles, farms,  *)
(* schedules, the GPU power policy and, for every rig, the desired state   *)
(* with the revision by which the rig's agent notices a change. Every      *)
(* operation changes the state in memory under the store's lock and saves  *)
(* all of it; some return an error after they have changed the memory.     *)
(*                                                                         *)
(* Sources: internal/server/resources.go, quicksetup.go, schedules.go and  *)
(* store.go (Enroll, Heartbeat, FinishCommandResult, DeleteRig,            *)
(* saveLocked, rollbackLocked).                                            *)
(*                                                                         *)
(* An identifier stands for the random one the code makes up, so an unused *)
(* one may be taken again after its entry was deleted. What a save checks  *)
(* of the value alone (names, URLs, ranges, coins, algorithms) only        *)
(* refuses inputs and is left out; what it checks against other entries'   *)
(* existence, state or names is not.                                       *)
(***************************************************************************)
EXTENDS Absent, Integers, FiniteSets

CONSTANTS
  Wallet, Pool, Miner, Sheet, Profile, Farm, Schedule, Rig,  \* identifiers
  Name,          \* worker names, up to case
  Value,         \* contents, as far as they differ
  Rules,         \* watchdog and autofan rules
  Limit,         \* GPU power ceilings
  MinerInput,    \* the miner definitions an operator saves
  UserInput,     \* the wallet templates of the sheets an operator saves
  MaxRevision    \* bound on revisions

\* A miner that is "package-required" is not ready; login says that its stored
\* arguments contain {WALLET}.{WORKER} and are resolved in place.
MinerValue == [body : Value, ready : BOOLEAN, epic : BOOLEAN, login : BOOLEAN]

\* A sheet has no wallet template ("plain"), one with the rig's name ("named")
\* or one with a worker name of its own ("fixed").
Users == {"plain", "named", "fixed"}

\* One wallet and pool, or two of each when there is a secondary workload.
SheetValue == [wallets : SUBSET Wallet, pools : SUBSET Pool, miner : Miner,
               fallback : Opt(Sheet), user : Users, body : Value]

\* ran: LastRunMinute is the present minute.
ScheduleValue == [apply : BOOLEAN, sheet : Opt(Sheet), rigs : SUBSET Rig,
                  enabled : BOOLEAN, ran : BOOLEAN]

RigValue == [name : Name, farm : Opt(Farm), sheet : Opt(Sheet),
             profile : Opt(Profile), rules : Rules, gpus : BOOLEAN,
             revision : Nat]

State == [wallets   : [Wallet -> Opt(Value)],
          pools     : [Pool -> Opt(Value)],
          miners    : [Miner -> Opt(MinerValue)],
          sheets    : [Sheet -> Opt(SheetValue)],
          profiles  : [Profile -> Opt(Value)],
          farms     : SUBSET Farm,
          schedules : [Schedule -> Opt(ScheduleValue)],
          rigs      : [Rig -> Opt(RigValue)],
          policy    : Limit]

ASSUME NoneAssumption ==
  /\ None \notin Wallet \cup Pool \cup Miner \cup Sheet \cup Profile \cup Farm
                 \cup Schedule \cup Rig \cup Name \cup Value
                 \cup Rules \cup Limit
  /\ None \notin MinerValue \cup SheetValue \cup ScheduleValue
  /\ None \notin RigValue
ASSUME InputAssumption == MinerInput \subseteq MinerValue /\ UserInput \subseteq Users
ASSUME FiniteAssumption == IsFiniteSet(Schedule)
ASSUME ValueAssumption == Rules # {} /\ Limit # {}
ASSUME MaxRevisionAssumption == MaxRevision \in Nat

VARIABLES
  store,   \* the state in memory
  disk,    \* the state file
  fired    \* history: how often each schedule has run in the present minute

vars == << store, disk, fired >>

-----------------------------------------------------------------------------
(* What refers to what. *)

Enrolled(s)  == {r \in Rig : s.rigs[r] # None}
Sheets(s)    == {h \in Sheet : s.sheets[h] # None}
Schedules(s) == {c \in Schedule : s.schedules[c] # None}

UsingWallet(s, w) == {h \in Sheets(s) : w \in s.sheets[h].wallets}
UsingPool(s, p)   == {h \in Sheets(s) : p \in s.sheets[h].pools}
UsingMiner(s, m)  == {h \in Sheets(s) : s.sheets[h].miner = m}

\* Faulty variant: the fallback of the assigned sheet is forgotten.
RunsMain(s, r) == {s.rigs[r].sheet} \cap Sheets(s)

\* The sheets a rig runs: the assigned one and its fallback.
Runs(s, r) ==
  LET main == {s.rigs[r].sheet} \cap Sheets(s)
  IN main \cup ({s.sheets[h].fallback : h \in main} \ {None})

Running(s, S) == {r \in Enrolled(s) : Runs(s, r) \cap S # {}}

\* Desired.Revision++ for the rigs in R.
Bumped(s, R) ==
  [s EXCEPT !.rigs = [r \in Rig |-> IF r \in R
                                      THEN [s.rigs[r] EXCEPT !.revision = @ + 1]
                                      ELSE s.rigs[r]]]

Bounded(s) == \A r \in Enrolled(s) : s.rigs[r].revision <= MaxRevision

\* Faulty variant: the memory is left as it is when the save fails.
CommitUnrolled(n) ==
  /\ Bounded(n)
  /\ store' = n
  /\ disk' = n \/ UNCHANGED disk

\* The end of an operation whose save succeeds.
Commit(n) == Bounded(n) /\ store' = n /\ disk' = n

\* An operation that returns early with an error after it changed the memory.
LeaveUnsaved(n) == store' = n /\ UNCHANGED disk

-----------------------------------------------------------------------------
(* Saving resources. An identifier not yet there is a new entry.           *)

SaveFarm(f) ==
  /\ Commit([store EXCEPT !.farms = @ \cup {f}])
  /\ UNCHANGED fired

SaveWallet(w, v) ==
  LET n == [store EXCEPT !.wallets[w] = v]
  IN Commit(Bumped(n, Running(n, UsingWallet(n, w)))) /\ UNCHANGED fired

\* A pool may be saved with the same URL and password: nothing is bumped then.
SavePool(p, v) ==
  LET n == [store EXCEPT !.pools[p] = v]
  IN /\ Commit(IF store.pools[p] = v THEN n
                                     ELSE Bumped(n, Running(n, UsingPool(n, p))))
     /\ UNCHANGED fired

\* SaveMiner, and the upload of a package, which records its digest.
SaveMiner(m, v) ==
  LET n == [store EXCEPT !.miners[m] = v]
  IN Commit(Bumped(n, Running(n, UsingMiner(n, m)))) /\ UNCHANGED fired

\* What SaveFlightSheet asks of a fallback.
FallbackAllowed(s, h, v) ==
  v.fallback # None =>
    /\ v.fallback \in Sheets(s)
    /\ v.fallback # h
    /\ s.miners[v.miner].epic
    /\ s.sheets[v.fallback].fallback = None

SaveFlightSheet(h, v) ==
  LET n == [store EXCEPT !.sheets[h] = v]
  IN /\ v.wallets # {} /\ \A w \in v.wallets : store.wallets[w] # None
     /\ v.pools # {} /\ \A p \in v.pools : store.pools[p] # None
     /\ store.miners[v.miner] # None /\ store.miners[v.miner].ready
     /\ FallbackAllowed(store, h, v)
     /\ Commit(Bumped(n, Running(n, {h})))
     /\ UNCHANGED fired

HavingProfile(s, o) == {r \in Enrolled(s) : s.rigs[r].profile = o}

SaveOverclockProfile(o, v) ==
  LET n == [store EXCEPT !.profiles[o] = v]
  IN Commit(Bumped(n, HavingProfile(n, o))) /\ UNCHANGED fired

\* Faulty variant: the profile was not shared when the tune was queued.
UsedByNow(s, o, r) == s.rigs[r].profile = o

\* overclockProfileIsSharedLocked, when the result comes in.
UsedByOnly(s, o, r) == HavingProfile(s, o) = {r}

\* FinishCommandResult of a smart tune: the settings go into the profile only
\* while this rig alone has it, and only this rig's revision is bumped.
FinishSmartTune(r, v) ==
  LET o == store.rigs[r].profile
  IN /\ r \in Enrolled(store) /\ o # None
     /\ UsedByOnly(store, o, r)
     /\ Commit(Bumped([store EXCEPT !.profiles[o] = v], {r}))
     /\ UNCHANGED fired

\* Only rigs that have reported GPUs are bumped.
SetGPUPowerPolicy(v) ==
  /\ store.policy # v
  /\ Commit(Bumped([store EXCEPT !.policy = v],
                   {r \in Enrolled(store) : store.rigs[r].gpus}))
  /\ UNCHANGED fired

-----------------------------------------------------------------------------
(* Rigs. *)

\* Faulty variant: only a new rig's name is compared.
NameFreeIfNew(s, r, name) ==
  r \notin Enrolled(s) => \A q \in Enrolled(s) : s.rigs[q].name # name

NameFree(s, r, name) == \A q \in Enrolled(s) \ {r} : s.rigs[q].name # name

NewRig(name) ==
  [name |-> name, farm |-> None, sheet |-> None, profile |-> None,
   rules |-> CHOOSE v \in Rules : TRUE, gpus |-> FALSE, revision |-> 0]

Enroll(r, name) ==
  /\ r \notin Enrolled(store) /\ NameFree(store, r, name)
  /\ Commit([store EXCEPT !.rigs[r] = NewRig(name)])
  /\ UNCHANGED fired

\* Faulty variant: the name is taken from the assignment in any case.
AssignedAsGiven(old, name, farm, sheet, profile, rules) ==
  [old EXCEPT !.name = name, !.farm = farm, !.sheet = sheet,
              !.profile = profile, !.rules = rules]

\* An assignment without a name keeps the one the rig has.
Assigned(old, name, farm, sheet, profile, rules) ==
  [old EXCEPT !.name = IF name = None THEN @ ELSE name,
              !.farm = farm, !.sheet = sheet,
              !.profile = profile, !.rules = rules]

\* The revision is bumped for a new sheet, profile or rules, not for a new name or farm.
AssignWorker(r, name, farm, sheet, profile, rules) ==
  LET old == store.rigs[r]
      changed == << sheet, profile, rules >> # << old.sheet, old.profile, old.rules >>
      n == [store EXCEPT
              !.rigs[r] = Assigned(old, name, farm, sheet, profile, rules)]
  IN /\ r \in Enrolled(store)
     /\ farm # None => farm \in store.farms
     /\ sheet # None => sheet \in Sheets(store)
     /\ profile # None => store.profiles[profile] # None
     /\ name # None => NameFree(store, r, name)
     /\ Commit(IF changed THEN Bumped(n, {r}) ELSE n)
     /\ UNCHANGED fired

\* A heartbeat brings the list of GPUs; recordMetricsLocked may fail after the
\* metrics were stored.
Heartbeat(r, gpus) ==
  LET n == [store EXCEPT !.rigs[r].gpus = gpus]
  IN /\ r \in Enrolled(store)
     /\ Commit(n) \/ LeaveUnsaved(n)
     /\ UNCHANGED fired

EnabledFor(was, left) == was /\ left # {}

\* A schedule v after rig r was deleted.
LeftBy(v, r) == [v EXCEPT !.rigs = @ \ {r},
                          !.enabled = EnabledFor(@, v.rigs \ {r})]

WithoutRig(s, r) ==
  [s EXCEPT !.rigs[r] = None,
            !.schedules = [c \in Schedule |->
               IF s.schedules[c] = None THEN None ELSE LeftBy(s.schedules[c], r)]]

DeleteRig(r) ==
  /\ r \in Enrolled(store)
  /\ Commit(WithoutRig(store, r))
  /\ UNCHANGED fired

-----------------------------------------------------------------------------
(* Schedules. *)

\* Faulty variant: a saved schedule starts afresh.
NotRunYet(s, c) == FALSE

\* A saved schedule keeps its LastRunMinute.
RunAlready(s, c) == s.schedules[c] # None /\ s.schedules[c].ran

\* A schedule's action is to apply its sheet, or another one.
SaveSchedule(c, apply, sheet, rigs, enabled) ==
  LET value == [apply |-> apply, sheet |-> sheet, rigs |-> rigs,
                enabled |-> enabled, ran |-> RunAlready(store, c)]
  IN /\ rigs # {} /\ rigs \subseteq Enrolled(store)
     /\ apply => sheet # None
     /\ sheet # None => sheet \in Sheets(store)
     /\ Commit([store EXCEPT !.schedules[c] = value])
     /\ fired' = IF store.schedules[c] = None THEN [fired EXCEPT ![c] = 0]
                                             ELSE fired

Due(s) == {c \in Schedules(s) : s.schedules[c].enabled /\ ~s.schedules[c].ran}

Applying(s, D, r) == {c \in D : s.schedules[c].apply /\ r \in s.schedules[c].rigs}

Bumps(s, D, r) == Cardinality(Applying(s, D, r))

\* Each rig gets the sheet of the last of the schedules D that apply one to it,
\* and a new revision from every one of them.
AfterRun(s, D, last) ==
  [s EXCEPT
     !.rigs = [r \in Rig |->
        IF r \in Enrolled(s) /\ last[r] # None
          THEN [s.rigs[r] EXCEPT !.sheet = s.schedules[last[r]].sheet,
                                 !.revision = @ + Bumps(s, D, r)]
          ELSE s.rigs[r]],
     !.schedules = [c \in Schedule |->
        IF c \in D THEN [s.schedules[c] EXCEPT !.ran = TRUE] ELSE s.schedules[c]]]

\* RunSchedulesAt runs those of the due schedules whose time it is, D, in the
\* order of a map.
RunSchedules(D) ==
  /\ D # {} /\ D \subseteq Due(store)
  /\ \E rank \in [D -> 1 .. Cardinality(Schedule)], last \in [Rig -> Opt(D)] :
       /\ \A c, d \in D : rank[c] = rank[d] => c = d
       /\ \A r \in Rig :
            LET applying == Applying(store, D, r)
            IN IF applying = {} THEN last[r] = None
               ELSE /\ last[r] \in applying
                    /\ \A c \in applying : rank[c] <= rank[last[r]]
       /\ Commit(AfterRun(store, D, last))
  /\ fired' = [c \in Schedule |-> IF c \in D THEN fired[c] + 1 ELSE fired[c]]

\* The clock's next minute: no schedule has run in it yet.
MinuteOver(s) ==
  [s EXCEPT !.schedules = [c \in Schedule |->
     IF s.schedules[c] = None THEN None ELSE [s.schedules[c] EXCEPT !.ran = FALSE]]]

NextMinute ==
  /\ store' = MinuteOver(store) /\ disk' = MinuteOver(disk)
  /\ fired' = [c \in Schedule |-> 0]

-----------------------------------------------------------------------------
(* Quick setup: a sheet made from addresses, for all the chosen rigs. *)

\* Entries that already hold one of the values are taken, new ones are made
\* for the others: at maps each value to its identifier.
Places(f, at) ==
  \A v \in DOMAIN at :
    /\ \/ f[at[v]] = v
       \/ f[at[v]] = None /\ \A x \in DOMAIN f : f[x] # v
    /\ \A u \in DOMAIN at : at[u] = at[v] => u = v

Placed(f, at) ==
  [x \in DOMAIN f |-> IF \E v \in DOMAIN at : at[v] = x
                        THEN CHOOSE v \in DOMAIN at : at[v] = x
                        ELSE f[x]]

Image(at) == {at[v] : v \in DOMAIN at}

\* A new sheet made of the entries, assigned to the rigs.
QuickSetup(s, h, sheet, rigs, walletAt, poolAt, mv) ==
  [s EXCEPT !.wallets = Placed(@, walletAt), !.pools = Placed(@, poolAt),
            !.miners[sheet.miner] = mv, !.sheets[h] = sheet,
            !.rigs = [r \in Rig |-> IF r \in rigs
                        THEN [s.rigs[r] EXCEPT !.sheet = h] ELSE s.rigs[r]]]

\* The miner is one that is there, or a new one for a catalog entry; whether
\* it is ready is not asked.
SaveQuickFlightSheet(h, rigs, addresses, urls, m, mv, user, body) ==
  /\ h \notin Sheets(store)
  /\ rigs \subseteq Enrolled(store)
  /\ store.miners[m] \in {mv, None}
  /\ \E walletAt \in [addresses -> Wallet], poolAt \in [urls -> Pool] :
       /\ Places(store.wallets, walletAt) /\ Places(store.pools, poolAt)
       /\ LET sheet == [wallets |-> Image(walletAt), pools |-> Image(poolAt),
                        miner |-> m, fallback |-> None, user |-> user, body |-> body]
          IN Commit(Bumped(QuickSetup(store, h, sheet, rigs, walletAt, poolAt, mv), rigs))
  /\ UNCHANGED fired

\* The checks of the catalog entry that come after its miner was added refuse
\* the setup, and the miner stays in memory.
AbandonQuickSetup(m, mv) ==
  /\ store.miners[m] = None
  /\ LeaveUnsaved([store EXCEPT !.miners[m] = mv])
  /\ UNCHANGED fired

-----------------------------------------------------------------------------
(* DeleteResource. *)

DeleteFarm(f) ==
  /\ f \in store.farms
  /\ \A r \in Enrolled(store) : store.rigs[r].farm # f
  /\ Commit([store EXCEPT !.farms = @ \ {f}])
  /\ UNCHANGED fired

DeleteWallet(w) ==
  /\ store.wallets[w] # None /\ UsingWallet(store, w) = {}
  /\ Commit([store EXCEPT !.wallets[w] = None])
  /\ UNCHANGED fired

DeletePool(p) ==
  /\ store.pools[p] # None /\ UsingPool(store, p) = {}
  /\ Commit([store EXCEPT !.pools[p] = None])
  /\ UNCHANGED fired

\* The package files are removed between the deletion in memory and the save,
\* and an error there ends the operation.
DeleteMiner(m) ==
  LET n == [store EXCEPT !.miners[m] = None]
  IN /\ store.miners[m] # None /\ UsingMiner(store, m) = {}
     /\ Commit(n) \/ LeaveUnsaved(n)
     /\ UNCHANGED fired

\* Faulty variant: schedules are not looked at.
UnusedByRigs(s, h) ==
  /\ \A g \in Sheets(s) : s.sheets[g].fallback # h
  /\ \A r \in Enrolled(s) : s.rigs[r].sheet # h

SheetUnused(s, h) ==
  /\ \A g \in Sheets(s) : s.sheets[g].fallback # h
  /\ \A r \in Enrolled(s) : s.rigs[r].sheet # h
  /\ \A c \in Schedules(s) : s.schedules[c].sheet # h

DeleteFlightSheet(h) ==
  /\ h \in Sheets(store) /\ SheetUnused(store, h)
  /\ Commit([store EXCEPT !.sheets[h] = None])
  /\ UNCHANGED fired

DeleteOverclockProfile(o) ==
  /\ store.profiles[o] # None /\ HavingProfile(store, o) = {}
  /\ Commit([store EXCEPT !.profiles[o] = None])
  /\ UNCHANGED fired

DeleteSchedule(c) ==
  /\ c \in Schedules(store)
  /\ Commit([store EXCEPT !.schedules[c] = None])
  /\ UNCHANGED fired

-----------------------------------------------------------------------------
(* What an agent is told. *)

\* A workload as resolveWorkloadLocked puts it together.
Workload(s, h, r) ==
  LET v == s.sheets[h]
      miner == s.miners[v.miner]
  IN [sheet   |-> [v EXCEPT !.fallback = None],
      wallets |-> [w \in v.wallets |-> s.wallets[w]],
      pools   |-> [p \in v.pools |-> s.pools[p]],
      miner   |-> IF v.user = "plain" THEN miner ELSE [miner EXCEPT !.login = FALSE],
      user    |-> IF v.user = "named" THEN s.rigs[r].name ELSE None]

\* ResolvedWorkerConfiguration, but for the revision and the power policy,
\* which agents compare, and for the ceiling made of that policy.
Resolved(s, r) ==
  LET main == s.rigs[r].sheet
      fallback == IF main = None THEN None ELSE s.sheets[main].fallback
  IN [rules    |-> s.rigs[r].rules,
      main     |-> IF main = None THEN None ELSE Workload(s, main, r),
      fallback |-> IF fallback = None THEN None ELSE Workload(s, fallback, r),
      tuning   |-> IF s.rigs[r].profile = None THEN None
                   ELSE s.profiles[s.rigs[r].profile]]

\* Resolving a sheet with a wallet template replaces {WALLET}.{WORKER} in the
\* arguments it shares with the stored miner. The fallback is resolved only
\* when the main sheet's miner is ready.
Shared(s, r) ==
  LET main == {s.rigs[r].sheet} \cap Sheets(s)
      ready == \A h \in main : s.miners[s.sheets[h].miner].ready
      resolved == IF ready THEN Runs(s, r) ELSE main
  IN {s.sheets[h].miner : h \in {g \in resolved : s.sheets[g].user # "plain"}}

Rewritten(s, r) ==
  [s EXCEPT !.miners = [m \in Miner |->
     IF m \in Shared(s, r) THEN [s.miners[m] EXCEPT !.login = FALSE] ELSE s.miners[m]]]

Resolve(r) ==
  /\ r \in Enrolled(store)
  /\ LeaveUnsaved(Rewritten(store, r))
  /\ UNCHANGED fired

-----------------------------------------------------------------------------

\* A save that fails restores the last saved state, whatever the operation;
\* a restarted controller loads it.
BackToDisk == store' = disk /\ UNCHANGED << disk, fired >>

Empty == [wallets   |-> [w \in Wallet |-> None],
          pools     |-> [p \in Pool |-> None],
          miners    |-> [m \in Miner |-> None],
          sheets    |-> [h \in Sheet |-> None],
          profiles  |-> [o \in Profile |-> None],
          farms     |-> {},
          schedules |-> [c \in Schedule |-> None],
          rigs      |-> [r \in Rig |-> None],
          policy    |-> CHOOSE v \in Limit : TRUE]

Init == /\ store = Empty /\ disk = Empty
        /\ fired = [c \in Schedule |-> 0]

SheetInput == [wallets : SUBSET Wallet, pools : SUBSET Pool, miner : Miner,
               fallback : Opt(Sheet), user : UserInput, body : Value]

Saves ==
  \/ \E f \in Farm : SaveFarm(f)
  \/ \E w \in Wallet, v \in Value : SaveWallet(w, v)
  \/ \E p \in Pool, v \in Value : SavePool(p, v)
  \/ \E m \in Miner, v \in MinerInput : SaveMiner(m, v)
  \/ \E h \in Sheet, v \in SheetInput : SaveFlightSheet(h, v)
  \/ \E o \in Profile, v \in Value : SaveOverclockProfile(o, v)
  \/ \E v \in Limit : SetGPUPowerPolicy(v)
  \/ \E c \in Schedule, apply \in BOOLEAN, sheet \in Opt(Sheet),
        rigs \in SUBSET Rig, enabled \in BOOLEAN :
       SaveSchedule(c, apply, sheet, rigs, enabled)

QuickSetups ==
  \/ \E h \in Sheet, rigs \in SUBSET Rig, addresses, urls \in SUBSET Value \ {{}},
        m \in Miner, mv \in MinerInput, user \in UserInput, body \in Value :
       SaveQuickFlightSheet(h, rigs, addresses, urls, m, mv, user, body)
  \/ \E m \in Miner, mv \in MinerInput : AbandonQuickSetup(m, mv)

Deletes ==
  \/ \E f \in Farm : DeleteFarm(f)
  \/ \E w \in Wallet : DeleteWallet(w)
  \/ \E p \in Pool : DeletePool(p)
  \/ \E m \in Miner : DeleteMiner(m)
  \/ \E h \in Sheet : DeleteFlightSheet(h)
  \/ \E o \in Profile : DeleteOverclockProfile(o)
  \/ \E c \in Schedule : DeleteSchedule(c)

RigSteps ==
  \E r \in Rig :
    \/ \E name \in Name : Enroll(r, name)
    \/ \E name \in Opt(Name), farm \in Opt(Farm), sheet \in Opt(Sheet),
          profile \in Opt(Profile), rules \in Rules :
         AssignWorker(r, name, farm, sheet, profile, rules)
    \/ \E gpus \in BOOLEAN : Heartbeat(r, gpus)
    \/ \E v \in Value : FinishSmartTune(r, v)
    \/ DeleteRig(r)
    \/ Resolve(r)

Clock == NextMinute \/ \E D \in (SUBSET Schedule) \ {{}} : RunSchedules(D)

Next == Saves \/ QuickSetups \/ Deletes \/ RigSteps \/ Clock \/ BackToDisk

Spec == Init /\ [][Next]_vars

-----------------------------------------------------------------------------
(* What has to hold. *)

\* Every entry of the state has its type.
TypeOK == /\ store \in State /\ disk \in State
          /\ fired \in [Schedule -> Nat]

\* Nothing refers to an entry that is not there.
SheetsComplete(s) ==
  \A h \in Sheets(s) :
    /\ \A w \in s.sheets[h].wallets : s.wallets[w] # None
    /\ \A p \in s.sheets[h].pools : s.pools[p] # None
    /\ s.miners[s.sheets[h].miner] # None
    /\ s.sheets[h].fallback # None => s.sheets[h].fallback \in Sheets(s) \ {h}

RigsComplete(s) ==
  \A r \in Enrolled(s) :
    /\ s.rigs[r].farm # None => s.rigs[r].farm \in s.farms
    /\ s.rigs[r].sheet # None => s.rigs[r].sheet \in Sheets(s)
    /\ s.rigs[r].profile # None => s.profiles[s.rigs[r].profile] # None

SchedulesComplete(s) ==
  \A c \in Schedules(s) :
    /\ s.schedules[c].rigs \subseteq Enrolled(s)
    /\ s.schedules[c].sheet # None => s.schedules[c].sheet \in Sheets(s)
    /\ s.schedules[c].apply => s.schedules[c].sheet # None

Complete(s) == SheetsComplete(s) /\ RigsComplete(s) /\ SchedulesComplete(s)

\* The references of sheets, rigs and schedules lead somewhere, in memory and
\* in the file a restart or a failed save goes back to, though some operations
\* change the one without the other (the checks of SaveFlightSheet,
\* AssignWorker, SaveSchedule and DeleteResource, and DeleteRig's filtering).
ReferencesExist == Complete(store) /\ Complete(disk)

NamesDistinct(s) ==
  \A q, r \in Enrolled(s) : s.rigs[q].name = s.rigs[r].name => q = r

\* No two workers share a name (Enroll and AssignWorker both ask).
UniqueNames == NamesDistinct(store) /\ NamesDistinct(disk)

\* A schedule runs at most once in its minute, even when it is saved, disabled
\* and enabled again or the controller restarts in that minute.
ScheduleRunsOnce == \A c \in Schedules(store) : fired[c] <= 1

\* An agent skips a configuration whose revision it has already applied
\* (internal/agent/client.go:323): whatever a rig is told changes only
\* together with its revision, a new name apart.
ConfigurationVersioned ==
  [][\A r \in Enrolled(store) \cap Enrolled(store)' :
       Resolved(store, r)' # Resolved(store, r) =>
         \/ store.rigs[r].revision < store'.rigs[r].revision
         \/ store'.rigs[r].name # store.rigs[r].name]_vars

\* A revision never falls, neither by a rollback nor by a restart: the agent
\* would take what follows for old.
RevisionNeverFalls ==
  [][\A r \in Enrolled(store) \cap Enrolled(store)' :
       store.rigs[r].revision <= store'.rigs[r].revision]_vars

\* What has been left unsaved is nothing an agent is told: after a restart
\* every rig has the same configuration under the same revision.
RestartTellsTheSame ==
  /\ Enrolled(store) = Enrolled(disk)
  /\ \A r \in Enrolled(store) :
       /\ store.rigs[r].revision = disk.rigs[r].revision
       /\ Resolved(store, r) = Resolved(disk, r)

\* "Per-flight-sheet wallet templates" (README.md:77): asking what one rig is
\* to run changes nothing of what another one runs.
TemplatesArePerSheet ==
  [][\A q \in Enrolled(store) : Resolve(q) =>
       \A r \in Enrolled(store) : Resolved(store, r)' = Resolved(store, r)]_vars

=============================================================================
