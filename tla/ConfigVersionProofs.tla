------------------------ MODULE ConfigVersionProofs ------------------------
(***************************************************************************)
(* What an agent is told by ConfigStore, for all numbers of entries, rigs  *)
(* and schedules: whatever changes it raises the revision by which the     *)
(* agent notices, no revision falls, a restart tells the same, and a       *)
(* schedule runs at most once in its minute.                               *)
(***************************************************************************)
EXTENDS ConfigStoreProofs

-----------------------------------------------------------------------------
(* What an agent is told depends on few entries.                           *)

\* A miner but for the arguments that resolving a sheet rewrites.
Settled(v) == [v EXCEPT !.login = FALSE]

\* The states s and n hold the same of what rig r is told, logins apart.
SameTold(n, s, r) ==
  /\ n.rigs[r].name = s.rigs[r].name /\ n.rigs[r].rules = s.rigs[r].rules
  /\ n.rigs[r].sheet = s.rigs[r].sheet /\ n.rigs[r].profile = s.rigs[r].profile
  /\ \A h \in Runs(s, r) :
       /\ n.sheets[h] = s.sheets[h]
       /\ Settled(n.miners[s.sheets[h].miner]) = Settled(s.miners[s.sheets[h].miner])
       /\ \A w \in s.sheets[h].wallets : n.wallets[w] = s.wallets[w]
       /\ \A p \in s.sheets[h].pools : n.pools[p] = s.pools[p]
  /\ s.rigs[r].profile # None =>
       n.profiles[s.rigs[r].profile] = s.profiles[s.rigs[r].profile]

\* Memory and file differ in nothing an agent is told and in no schedule.
Agrees(s, d) ==
  /\ Enrolled(s) = Enrolled(d)
  /\ \A r \in Enrolled(s) :
       /\ s.rigs[r].revision = d.rigs[r].revision
       /\ SameTold(d, s, r)
  /\ s.schedules = d.schedules

\* What a step may make of a state: another configuration only under a higher
\* revision or another name.
Follows(n, s) ==
  \A r \in Enrolled(s) \cap Enrolled(n) :
    /\ s.rigs[r].revision <= n.rigs[r].revision
    /\ \/ SameTold(n, s, r)
       \/ s.rigs[r].revision < n.rigs[r].revision
       \/ s.rigs[r].name # n.rigs[r].name

\* Sheets a rig runs are there and made of entries that are there.
LEMMA RunsThere ==
  ASSUME NEW s, Sound(s), NEW r \in Enrolled(s), NEW h \in Runs(s, r)
  PROVE  /\ h \in Sheets(s) /\ s.sheets[h] \in SheetValue
         /\ s.miners[s.sheets[h].miner] \in MinerValue
         /\ \A w \in s.sheets[h].wallets : w \in Wallet /\ s.wallets[w] # None
         /\ \A p \in s.sheets[h].pools : p \in Pool /\ s.pools[p] # None
<1>1. h \in Sheets(s)
  BY DEF Runs, Sound, Complete, SheetsComplete
<1>2. s.sheets[h] \in SheetValue
  BY <1>1 DEF Sound, State, Sheets, Opt
<1>3. s.miners[s.sheets[h].miner] \in MinerValue
  BY <1>1, <1>2 DEF Sound, State, Complete, SheetsComplete, SheetValue, Opt
<1> QED BY <1>1, <1>2, <1>3 DEF Sound, Complete, SheetsComplete, SheetValue

LEMMA SameToldReflexive ==
  ASSUME NEW s, NEW r PROVE SameTold(s, s, r)
BY DEF SameTold

LEMMA FollowsReflexive ==
  ASSUME NEW s, Sound(s) PROVE Follows(s, s)
<1>1. \A r \in Enrolled(s) : s.rigs[r].revision \in Nat
  BY DEF Sound, State, Enrolled, Opt, RigValue
<1> QED BY <1>1, SameToldReflexive DEF Follows

\* Bumping the revisions of the rigs whose configuration changed.
LEMMA BumpedFollows ==
  ASSUME NEW s, NEW n, Sound(s), Sound(n), NEW R, R \subseteq Enrolled(n),
         \A r \in Enrolled(s) \cap Enrolled(n) :
           /\ s.rigs[r].revision <= n.rigs[r].revision
           /\ r \in R \/ SameTold(n, s, r)
  PROVE  Follows(Bumped(n, R), s)
<1> DEFINE b == Bumped(n, R)
<1>0. n \in State BY DEF Sound
<1>1. /\ b.rigs = [r \in Rig |-> IF r \in R
                          THEN [n.rigs[r] EXCEPT !.revision = @ + 1]
                          ELSE n.rigs[r]]
      /\ b.wallets = n.wallets /\ b.pools = n.pools /\ b.miners = n.miners
      /\ b.sheets = n.sheets /\ b.profiles = n.profiles
  BY <1>0, BumpedRigs, RigsChanged, Zenon DEF Bumped
<1>2. Enrolled(b) \subseteq Enrolled(n)
  BY <1>1 DEF Enrolled
<1> HIDE DEF b
<1> SUFFICES ASSUME NEW r \in Enrolled(s) \cap Enrolled(n)
             PROVE /\ s.rigs[r].revision <= b.rigs[r].revision
                   /\ \/ SameTold(b, s, r)
                      \/ s.rigs[r].revision < b.rigs[r].revision
                      \/ s.rigs[r].name # b.rigs[r].name
  BY <1>2 DEF Follows, b
<1>3. n.rigs[r] \in RigValue /\ s.rigs[r] \in RigValue /\ r \in Rig
  BY <1>0 DEF Sound, State, Enrolled, Opt
<1>4. CASE r \in R
  <2>1. b.rigs[r].revision = n.rigs[r].revision + 1
    BY <1>1, <1>3, <1>4 DEF RigValue
  <2>2. n.rigs[r].revision \in Nat /\ s.rigs[r].revision \in Nat
    BY <1>3 DEF RigValue
  <2> QED BY <2>1, <2>2
<1>5. CASE r \notin R
  <2>1. b.rigs[r] = n.rigs[r] /\ SameTold(n, s, r)
    BY <1>1, <1>3, <1>5
  <2>2. SameTold(b, s, r)
    <3>1. /\ b.rigs[r] = n.rigs[r] /\ b.sheets = n.sheets /\ b.miners = n.miners
          /\ b.wallets = n.wallets /\ b.pools = n.pools /\ b.profiles = n.profiles
      BY <1>1, <2>1
    <3>2. SameTold(n, s, r)
      BY <2>1
    <3> QED BY ONLY <3>1, <3>2 DEF SameTold
  <2> QED BY <2>1, <2>2
<1> QED BY <1>4, <1>5

\* What is resolved for a rig of two states that hold the same of it, once no
\* miner's arguments hold a login.
LEMMA ResolvedSame ==
  ASSUME NEW s, NEW n, Sound(s), NEW r \in Enrolled(s), SameTold(n, s, r),
         n \in State, Complete(n),
         \A m \in Miner : s.miners[m] # None => s.miners[m].login = FALSE,
         \A m \in Miner : n.miners[m] # None => n.miners[m].login = FALSE
  PROVE  Resolved(n, r) = Resolved(s, r)
<1>1. ASSUME NEW v \in MinerValue, v.login = FALSE
      PROVE  Settled(v) = v
  BY <1>1 DEF Settled, MinerValue
<1>2. ASSUME NEW h \in Runs(s, r)
      PROVE  Workload(n, h, r) = Workload(s, h, r)
  <2>1. /\ h \in Sheets(s) /\ s.sheets[h] \in SheetValue
        /\ s.miners[s.sheets[h].miner] \in MinerValue
    BY <1>2, RunsThere
  <2>2. n.sheets[h] = s.sheets[h] /\ h \in Sheets(n)
    BY <2>1 DEF SameTold, Sheets
  <2>3. s.sheets[h].miner \in Miner
    BY <2>1 DEF SheetValue
  <2>4. n.miners[s.sheets[h].miner] # None
    BY <2>2 DEF Complete, SheetsComplete
  <2>5. n.miners[s.sheets[h].miner] \in MinerValue
    BY <2>3, <2>4 DEF State, Opt
  <2>6. s.miners[s.sheets[h].miner] # None
    BY <2>1, NoneAssumption
  <2>7. n.miners[s.sheets[h].miner] = s.miners[s.sheets[h].miner]
    <3>1. /\ Settled(n.miners[s.sheets[h].miner]) = n.miners[s.sheets[h].miner]
          /\ Settled(s.miners[s.sheets[h].miner]) = s.miners[s.sheets[h].miner]
      BY <1>1, <2>1, <2>3, <2>4, <2>5, <2>6
    <3> QED BY <3>1 DEF SameTold
  <2>8. /\ [w \in s.sheets[h].wallets |-> n.wallets[w]]
           = [w \in s.sheets[h].wallets |-> s.wallets[w]]
        /\ [p \in s.sheets[h].pools |-> n.pools[p]]
           = [p \in s.sheets[h].pools |-> s.pools[p]]
    BY DEF SameTold
  <2>9. n.rigs[r].name = s.rigs[r].name
    BY DEF SameTold
  <2> QED BY <2>2, <2>7, <2>8, <2>9 DEF Workload
<1>3. s.rigs[r] \in RigValue
  BY DEF Sound, State, Enrolled, Opt
<1> DEFINE main == s.rigs[r].sheet
           fallback(t) == IF main = None THEN None ELSE t.sheets[main].fallback
<1>4. main # None => main \in Runs(s, r)
  BY DEF Sound, Complete, RigsComplete, Runs
<1>5. fallback(s) # None => fallback(s) \in Runs(s, r)
  BY DEF Sound, Complete, RigsComplete, Runs
<1>6. fallback(n) = fallback(s)
  BY <1>4 DEF SameTold
<1>7. /\ n.rigs[r].rules = s.rigs[r].rules /\ n.rigs[r].sheet = main
      /\ n.rigs[r].profile = s.rigs[r].profile
      /\ s.rigs[r].profile # None =>
           n.profiles[s.rigs[r].profile] = s.profiles[s.rigs[r].profile]
  BY DEF SameTold
<1> QED BY <1>2, <1>4, <1>5, <1>6, <1>7 DEF Resolved

-----------------------------------------------------------------------------
(* One entry of one kind saved or deleted: the rigs that run sheets with it *)
(* are bumped, for the others nothing changes.                              *)

LEMMA WalletFollows ==
  ASSUME NEW s, Sound(s), NEW w \in Wallet, NEW v,
         NEW r \in Enrolled(s), r \notin Running(s, UsingWallet(s, w))
  PROVE  SameTold([s EXCEPT !.wallets[w] = v], s, r)
<1> DEFINE n == [s EXCEPT !.wallets[w] = v]
<1>1. /\ n.wallets = [s.wallets EXCEPT ![w] = v]
      /\ n.pools = s.pools /\ n.miners = s.miners
      /\ n.sheets = s.sheets /\ n.profiles = s.profiles /\ n.rigs = s.rigs
  BY DEF Sound, State
<1>2. \A h \in Runs(s, r) : w \notin s.sheets[h].wallets
  BY RunsThere DEF Running, UsingWallet
<1>3. \A h \in Runs(s, r), x \in Wallet : x \in s.sheets[h].wallets => n.wallets[x] = s.wallets[x]
  BY <1>1, <1>2 DEF Sound, State
<1>4. \A h \in Runs(s, r) : \A x \in s.sheets[h].wallets : x \in Wallet
  BY RunsThere
<1> HIDE DEF n
<1> QED BY <1>1, <1>3, <1>4 DEF SameTold

LEMMA PoolFollows ==
  ASSUME NEW s, Sound(s), NEW p \in Pool, NEW v,
         NEW r \in Enrolled(s), r \notin Running(s, UsingPool(s, p))
  PROVE  SameTold([s EXCEPT !.pools[p] = v], s, r)
<1> DEFINE n == [s EXCEPT !.pools[p] = v]
<1>1. /\ n.pools = [s.pools EXCEPT ![p] = v]
      /\ n.wallets = s.wallets /\ n.miners = s.miners
      /\ n.sheets = s.sheets /\ n.profiles = s.profiles /\ n.rigs = s.rigs
  BY DEF Sound, State
<1>2. \A h \in Runs(s, r) : p \notin s.sheets[h].pools
  BY RunsThere DEF Running, UsingPool
<1>3. \A h \in Runs(s, r), x \in Pool : x \in s.sheets[h].pools => n.pools[x] = s.pools[x]
  BY <1>1, <1>2 DEF Sound, State
<1>4. \A h \in Runs(s, r) : \A x \in s.sheets[h].pools : x \in Pool
  BY RunsThere
<1> HIDE DEF n
<1> QED BY <1>1, <1>3, <1>4 DEF SameTold

LEMMA MinerFollows ==
  ASSUME NEW s, Sound(s), NEW m \in Miner, NEW v,
         NEW r \in Enrolled(s), r \notin Running(s, UsingMiner(s, m))
  PROVE  SameTold([s EXCEPT !.miners[m] = v], s, r)
<1> DEFINE n == [s EXCEPT !.miners[m] = v]
<1>1. /\ n.miners = [s.miners EXCEPT ![m] = v]
      /\ n.wallets = s.wallets /\ n.pools = s.pools
      /\ n.sheets = s.sheets /\ n.profiles = s.profiles /\ n.rigs = s.rigs
  BY DEF Sound, State
<1>2. \A h \in Runs(s, r) : s.sheets[h].miner \in Miner \ {m}
  BY RunsThere DEF Running, UsingMiner, SheetValue
<1>3. \A h \in Runs(s, r) : n.miners[s.sheets[h].miner] = s.miners[s.sheets[h].miner]
  BY <1>1, <1>2 DEF Sound, State
<1> HIDE DEF n
<1> QED BY <1>1, <1>3 DEF SameTold

LEMMA ProfileFollows ==
  ASSUME NEW s, Sound(s), NEW o \in Profile, NEW v,
         NEW r \in Enrolled(s), r \notin HavingProfile(s, o)
  PROVE  SameTold([s EXCEPT !.profiles[o] = v], s, r)
<1> DEFINE n == [s EXCEPT !.profiles[o] = v]
<1>1. /\ n.profiles = [s.profiles EXCEPT ![o] = v]
      /\ n.wallets = s.wallets /\ n.pools = s.pools /\ n.miners = s.miners
      /\ n.sheets = s.sheets /\ n.rigs = s.rigs
  BY DEF Sound, State
<1>2. s.rigs[r] \in RigValue
  BY DEF Sound, State, Enrolled, Opt
<1>3. s.rigs[r].profile # None => s.rigs[r].profile \in Profile \ {o}
  BY <1>2 DEF HavingProfile, RigValue, Opt
<1>4. s.rigs[r].profile # None => n.profiles[s.rigs[r].profile] = s.profiles[s.rigs[r].profile]
  BY <1>1, <1>3 DEF Sound, State
<1> HIDE DEF n
<1> QED BY <1>1, <1>4 DEF SameTold

\* A new or changed sheet: whether a rig runs it does not depend on its contents.
LEMMA SheetFollows ==
  ASSUME NEW s, Sound(s), NEW h \in Sheet, NEW v,
         NEW r \in Enrolled(s),
         s.rigs[r].sheet # h,
         s.rigs[r].sheet # None => s.sheets[s.rigs[r].sheet].fallback # h
  PROVE  SameTold([s EXCEPT !.sheets[h] = v], s, r)
<1> DEFINE n == [s EXCEPT !.sheets[h] = v]
<1>1. /\ n.sheets = [s.sheets EXCEPT ![h] = v]
      /\ n.wallets = s.wallets /\ n.pools = s.pools /\ n.miners = s.miners
      /\ n.profiles = s.profiles /\ n.rigs = s.rigs
  BY DEF Sound, State
<1>2. h \notin Runs(s, r)
  BY NoneAssumption DEF Runs, Sheets
<1>3. \A g \in Runs(s, r) : g \in Sheet
  BY RunsThere DEF Sheets
<1>4. \A g \in Runs(s, r) : n.sheets[g] = s.sheets[g]
  BY <1>1, <1>2, <1>3 DEF Sound, State
<1> HIDE DEF n
<1> QED BY <1>1, <1>4 DEF SameTold

-----------------------------------------------------------------------------
(* The actions: what each makes of the memory follows what was there. *)

LEMMA UntouchedFollows ==
  ASSUME NEW s, NEW n, Sound(s),
         n.rigs = s.rigs, n.sheets = s.sheets, n.wallets = s.wallets,
         n.pools = s.pools, n.miners = s.miners, n.profiles = s.profiles
  PROVE  /\ Follows(n, s)
         /\ \A r \in Enrolled(s) : SameTold(n, s, r)
<1>1. \A r \in Enrolled(s) : s.rigs[r].revision \in Nat
  BY DEF Sound, State, Enrolled, Opt, RigValue
<1>2. \A r \in Enrolled(s) : SameTold(n, s, r)
  BY DEF SameTold
<1> QED BY <1>1, <1>2 DEF Follows

\* An operation that changes no rig and bumps those in R.
LEMMA KeptFollows ==
  ASSUME NEW s, NEW n, Sound(s), Sound(n), n.rigs = s.rigs, NEW R,
         R \subseteq Enrolled(n),
         \A r \in Enrolled(s) \ R : SameTold(n, s, r)
  PROVE  Follows(Bumped(n, R), s)
<1>1. \A r \in Enrolled(s) : s.rigs[r].revision \in Nat
  BY DEF Sound, State, Enrolled, Opt, RigValue
<1> QED BY <1>1, BumpedFollows DEF Enrolled

LEMMA SameRunning ==
  ASSUME NEW s, NEW n, n.rigs = s.rigs, n.sheets = s.sheets
  PROVE  /\ \A S : Running(n, S) = Running(s, S)
         /\ \A x : UsingWallet(n, x) = UsingWallet(s, x)
         /\ \A x : UsingPool(n, x) = UsingPool(s, x)
         /\ \A x : UsingMiner(n, x) = UsingMiner(s, x)
         /\ \A x : HavingProfile(n, x) = HavingProfile(s, x)
<1>1. Sheets(n) = Sheets(s) /\ Enrolled(n) = Enrolled(s)
  BY DEF Sheets, Enrolled
<1>2. \A r : Runs(n, r) = Runs(s, r)
  BY <1>1 DEF Runs
<1> QED
  BY <1>1, <1>2 DEF Running, UsingWallet, UsingPool, UsingMiner, HavingProfile

LEMMA SavesFollow ==
  ASSUME Inductive, Saves
  PROVE  Follows(store', store)
<1> DEFINE s == store
<1>0. Sound(s) /\ s \in State
  BY DEF Inductive, Sound
<1>1. ASSUME NEW f \in Farm, SaveFarm(f) PROVE Follows(store', s)
  <2>1. store' = [s EXCEPT !.farms = @ \cup {f}]
    BY <1>1 DEF SaveFarm, Commit
  <2> QED BY <1>0, <2>1, UntouchedFollows DEF State
<1>2. ASSUME NEW w \in Wallet, NEW v \in Value, SaveWallet(w, v) PROVE Follows(store', s)
  <2> DEFINE n == [s EXCEPT !.wallets[w] = v]
             R == Running(n, UsingWallet(n, w))
  <2>1. Sound(n)
    BY <1>0, WalletSound, NoneAssumption DEF Opt
  <2>2. n.rigs = s.rigs /\ n.sheets = s.sheets
    BY <1>0 DEF State
  <2>3. R = Running(s, UsingWallet(s, w)) /\ R \subseteq Enrolled(n)
    BY <2>2, SameRunning, RunningEnrolled, ZenonT(30)
  <2>4. \A r \in Enrolled(s) \ R : SameTold(n, s, r)
    BY <1>0, <2>3, WalletFollows
  <2>5. store' = Bumped(n, R)
    BY <1>2 DEF SaveWallet, Commit
  <2> HIDE DEF n, R
  <2> QED BY <1>0, <2>1, <2>2, <2>3, <2>4, <2>5, KeptFollows
<1>3. ASSUME NEW p \in Pool, NEW v \in Value, SavePool(p, v) PROVE Follows(store', s)
  <2> DEFINE n == [s EXCEPT !.pools[p] = v]
             R == Running(n, UsingPool(n, p))
  <2>1. Sound(n)
    BY <1>0, PoolSound, NoneAssumption DEF Opt
  <2>2. n.rigs = s.rigs /\ n.sheets = s.sheets
    BY <1>0 DEF State
  <2>3. R = Running(s, UsingPool(s, p)) /\ R \subseteq Enrolled(n)
    BY <2>2, SameRunning, RunningEnrolled, ZenonT(30)
  <2>4. \A r \in Enrolled(s) \ R : SameTold(n, s, r)
    BY <1>0, <2>3, PoolFollows
  <2>5. store' = IF s.pools[p] = v THEN n ELSE Bumped(n, R)
    BY <1>3 DEF SavePool, Commit
  <2>6. CASE s.pools[p] = v
    <3>1. n = s
      BY <1>0, <2>6 DEF State
    <3> QED BY <1>0, <2>5, <2>6, <3>1, FollowsReflexive
  <2>7. CASE s.pools[p] # v
    <3>1. store' = Bumped(n, R)
      BY <2>5, <2>7
    <3> HIDE DEF n, R
    <3> QED BY <1>0, <2>1, <2>2, <2>3, <2>4, <3>1, KeptFollows
  <2> QED BY <2>6, <2>7
<1>4. ASSUME NEW m \in Miner, NEW v \in MinerInput, SaveMiner(m, v) PROVE Follows(store', s)
  <2> DEFINE n == [s EXCEPT !.miners[m] = v]
             R == Running(n, UsingMiner(n, m))
  <2>1. Sound(n)
    BY <1>0, MinerSound, NoneAssumption, InputAssumption DEF Opt
  <2>2. n.rigs = s.rigs /\ n.sheets = s.sheets
    BY <1>0 DEF State
  <2>3. R = Running(s, UsingMiner(s, m)) /\ R \subseteq Enrolled(n)
    BY <2>2, SameRunning, RunningEnrolled, ZenonT(30)
  <2>4. \A r \in Enrolled(s) \ R : SameTold(n, s, r)
    BY <1>0, <2>3, MinerFollows
  <2>5. store' = Bumped(n, R)
    BY <1>4 DEF SaveMiner, Commit
  <2> HIDE DEF n, R
  <2> QED BY <1>0, <2>1, <2>2, <2>3, <2>4, <2>5, KeptFollows
<1>5. ASSUME NEW h \in Sheet, NEW v \in SheetInput, SaveFlightSheet(h, v)
      PROVE  Follows(store', s)
  <2> DEFINE n == [s EXCEPT !.sheets[h] = v]
             R == Running(n, {h})
  <2>1. v \in SheetValue
    BY InputAssumption DEF SheetInput, SheetValue
  <2>2. Sound(n)
    BY <1>0, <1>5, <2>1, SheetSavedSound DEF SaveFlightSheet, FallbackAllowed
  <2>3. n.rigs = s.rigs /\ n.sheets = [s.sheets EXCEPT ![h] = v]
    BY <1>0 DEF State
  <2>4. Sheets(n) = Sheets(s) \cup {h} /\ Enrolled(n) = Enrolled(s)
    BY <1>0, <2>1, <2>3, NoneAssumption DEF State, Sheets, Enrolled
  <2>5. R \subseteq Enrolled(n)
    BY RunningEnrolled
  <2>6. ASSUME NEW r \in Enrolled(s) \ R
        PROVE  SameTold(n, s, r)
    <3> DEFINE g == s.rigs[r].sheet
    <3>1. h \notin Runs(n, r)
      BY <2>4, <2>6 DEF Running
    <3>2. g # h
      BY <2>3, <2>4, <3>1 DEF Runs
    <3>3. g # None => g \in Sheets(s)
      BY <1>0 DEF Sound, Complete, RigsComplete
    <3>4. g # None => s.sheets[g].fallback # h
      <4> SUFFICES ASSUME g # None PROVE s.sheets[g].fallback # h
        OBVIOUS
      <4>1. g \in Sheets(n) /\ n.rigs[r].sheet = g
        BY <2>3, <2>4, <3>3
      <4>2. n.sheets[g] = s.sheets[g]
        BY <1>0, <2>3, <3>2, <3>3 DEF State, Sheets
      <4>3. h # None
        BY NoneAssumption
      <4> QED BY <3>1, <4>1, <4>2, <4>3 DEF Runs
    <3> QED BY <1>0, <3>2, <3>4, SheetFollows
  <2>7. store' = Bumped(n, R)
    BY <1>5 DEF SaveFlightSheet, Commit
  <2> HIDE DEF n, R
  <2> QED BY <1>0, <2>2, <2>3, <2>5, <2>6, <2>7, KeptFollows
<1>6. ASSUME NEW o \in Profile, NEW v \in Value, SaveOverclockProfile(o, v)
      PROVE  Follows(store', s)
  <2> DEFINE n == [s EXCEPT !.profiles[o] = v]
             R == HavingProfile(n, o)
  <2>1. Sound(n)
    BY <1>0, ProfileSound, NoneAssumption DEF Opt
  <2>2. n.rigs = s.rigs /\ n.sheets = s.sheets
    BY <1>0 DEF State
  <2>3. R = HavingProfile(s, o)
    BY <2>2, SameRunning
  <2>8. R \subseteq Enrolled(n)
    BY DEF HavingProfile
  <2>4. \A r \in Enrolled(s) \ R : SameTold(n, s, r)
    BY <1>0, <2>3, ProfileFollows
  <2>5. store' = Bumped(n, R)
    BY <1>6 DEF SaveOverclockProfile, Commit
  <2> HIDE DEF n, R
  <2> QED BY <1>0, <2>1, <2>2, <2>3, <2>4, <2>5, <2>8, KeptFollows
<1>7. ASSUME NEW v \in Limit, SetGPUPowerPolicy(v) PROVE Follows(store', s)
  <2> DEFINE n == [s EXCEPT !.policy = v]
             R == {r \in Enrolled(s) : s.rigs[r].gpus}
  <2>1. Sound(n)
    BY <1>0, PolicySound
  <2>2. /\ n.rigs = s.rigs /\ n.sheets = s.sheets /\ n.wallets = s.wallets
        /\ n.pools = s.pools /\ n.miners = s.miners /\ n.profiles = s.profiles
    BY <1>0 DEF State
  <2>3. R \subseteq Enrolled(n)
    BY <2>2 DEF Enrolled
  <2>4. \A r \in Enrolled(s) : SameTold(n, s, r)
    BY <1>0, <2>2, UntouchedFollows
  <2>5. store' = Bumped(n, R)
    BY <1>7 DEF SetGPUPowerPolicy, Commit
  <2> HIDE DEF n, R
  <2> QED BY <1>0, <2>1, <2>2, <2>3, <2>4, <2>5, KeptFollows
<1>8. ASSUME NEW c \in Schedule, NEW apply \in BOOLEAN, NEW sheet \in Opt(Sheet),
             NEW rigs \in SUBSET Rig, NEW enabled \in BOOLEAN,
             SaveSchedule(c, apply, sheet, rigs, enabled)
      PROVE  Follows(store', s)
  <2>1. PICK v : store' = [s EXCEPT !.schedules[c] = v]
    BY <1>8 DEF SaveSchedule, Commit
  <2> QED BY <1>0, <2>1, UntouchedFollows DEF State
<1> QED
  BY <1>1, <1>2, <1>3, <1>4, <1>5, <1>6, <1>7, <1>8 DEF Saves

\* An operation that changes no rig, nor what any of them is told.
LEMMA SameFollows ==
  ASSUME NEW s, NEW n, Sound(s), n.rigs = s.rigs,
         \A r \in Enrolled(s) : SameTold(n, s, r)
  PROVE  Follows(n, s)
<1>1. \A r \in Enrolled(s) : s.rigs[r].revision \in Nat
  BY DEF Sound, State, Enrolled, Opt, RigValue
<1> QED BY <1>1 DEF Follows

\* An operation that changes rigs only.
LEMMA OtherRigsFollow ==
  ASSUME NEW s, NEW n, Sound(s), n.sheets = s.sheets, n.wallets = s.wallets,
         n.pools = s.pools, n.miners = s.miners, n.profiles = s.profiles,
         NEW q \in Enrolled(s), n.rigs[q] = s.rigs[q]
  PROVE  /\ s.rigs[q].revision <= n.rigs[q].revision
         /\ SameTold(n, s, q)
<1>1. s.rigs[q].revision \in Nat
  BY DEF Sound, State, Enrolled, Opt, RigValue
<1> QED BY <1>1 DEF SameTold

LEMMA MinerUnused ==
  ASSUME NEW s, Sound(s), NEW m \in Miner, NEW v, UsingMiner(s, m) = {}
  PROVE  /\ \A r \in Enrolled(s) : SameTold([s EXCEPT !.miners[m] = v], s, r)
         /\ [s EXCEPT !.miners[m] = v].rigs = s.rigs
         /\ [s EXCEPT !.miners[m] = v].schedules = s.schedules
<1>1. Running(s, UsingMiner(s, m)) = {}
  BY DEF Running
<1> QED BY <1>1, MinerFollows DEF Sound, State

LEMMA DeletesFollow ==
  ASSUME Inductive, Deletes
  PROVE  Follows(store', store)
<1> DEFINE s == store
<1>0. Sound(s) /\ s \in State
  BY DEF Inductive, Sound
<1>1. ASSUME NEW f \in Farm, DeleteFarm(f) PROVE Follows(store', s)
  <2>1. store' = [s EXCEPT !.farms = @ \ {f}]
    BY <1>1 DEF DeleteFarm, Commit
  <2> QED BY <1>0, <2>1, UntouchedFollows DEF State
<1>2. ASSUME NEW w \in Wallet, DeleteWallet(w) PROVE Follows(store', s)
  <2> DEFINE n == [s EXCEPT !.wallets[w] = None]
  <2>1. store' = n /\ Running(s, UsingWallet(s, w)) = {}
    BY <1>2 DEF DeleteWallet, Commit, Running
  <2>2. n.rigs = s.rigs
    BY <1>0 DEF State
  <2>3. \A r \in Enrolled(s) : SameTold(n, s, r)
    BY <1>0, <2>1, WalletFollows
  <2> HIDE DEF n
  <2> QED BY <1>0, <2>1, <2>2, <2>3, SameFollows
<1>3. ASSUME NEW p \in Pool, DeletePool(p) PROVE Follows(store', s)
  <2> DEFINE n == [s EXCEPT !.pools[p] = None]
  <2>1. store' = n /\ Running(s, UsingPool(s, p)) = {}
    BY <1>3 DEF DeletePool, Commit, Running
  <2>2. n.rigs = s.rigs
    BY <1>0 DEF State
  <2>3. \A r \in Enrolled(s) : SameTold(n, s, r)
    BY <1>0, <2>1, PoolFollows
  <2> HIDE DEF n
  <2> QED BY <1>0, <2>1, <2>2, <2>3, SameFollows
<1>4. ASSUME NEW m \in Miner, DeleteMiner(m) PROVE Follows(store', s)
  <2>1. store' = [s EXCEPT !.miners[m] = None] /\ UsingMiner(s, m) = {}
    BY <1>4 DEF DeleteMiner, Commit, LeaveUnsaved
  <2> QED BY <1>0, <2>1, MinerUnused, SameFollows
<1>5. ASSUME NEW h \in Sheet, DeleteFlightSheet(h) PROVE Follows(store', s)
  <2> DEFINE n == [s EXCEPT !.sheets[h] = None]
  <2>1. store' = n /\ SheetUnused(s, h)
    BY <1>5 DEF DeleteFlightSheet, Commit
  <2>2. n.rigs = s.rigs
    BY <1>0 DEF State
  <2>3. ASSUME NEW r \in Enrolled(s) PROVE SameTold(n, s, r)
    <3>1. s.rigs[r].sheet # None => s.rigs[r].sheet \in Sheets(s)
      BY <1>0 DEF Sound, Complete, RigsComplete
    <3> QED BY <1>0, <2>1, <3>1, SheetFollows DEF SheetUnused
  <2> HIDE DEF n
  <2> QED BY <1>0, <2>1, <2>2, <2>3, SameFollows
<1>6. ASSUME NEW o \in Profile, DeleteOverclockProfile(o) PROVE Follows(store', s)
  <2> DEFINE n == [s EXCEPT !.profiles[o] = None]
  <2>1. store' = n /\ HavingProfile(s, o) = {}
    BY <1>6 DEF DeleteOverclockProfile, Commit
  <2>2. n.rigs = s.rigs
    BY <1>0 DEF State
  <2>3. \A r \in Enrolled(s) : SameTold(n, s, r)
    BY <1>0, <2>1, ProfileFollows
  <2> HIDE DEF n
  <2> QED BY <1>0, <2>1, <2>2, <2>3, SameFollows
<1>7. ASSUME NEW c \in Schedule, DeleteSchedule(c) PROVE Follows(store', s)
  <2>1. store' = [s EXCEPT !.schedules[c] = None]
    BY <1>7 DEF DeleteSchedule, Commit
  <2> QED BY <1>0, <2>1, UntouchedFollows DEF State
<1> QED BY <1>1, <1>2, <1>3, <1>4, <1>5, <1>6, <1>7 DEF Deletes

\* An entry that was there before a quick setup holds the same after it.
LEMMA PlacedSame ==
  ASSUME NEW S, NEW f \in [S -> Opt(Value)], NEW V \in SUBSET Value,
         NEW at \in [V -> S], Places(f, at), NEW x \in S, f[x] # None
  PROVE  Placed(f, at)[x] = f[x]
<1>1. \A v \in V : at[v] = x => f[x] = v
  BY DEF Places
<1> DEFINE taken == CHOOSE v \in V : at[v] = x
<1>2. Placed(f, at)[x] = IF \E v \in V : at[v] = x THEN taken ELSE f[x]
  BY DEF Placed
<1>3. (\E v \in V : at[v] = x) => taken \in V /\ at[taken] = x
  OBVIOUS
<1> HIDE DEF taken
<1> QED BY <1>1, <1>2, <1>3

LEMMA QuickSetupFollows ==
  ASSUME NEW s, Sound(s), NEW h \in Sheet, h \notin Sheets(s),
         NEW rigs, rigs \subseteq Enrolled(s),
         NEW A \in SUBSET Value, NEW U \in SUBSET Value,
         NEW walletAt \in [A -> Wallet], NEW poolAt \in [U -> Pool],
         Places(s.wallets, walletAt), Places(s.pools, poolAt),
         NEW mv \in MinerValue, NEW sheet \in SheetValue,
         s.miners[sheet.miner] \in {mv, None},
         NEW r \in Enrolled(s)
  PROVE  LET n == QuickSetup(s, h, sheet, rigs, walletAt, poolAt, mv)
         IN /\ s.rigs[r].revision <= n.rigs[r].revision
            /\ r \in rigs \/ SameTold(n, s, r)
<1> DEFINE n == QuickSetup(s, h, sheet, rigs, walletAt, poolAt, mv)
<1>1. /\ n.wallets = Placed(s.wallets, walletAt)
      /\ n.pools = Placed(s.pools, poolAt)
      /\ n.miners = [s.miners EXCEPT ![sheet.miner] = mv]
      /\ n.sheets = [s.sheets EXCEPT ![h] = sheet]
      /\ n.profiles = s.profiles
      /\ n.rigs = [q \in Rig |-> IF q \in rigs THEN [s.rigs[q] EXCEPT !.sheet = h]
                                               ELSE s.rigs[q]]
  BY DEF QuickSetup, Sound, State
<1> HIDE DEF n
<1>2. s.rigs[r] \in RigValue /\ r \in Rig /\ s.rigs[r].revision \in Nat
  BY DEF Sound, State, Enrolled, Opt, RigValue
<1>3. s.rigs[r].revision <= n.rigs[r].revision
  <2>1. n.rigs[r].revision = s.rigs[r].revision
    BY <1>1, <1>2 DEF RigValue
  <2> QED BY <1>2, <2>1
<1>4. ASSUME r \notin rigs PROVE SameTold(n, s, r)
  <2>1. n.rigs[r] = s.rigs[r]
    BY <1>1, <1>2, <1>4
  <2>2. ASSUME NEW g \in Runs(s, r)
        PROVE  /\ n.sheets[g] = s.sheets[g]
               /\ n.miners[s.sheets[g].miner] = s.miners[s.sheets[g].miner]
               /\ \A w \in s.sheets[g].wallets : n.wallets[w] = s.wallets[w]
               /\ \A p \in s.sheets[g].pools : n.pools[p] = s.pools[p]
    <3>1. /\ g \in Sheets(s) /\ s.sheets[g] \in SheetValue
          /\ s.miners[s.sheets[g].miner] \in MinerValue
          /\ \A w \in s.sheets[g].wallets : w \in Wallet /\ s.wallets[w] # None
          /\ \A p \in s.sheets[g].pools : p \in Pool /\ s.pools[p] # None
      BY RunsThere
    <3>2. n.sheets[g] = s.sheets[g]
      BY <1>1, <3>1 DEF Sound, State, Sheets
    <3>3. n.miners[s.sheets[g].miner] = s.miners[s.sheets[g].miner]
      <4>1. s.sheets[g].miner \in Miner /\ s.miners[s.sheets[g].miner] # None
        BY <3>1, NoneAssumption DEF SheetValue
      <4>2. s.miners \in [Miner -> Opt(MinerValue)]
        BY DEF Sound, State
      <4> QED BY <1>1, <4>1, <4>2
    <3>4. \A w \in s.sheets[g].wallets : n.wallets[w] = s.wallets[w]
      <4>1. s.wallets \in [Wallet -> Opt(Value)]
        BY DEF Sound, State
      <4>2. ASSUME NEW w \in Wallet, s.wallets[w] # None
            PROVE  n.wallets[w] = s.wallets[w]
        <5> DEFINE f == s.wallets
        <5>1. f \in [Wallet -> Opt(Value)] /\ f[w] # None /\ Places(f, walletAt)
          BY <4>1, <4>2
        <5> HIDE DEF f
        <5>2. Placed(f, walletAt)[w] = f[w]
          BY <5>1, PlacedSame
        <5> QED BY <1>1, <5>2 DEF f
      <4> QED BY <3>1, <4>2
    <3>5. \A p \in s.sheets[g].pools : n.pools[p] = s.pools[p]
      <4>1. s.pools \in [Pool -> Opt(Value)]
        BY DEF Sound, State
      <4>2. ASSUME NEW p \in Pool, s.pools[p] # None
            PROVE  n.pools[p] = s.pools[p]
        <5> DEFINE f == s.pools
        <5>1. f \in [Pool -> Opt(Value)] /\ f[p] # None /\ Places(f, poolAt)
          BY <4>1, <4>2
        <5> HIDE DEF f
        <5>2. Placed(f, poolAt)[p] = f[p]
          BY <5>1, PlacedSame
        <5> QED BY <1>1, <5>2 DEF f
      <4> QED BY <3>1, <4>2
    <3> QED BY <3>2, <3>3, <3>4, <3>5
  <2> QED BY <1>1, <2>1, <2>2 DEF SameTold
<1> QED BY <1>3, <1>4 DEF n

LEMMA QuickSetupsFollow ==
  ASSUME Inductive, QuickSetups
  PROVE  Follows(store', store)
<1> DEFINE s == store
<1>0. Sound(s) /\ s \in State
  BY DEF Inductive, Sound
<1>1. ASSUME NEW h \in Sheet, NEW rigs \in SUBSET Rig,
             NEW addresses \in SUBSET Value, NEW urls \in SUBSET Value,
             NEW m \in Miner, NEW mv \in MinerInput, NEW user \in UserInput,
             NEW body \in Value,
             SaveQuickFlightSheet(h, rigs, addresses, urls, m, mv, user, body)
      PROVE  Follows(store', s)
  <2>1. PICK walletAt \in [addresses -> Wallet], poolAt \in [urls -> Pool] :
          /\ Places(store.wallets, walletAt) /\ Places(store.pools, poolAt)
          /\ LET sheet == [wallets |-> Image(walletAt), pools |-> Image(poolAt),
                           miner |-> m, fallback |-> None, user |-> user, body |-> body]
             IN Commit(Bumped(QuickSetup(store, h, sheet, rigs, walletAt, poolAt, mv), rigs))
    BY <1>1 DEF SaveQuickFlightSheet
  <2> DEFINE sheet == [wallets |-> Image(walletAt), pools |-> Image(poolAt),
                       miner |-> m, fallback |-> None, user |-> user, body |-> body]
             n == QuickSetup(s, h, sheet, rigs, walletAt, poolAt, mv)
  <2>2. Image(walletAt) \in SUBSET Wallet /\ Image(poolAt) \in SUBSET Pool
    BY DEF Image
  <2>3. sheet \in SheetValue
    BY <2>2, InputAssumption DEF SheetValue, Opt
  <2>4. /\ sheet.wallets = Image(walletAt) /\ sheet.pools = Image(poolAt)
        /\ sheet.fallback = None /\ sheet.miner = m
    OBVIOUS
  <2>5. h \notin Sheets(s) /\ rigs \subseteq Enrolled(s) /\ s.miners[m] \in {mv, None}
    BY <1>1 DEF SaveQuickFlightSheet
  <2>6. mv \in MinerValue
    BY InputAssumption
  <2>7. store' = Bumped(n, rigs)
    BY <2>1 DEF Commit
  <2>8. Places(s.wallets, walletAt) /\ Places(s.pools, poolAt)
    BY <2>1
  <2> HIDE DEF sheet
  <2>9. Sound(n) /\ Enrolled(n) = Enrolled(s)
    BY <1>0, <2>3, <2>4, <2>5, <2>6, <2>8, QuickSetupSound
  <2>10. \A r \in Enrolled(s) : /\ s.rigs[r].revision <= n.rigs[r].revision
                                /\ r \in rigs \/ SameTold(n, s, r)
    BY <1>0, <2>3, <2>4, <2>5, <2>6, <2>8, QuickSetupFollows
  <2> HIDE DEF n
  <2> QED BY <1>0, <2>5, <2>7, <2>9, <2>10, BumpedFollows
<1>2. ASSUME NEW m \in Miner, NEW mv \in MinerInput, AbandonQuickSetup(m, mv)
      PROVE  Follows(store', s)
  <2>1. store' = [s EXCEPT !.miners[m] = mv] /\ s.miners[m] = None
    BY <1>2 DEF AbandonQuickSetup, LeaveUnsaved
  <2>2. UsingMiner(s, m) = {}
    BY <1>0, <2>1 DEF Sound, Complete, SheetsComplete, UsingMiner
  <2> QED BY <1>0, <2>1, <2>2, MinerUnused, SameFollows
<1> QED BY <1>1, <1>2 DEF QuickSetups

\* Resolving a sheet for one rig changes nothing but logins.
LEMMA RewrittenTold ==
  ASSUME NEW s, Sound(s), NEW q \in Rig
  PROVE  LET n == Rewritten(s, q)
         IN /\ n.rigs = s.rigs /\ n.schedules = s.schedules
            /\ \A r \in Enrolled(s) : SameTold(n, s, r)
<1> DEFINE n == Rewritten(s, q)
<1>1. /\ n.rigs = s.rigs /\ n.schedules = s.schedules
      /\ n.wallets = s.wallets /\ n.pools = s.pools
      /\ n.sheets = s.sheets /\ n.profiles = s.profiles
      /\ n.miners = [m \in Miner |->
           IF m \in Shared(s, q) THEN Settled(s.miners[m]) ELSE s.miners[m]]
  BY DEF Sound, State, Rewritten, Settled
<1> HIDE DEF n
<1>2. ASSUME NEW r \in Enrolled(s), NEW h \in Runs(s, r)
      PROVE  Settled(n.miners[s.sheets[h].miner]) = Settled(s.miners[s.sheets[h].miner])
  <2>1. s.miners[s.sheets[h].miner] \in MinerValue /\ s.sheets[h].miner \in Miner
    BY RunsThere DEF SheetValue
  <2>2. \A v \in MinerValue : Settled(Settled(v)) = Settled(v)
    BY DEF Settled, MinerValue
  <2> QED BY <1>1, <2>1, <2>2
<1> QED BY <1>1, <1>2 DEF n, SameTold

LEMMA RigStepsFollow ==
  ASSUME Inductive, RigSteps
  PROVE  Follows(store', store)
<1> DEFINE s == store
<1>0. Sound(s) /\ s \in State
  BY DEF Inductive, Sound
<1> PICK r \in Rig :
    \/ \E name \in Name : Enroll(r, name)
    \/ \E name \in Opt(Name), farm \in Opt(Farm), sheet \in Opt(Sheet),
          profile \in Opt(Profile), rules \in Rules :
         AssignWorker(r, name, farm, sheet, profile, rules)
    \/ \E gpus \in BOOLEAN : Heartbeat(r, gpus)
    \/ \E v \in Value : FinishSmartTune(r, v)
    \/ DeleteRig(r)
    \/ Resolve(r)
  BY DEF RigSteps
<1>1. r \in Enrolled(s) => s.rigs[r] \in RigValue /\ s.rigs[r].revision \in Nat
  BY <1>0 DEF State, Enrolled, Opt, RigValue
\* A step that gives rig r the value v and no other rig another one.
<1>2. ASSUME NEW n, NEW v, n = [s EXCEPT !.rigs[r] = v]
      PROVE  /\ \A q \in Enrolled(s) : q # r => /\ s.rigs[q].revision <= n.rigs[q].revision
                                                /\ SameTold(n, s, q)
             /\ n.rigs[r] = v
  <2>1. /\ n.rigs = [s.rigs EXCEPT ![r] = v]
        /\ n.sheets = s.sheets /\ n.wallets = s.wallets
        /\ n.pools = s.pools /\ n.miners = s.miners /\ n.profiles = s.profiles
    BY <1>0, <1>2 DEF State
  <2>2. \A q \in Enrolled(s) : q # r => n.rigs[q] = s.rigs[q]
    BY <1>0, <2>1 DEF State, Enrolled
  <2>3. n.rigs[r] = v
    BY <1>0, <2>1 DEF State
  <2> QED BY <1>0, <2>1, <2>2, <2>3, OtherRigsFollow
<1>3. ASSUME NEW name \in Name, Enroll(r, name) PROVE Follows(store', s)
  <2>1. store' = [s EXCEPT !.rigs[r] = NewRig(name)] /\ r \notin Enrolled(s)
    BY <1>3 DEF Enroll, Commit
  <2> QED BY <1>2, <2>1 DEF Follows
<1>4. ASSUME NEW name \in Opt(Name), NEW farm \in Opt(Farm), NEW sheet \in Opt(Sheet),
             NEW profile \in Opt(Profile), NEW rules \in Rules,
             AssignWorker(r, name, farm, sheet, profile, rules)
      PROVE  Follows(store', s)
  <2> DEFINE old == s.rigs[r]
             v == Assigned(old, name, farm, sheet, profile, rules)
             n == [s EXCEPT !.rigs[r] = v]
  <2>1. r \in Enrolled(s) /\ old \in RigValue /\ old.revision \in Nat
    BY <1>1, <1>4 DEF AssignWorker
  <2>2. /\ v \in RigValue
        /\ v.farm = farm /\ v.sheet = sheet /\ v.profile = profile /\ v.rules = rules
        /\ v.name = IF name = None THEN old.name ELSE name
        /\ v.revision = old.revision
    BY <2>1 DEF Assigned, RigValue, Opt
  <2>3. \A q \in Enrolled(s) \ {r} : s.rigs[q].name # v.name
    BY <1>0, <1>4, <2>1, <2>2 DEF AssignWorker, NameFree, Sound, NamesDistinct
  <2>4. /\ farm # None => farm \in s.farms
        /\ sheet # None => sheet \in Sheets(s)
        /\ profile # None => s.profiles[profile] # None
    BY <1>4 DEF AssignWorker
  <2>5. \/ store' = Bumped(n, {r})
        \/ /\ store' = n
           /\ << sheet, profile, rules >> = << old.sheet, old.profile, old.rules >>
    BY <1>4 DEF AssignWorker, Commit
  <2> HIDE DEF v
  <2>6. Sound(n) /\ r \in Enrolled(n)
    BY <1>0, <2>2, <2>3, <2>4, RigSavedSound
  <2>7. /\ \A q \in Enrolled(s) : q # r => /\ s.rigs[q].revision <= n.rigs[q].revision
                                           /\ SameTold(n, s, q)
        /\ n.rigs[r] = v
        /\ n.sheets = s.sheets /\ n.wallets = s.wallets
        /\ n.pools = s.pools /\ n.miners = s.miners /\ n.profiles = s.profiles
    BY <1>0, <1>2 DEF State
  <2>8. s.rigs[r].revision <= n.rigs[r].revision
    BY <2>1, <2>2, <2>7
  <2> HIDE DEF n
  <2>9. CASE store' = Bumped(n, {r})
    BY <1>0, <2>6, <2>7, <2>8, <2>9, BumpedFollows
  <2>10. CASE /\ store' = n
              /\ << sheet, profile, rules >> = << old.sheet, old.profile, old.rules >>
    <3>1. n.rigs[r].name = s.rigs[r].name => SameTold(n, s, r)
      BY <2>2, <2>7, <2>10 DEF SameTold
    <3> QED BY <2>7, <2>8, <2>10, <3>1 DEF Follows
  <2> QED BY <2>5, <2>9, <2>10
<1>5. ASSUME NEW gpus \in BOOLEAN, Heartbeat(r, gpus) PROVE Follows(store', s)
  <2> DEFINE v == [s.rigs[r] EXCEPT !.gpus = gpus]
             n == [s EXCEPT !.rigs[r] = v]
  <2>1. r \in Enrolled(s) /\ s.rigs[r] \in RigValue /\ s.rigs[r].revision \in Nat
    BY <1>1, <1>5 DEF Heartbeat
  <2>2. store' = n
    BY <1>0, <1>5 DEF Heartbeat, Commit, LeaveUnsaved, State
  <2>3. /\ v.name = s.rigs[r].name /\ v.rules = s.rigs[r].rules
        /\ v.sheet = s.rigs[r].sheet /\ v.profile = s.rigs[r].profile
        /\ v.revision = s.rigs[r].revision
    BY <2>1 DEF RigValue
  <2> HIDE DEF v
  <2>4. /\ n.sheets = s.sheets /\ n.wallets = s.wallets
        /\ n.pools = s.pools /\ n.miners = s.miners /\ n.profiles = s.profiles
        /\ n.rigs[r] = v
    BY <1>0 DEF State
  <2>5. SameTold(n, s, r) /\ s.rigs[r].revision <= n.rigs[r].revision
    BY <2>1, <2>3, <2>4 DEF SameTold
  <2>6. \A q \in Enrolled(s) : q # r => /\ s.rigs[q].revision <= n.rigs[q].revision
                                        /\ SameTold(n, s, q)
    BY <1>2
  <2> HIDE DEF n
  <2> QED BY <2>2, <2>5, <2>6 DEF Follows
<1>6. ASSUME NEW v \in Value, FinishSmartTune(r, v) PROVE Follows(store', s)
  <2> DEFINE o == s.rigs[r].profile
             n == [s EXCEPT !.profiles[o] = v]
  <2>1. o \in Profile /\ r \in Enrolled(s)
    BY <1>1, <1>6 DEF FinishSmartTune, RigValue, Opt
  <2>2. store' = Bumped(n, {r}) /\ HavingProfile(s, o) = {r}
    BY <1>6 DEF FinishSmartTune, Commit, UsedByOnly
  <2> HIDE DEF o
  <2>3. Sound(n)
    BY <1>0, <2>1, ProfileSound, NoneAssumption DEF Opt
  <2>4. n.rigs = s.rigs
    BY <1>0 DEF State
  <2>5. {r} \subseteq Enrolled(n)
    BY <2>1, <2>4 DEF Enrolled
  <2>6. \A q \in Enrolled(s) \ {r} : SameTold(n, s, q)
    BY <1>0, <2>1, <2>2, ProfileFollows
  <2> HIDE DEF n
  <2> QED BY <1>0, <2>2, <2>3, <2>4, <2>5, <2>6, KeptFollows
<1>7. ASSUME DeleteRig(r) PROVE Follows(store', s)
  <2> DEFINE n == WithoutRig(s, r)
  <2>1. store' = n
    BY <1>7 DEF DeleteRig, Commit
  <2>2. /\ n.rigs = [s.rigs EXCEPT ![r] = None]
        /\ n.sheets = s.sheets /\ n.wallets = s.wallets
        /\ n.pools = s.pools /\ n.miners = s.miners /\ n.profiles = s.profiles
    BY <1>0 DEF State, WithoutRig
  <2> HIDE DEF n
  <2>3. \A q \in Enrolled(s) \cap Enrolled(n) : n.rigs[q] = s.rigs[q]
    BY <1>0, <2>2 DEF State, Enrolled
  <2> QED BY <1>0, <2>1, <2>2, <2>3, OtherRigsFollow DEF Follows
<1>8. ASSUME Resolve(r) PROVE Follows(store', s)
  <2>1. store' = Rewritten(s, r)
    BY <1>8 DEF Resolve, LeaveUnsaved
  <2> QED BY <1>0, <2>1, RewrittenTold, SameFollows
<1> QED BY <1>3, <1>4, <1>5, <1>6, <1>7, <1>8

LEMMA ClockFollows ==
  ASSUME Inductive, Clock
  PROVE  Follows(store', store)
<1> DEFINE s == store
<1>0. Sound(s) /\ s \in State
  BY DEF Inductive, Sound
<1>1. CASE NextMinute
  <2>1. store' = MinuteOver(s)
    BY <1>1 DEF NextMinute
  <2> QED BY <1>0, <2>1, UntouchedFollows DEF State, MinuteOver
<1>2. ASSUME NEW D \in SUBSET Schedule, RunSchedules(D) PROVE Follows(store', s)
  <2>1. PICK rank \in [D -> 1 .. Cardinality(Schedule)], last \in [Rig -> Opt(D)] :
          /\ \A r \in Rig :
               LET applying == Applying(store, D, r)
               IN IF applying = {} THEN last[r] = None
                  ELSE /\ last[r] \in applying
                       /\ \A c \in applying : rank[c] <= rank[last[r]]
          /\ Commit(AfterRun(store, D, last))
    BY <1>2 DEF RunSchedules
  <2> DEFINE n == AfterRun(s, D, last)
             moved(r) == [s.rigs[r] EXCEPT
                            !.sheet = s.schedules[last[r]].sheet,
                            !.revision = @ + Bumps(s, D, r)]
  <2>2. store' = n
    BY <2>1 DEF Commit
  <2>3. /\ n.rigs = [r \in Rig |-> IF r \in Enrolled(s) /\ last[r] # None
                                     THEN moved(r) ELSE s.rigs[r]]
        /\ n.sheets = s.sheets /\ n.wallets = s.wallets
        /\ n.pools = s.pools /\ n.miners = s.miners /\ n.profiles = s.profiles
    BY <1>0 DEF State, AfterRun
  <2> HIDE DEF n
  <2>4. ASSUME NEW r \in Enrolled(s), last[r] # None
        PROVE  s.rigs[r].revision < n.rigs[r].revision
    <3>1. s.rigs[r] \in RigValue /\ s.rigs[r].revision \in Nat /\ r \in Rig
      BY <1>0 DEF State, Enrolled, Opt, RigValue
    <3>2. Bumps(s, D, r) \in Nat /\ Bumps(s, D, r) # 0
      <4>1. IsFiniteSet(Applying(s, D, r))
        BY FiniteAssumption, FS_Subset DEF Applying
      <4>2. Applying(s, D, r) # {}
        BY <2>1, <2>4, <3>1
      <4> QED BY <4>1, <4>2, FS_EmptySet, FS_CardinalityType DEF Bumps
    <3> DEFINE k == s.rigs[r].revision + Bumps(s, D, r)
               sh == s.schedules[last[r]].sheet
    <3>3. n.rigs[r] = [s.rigs[r] EXCEPT !.sheet = sh, !.revision = k]
      BY <2>3, <2>4, <3>1
    <3>4. k > s.rigs[r].revision
      BY <3>1, <3>2
    <3> HIDE DEF k, sh
    <3>5. n.rigs[r].revision = k
      BY <3>1, <3>3 DEF RigValue
    <3> QED BY <3>4, <3>5
  <2>5. ASSUME NEW r \in Enrolled(s), last[r] = None
        PROVE  n.rigs[r] = s.rigs[r]
    BY <2>3, <2>5 DEF Enrolled
  <2>6. ASSUME NEW r \in Enrolled(s)
        PROVE  /\ s.rigs[r].revision <= n.rigs[r].revision
               /\ SameTold(n, s, r) \/ s.rigs[r].revision < n.rigs[r].revision
    <3>1. CASE last[r] = None
      BY <1>0, <2>3, <2>5, <3>1, OtherRigsFollow
    <3>2. CASE last[r] # None
      <4>1. s.rigs[r] \in RigValue /\ s.rigs[r].revision \in Nat
        BY <1>0 DEF State, Enrolled, Opt, RigValue
      <4>2. s.rigs[r].revision < n.rigs[r].revision
        BY <2>4, <3>2
      <4>3. n.rigs[r].revision \in Nat
        <5>1. Sound(n)
          <6>1. \A q \in Rig : last[q] # None => last[q] \in Applying(s, D, q)
            BY <2>1
          <6>2. D \subseteq Schedules(s)
            BY <1>2 DEF RunSchedules, Due
          <6> QED BY <1>0, <6>1, <6>2, AfterRunSound DEF n
        <5>2. Enrolled(n) = Enrolled(s)
          <6>1. \A q \in Rig : last[q] # None => last[q] \in Applying(s, D, q)
            BY <2>1
          <6>2. D \subseteq Schedules(s)
            BY <1>2 DEF RunSchedules, Due
          <6> QED BY <1>0, <6>1, <6>2, AfterRunSound DEF n
        <5> QED BY <5>1, <5>2 DEF Sound, State, Enrolled, Opt, RigValue
      <4> QED BY <4>1, <4>2, <4>3
    <3> QED BY <3>1, <3>2
  <2> HIDE DEF moved
  <2> QED BY <2>2, <2>6 DEF Follows
<1> QED BY <1>1, <1>2 DEF Clock

-----------------------------------------------------------------------------
(* What a restart or a failed save goes back to. *)

\* Which schedules have run in the present minute is remembered.
Once(s, f) ==
  \A c \in Schedules(s) : f[c] <= 1 /\ (f[c] > 0 => s.schedules[c].ran)

\* Where miners come from: an input, or a resolved one.
MinersFrom(n, s) ==
  \A m \in Miner :
    \/ n.miners[m] \in {s.miners[m], None} \cup MinerInput
    \/ s.miners[m] \in MinerValue /\ n.miners[m] = Settled(s.miners[m])

LoginsOff(s) == \A m \in Miner : s.miners[m] # None => s.miners[m].login = FALSE

Remembered == /\ Inductive
              /\ Agrees(store, disk)
              /\ Once(store, fired)

LEMMA AgreesReflexive ==
  ASSUME NEW s PROVE Agrees(s, s)
BY DEF Agrees, SameTold

\* An operation left unsaved that changes nothing of what a rig is told.
LEMMA AgreesStill ==
  ASSUME NEW s, NEW d, NEW n, Sound(s), Agrees(s, d),
         Enrolled(n) = Enrolled(s), n.schedules = s.schedules,
         \A r \in Enrolled(s) : /\ n.rigs[r].revision = s.rigs[r].revision
                                /\ SameTold(n, s, r)
  PROVE  Agrees(n, d)
<1> SUFFICES ASSUME NEW r \in Enrolled(s)
             PROVE  n.rigs[r].revision = d.rigs[r].revision /\ SameTold(d, n, r)
  BY DEF Agrees
<1>1. SameTold(n, s, r) /\ SameTold(d, s, r) /\ s.rigs[r].revision = d.rigs[r].revision
  BY DEF Agrees
<1>2. Runs(n, r) = Runs(s, r)
  <2> DEFINE main == s.rigs[r].sheet
  <2>1. n.rigs[r].sheet = main
    BY <1>1 DEF SameTold
  <2>2. CASE main \in Sheets(s)
    <3>1. main \in Runs(s, r)
      BY <2>2 DEF Runs
    <3>2. n.sheets[main] = s.sheets[main] /\ main \in Sheets(n)
      BY <1>1, <2>2, <3>1 DEF SameTold, Sheets
    <3> QED BY <2>1, <2>2, <3>2 DEF Runs
  <2>3. CASE main \notin Sheets(s)
    <3>1. main = None
      BY <2>3 DEF Sound, Complete, RigsComplete
    <3>2. main \notin Sheets(n)
      BY <3>1, NoneAssumption DEF Sheets
    <3> QED BY <2>1, <2>3, <3>2 DEF Runs
  <2> QED BY <2>2, <2>3
<1> QED BY <1>1, <1>2, SMTT(30) DEF SameTold

LEMMA BumpedFields ==
  ASSUME NEW n \in State, NEW R
  PROVE  Bumped(n, R).schedules = n.schedules /\ Bumped(n, R).miners = n.miners
BY DEF Bumped, State

\* An operation that touches neither the schedules nor the miners.
LEMMA RememberedSame ==
  ASSUME NEW s, NEW n, NEW f, Once(s, f), n.schedules = s.schedules
  PROVE  Once(n, f)
BY DEF Once, Schedules

LEMMA SavesRemember ==
  ASSUME Remembered, Saves
  PROVE  /\ Agrees(store', disk')
         /\ Once(store', fired')
         /\ MinersFrom(store', store)
<1> DEFINE s == store
<1>0. Sound(s) /\ s \in State /\ Once(s, fired) /\ fired \in [Schedule -> Nat]
  BY DEF Remembered, Inductive, Sound
<1>1. disk' = store'
  <2>1. \A f : SaveFarm(f) => disk' = store'
    BY DEF SaveFarm, Commit
  <2>2. \A w, v : SaveWallet(w, v) => disk' = store'
    BY DEF SaveWallet, Commit
  <2>3. \A p, v : SavePool(p, v) => disk' = store'
    BY DEF SavePool, Commit
  <2>4. \A m, v : SaveMiner(m, v) => disk' = store'
    BY DEF SaveMiner, Commit
  <2>5. \A h, v : SaveFlightSheet(h, v) => disk' = store'
    BY DEF SaveFlightSheet, Commit
  <2>6. \A o, v : SaveOverclockProfile(o, v) => disk' = store'
    BY DEF SaveOverclockProfile, Commit
  <2>7. \A v : SetGPUPowerPolicy(v) => disk' = store'
    BY DEF SetGPUPowerPolicy, Commit
  <2>8. \A c, apply, sheet, rigs, enabled :
          SaveSchedule(c, apply, sheet, rigs, enabled) => disk' = store'
    BY DEF SaveSchedule, Commit
  <2> QED BY <2>1, <2>2, <2>3, <2>4, <2>5, <2>6, <2>7, <2>8 DEF Saves
<1>2. ASSUME NEW c \in Schedule, NEW apply \in BOOLEAN, NEW sheet \in Opt(Sheet),
             NEW rigs \in SUBSET Rig, NEW enabled \in BOOLEAN,
             SaveSchedule(c, apply, sheet, rigs, enabled)
      PROVE  Once(store', fired') /\ MinersFrom(store', store)
  <2> DEFINE v == [apply |-> apply, sheet |-> sheet, rigs |-> rigs,
                   enabled |-> enabled, ran |-> RunAlready(s, c)]
  <2>1. /\ store' = [s EXCEPT !.schedules[c] = v]
        /\ fired' = IF s.schedules[c] = None THEN [fired EXCEPT ![c] = 0] ELSE fired
    BY <1>2 DEF SaveSchedule, Commit
  <2>2. store'.schedules = [s.schedules EXCEPT ![c] = v] /\ store'.miners = s.miners
    BY <1>0, <2>1 DEF State
  <2>3. v.ran = RunAlready(s, c)
    OBVIOUS
  <2> HIDE DEF v
  <2>4. ASSUME NEW x \in Schedules(store')
        PROVE  fired'[x] <= 1 /\ (fired'[x] > 0 => store'.schedules[x].ran)
    <3>1. CASE x # c
      <4>1. store'.schedules[x] = s.schedules[x] /\ fired'[x] = fired[x] /\ x \in Schedules(s)
        BY <1>0, <2>1, <2>2, <3>1 DEF State, Schedules
      <4> QED BY <1>0, <4>1 DEF Once
    <3>2. CASE x = c /\ s.schedules[c] = None
      <4>1. fired'[x] = 0
        BY <1>0, <2>1, <3>2
      <4> QED BY <4>1
    <3>3. CASE x = c /\ s.schedules[c] # None
      <4>1. store'.schedules[x] = v /\ fired' = fired /\ c \in Schedules(s)
        BY <1>0, <2>1, <2>2, <3>3 DEF State, Schedules
      <4>2. v.ran = s.schedules[c].ran
        BY <1>0, <2>3, <3>3 DEF RunAlready, State, ScheduleValue, Opt
      <4> QED BY <1>0, <3>3, <4>1, <4>2 DEF Once
    <3> QED BY <3>1, <3>2, <3>3
  <2> QED BY <2>2, <2>4 DEF Once, MinersFrom
<1>3. ASSUME NEW m \in Miner, NEW v \in MinerInput, SaveMiner(m, v)
      PROVE  Once(store', fired') /\ MinersFrom(store', store)
  <2> DEFINE n == [s EXCEPT !.miners[m] = v]
  <2>1. n \in State
    BY <1>0, MinerSound, NoneAssumption, InputAssumption DEF Opt, Sound
  <2>2. n.miners = [s.miners EXCEPT ![m] = v] /\ n.schedules = s.schedules
    BY <1>0 DEF State
  <2>3. \E R : store' = Bumped(n, R)
    BY <1>3 DEF SaveMiner, Commit
  <2>4. fired' = fired
    BY <1>3 DEF SaveMiner
  <2> HIDE DEF n
  <2>5. store'.miners = [s.miners EXCEPT ![m] = v] /\ store'.schedules = s.schedules
    BY <2>1, <2>2, <2>3, BumpedFields
  <2> QED BY <1>0, <2>4, <2>5, RememberedSame DEF MinersFrom, State
\* All other saves.
<1>4. ASSUME store'.schedules = s.schedules, store'.miners = s.miners, fired' = fired
      PROVE  Once(store', fired') /\ MinersFrom(store', store)
  BY <1>0, <1>4, RememberedSame DEF MinersFrom
<1>5. ASSUME NEW f \in Farm, SaveFarm(f)
      PROVE  store'.schedules = s.schedules /\ store'.miners = s.miners /\ fired' = fired
  BY <1>0, <1>5 DEF SaveFarm, Commit, State
<1>6. ASSUME NEW n \in State, NEW R, store' = Bumped(n, R),
             n.schedules = s.schedules, n.miners = s.miners
      PROVE  store'.schedules = s.schedules /\ store'.miners = s.miners
  BY <1>6, BumpedFields
<1>7. ASSUME NEW w \in Wallet, NEW v \in Value, SaveWallet(w, v)
      PROVE  store'.schedules = s.schedules /\ store'.miners = s.miners /\ fired' = fired
  <2> DEFINE n == [s EXCEPT !.wallets[w] = v]
  <2>1. n \in State /\ n.schedules = s.schedules /\ n.miners = s.miners
    BY <1>0 DEF State, Opt
  <2>2. \E R : store' = Bumped(n, R)
    BY <1>7 DEF SaveWallet, Commit
  <2>3. fired' = fired
    BY <1>7 DEF SaveWallet
  <2> HIDE DEF n
  <2> QED BY <1>6, <2>1, <2>2, <2>3
<1>8. ASSUME NEW p \in Pool, NEW v \in Value, SavePool(p, v)
      PROVE  store'.schedules = s.schedules /\ store'.miners = s.miners /\ fired' = fired
  <2> DEFINE n == [s EXCEPT !.pools[p] = v]
  <2>1. n \in State /\ n.schedules = s.schedules /\ n.miners = s.miners
    BY <1>0 DEF State, Opt
  <2>2. (\E R : store' = Bumped(n, R)) \/ store' = n
    BY <1>8 DEF SavePool, Commit
  <2>3. fired' = fired
    BY <1>8 DEF SavePool
  <2> HIDE DEF n
  <2> QED BY <1>6, <2>1, <2>2, <2>3
<1>9. ASSUME NEW h \in Sheet, NEW v \in SheetInput, SaveFlightSheet(h, v)
      PROVE  store'.schedules = s.schedules /\ store'.miners = s.miners /\ fired' = fired
  <2> DEFINE n == [s EXCEPT !.sheets[h] = v]
  <2>1. v \in SheetValue
    BY InputAssumption DEF SheetInput, SheetValue
  <2>2. n \in State /\ n.schedules = s.schedules /\ n.miners = s.miners
    BY <1>0, <2>1 DEF State, Opt
  <2>3. \E R : store' = Bumped(n, R)
    BY <1>9 DEF SaveFlightSheet, Commit
  <2>4. fired' = fired
    BY <1>9 DEF SaveFlightSheet
  <2> HIDE DEF n
  <2> QED BY <1>6, <2>2, <2>3, <2>4
<1>10. ASSUME NEW o \in Profile, NEW v \in Value, SaveOverclockProfile(o, v)
       PROVE  store'.schedules = s.schedules /\ store'.miners = s.miners /\ fired' = fired
  <2> DEFINE n == [s EXCEPT !.profiles[o] = v]
  <2>1. n \in State /\ n.schedules = s.schedules /\ n.miners = s.miners
    BY <1>0 DEF State, Opt
  <2>2. \E R : store' = Bumped(n, R)
    BY <1>10 DEF SaveOverclockProfile, Commit
  <2>3. fired' = fired
    BY <1>10 DEF SaveOverclockProfile
  <2> HIDE DEF n
  <2> QED BY <1>6, <2>1, <2>2, <2>3
<1>11. ASSUME NEW v \in Limit, SetGPUPowerPolicy(v)
       PROVE  store'.schedules = s.schedules /\ store'.miners = s.miners /\ fired' = fired
  <2> DEFINE n == [s EXCEPT !.policy = v]
  <2>1. n \in State /\ n.schedules = s.schedules /\ n.miners = s.miners
    BY <1>0 DEF State
  <2>2. \E R : store' = Bumped(n, R)
    BY <1>11 DEF SetGPUPowerPolicy, Commit
  <2>3. fired' = fired
    BY <1>11 DEF SetGPUPowerPolicy
  <2> HIDE DEF n
  <2> QED BY <1>6, <2>1, <2>2, <2>3
<1>12. Once(store', fired') /\ MinersFrom(store', store)
  BY <1>2, <1>3, <1>4, <1>5, <1>7, <1>8, <1>9, <1>10, <1>11 DEF Saves
<1> QED BY <1>1, <1>12, AgreesReflexive

LEMMA QuickSetupsRemember ==
  ASSUME Remembered, QuickSetups
  PROVE  /\ Agrees(store', disk')
         /\ Once(store', fired')
         /\ MinersFrom(store', store)
<1> DEFINE s == store
<1>0. /\ Sound(s) /\ s \in State /\ Once(s, fired) /\ fired \in [Schedule -> Nat]
      /\ Agrees(s, disk)
  BY DEF Remembered, Inductive, Sound
<1>1. ASSUME NEW h \in Sheet, NEW rigs \in SUBSET Rig,
             NEW addresses \in SUBSET Value, NEW urls \in SUBSET Value,
             NEW m \in Miner, NEW mv \in MinerInput, NEW user \in UserInput,
             NEW body \in Value,
             SaveQuickFlightSheet(h, rigs, addresses, urls, m, mv, user, body)
      PROVE  /\ Agrees(store', disk')
             /\ Once(store', fired')
             /\ MinersFrom(store', store)
  <2>1. PICK walletAt \in [addresses -> Wallet], poolAt \in [urls -> Pool] :
          /\ Places(store.wallets, walletAt) /\ Places(store.pools, poolAt)
          /\ LET sheet == [wallets |-> Image(walletAt), pools |-> Image(poolAt),
                           miner |-> m, fallback |-> None, user |-> user, body |-> body]
             IN Commit(Bumped(QuickSetup(store, h, sheet, rigs, walletAt, poolAt, mv), rigs))
    BY <1>1 DEF SaveQuickFlightSheet
  <2> DEFINE sheet == [wallets |-> Image(walletAt), pools |-> Image(poolAt),
                       miner |-> m, fallback |-> None, user |-> user, body |-> body]
             n == QuickSetup(s, h, sheet, rigs, walletAt, poolAt, mv)
  <2>2. Image(walletAt) \in SUBSET Wallet /\ Image(poolAt) \in SUBSET Pool
    BY DEF Image
  <2>3. sheet \in SheetValue
    BY <2>2, InputAssumption DEF SheetValue, Opt
  <2>4. /\ sheet.wallets = Image(walletAt) /\ sheet.pools = Image(poolAt)
        /\ sheet.fallback = None /\ sheet.miner = m
    OBVIOUS
  <2>5. h \notin Sheets(s) /\ rigs \subseteq Enrolled(s) /\ fired' = fired
    BY <1>1 DEF SaveQuickFlightSheet
  <2>6. mv \in MinerValue
    BY InputAssumption
  <2>7. store' = Bumped(n, rigs) /\ disk' = store'
    BY <2>1 DEF Commit
  <2>8. Places(s.wallets, walletAt) /\ Places(s.pools, poolAt)
    BY <2>1
  <2> HIDE DEF sheet
  <2>9. n \in State
    BY <1>0, <2>3, <2>4, <2>5, <2>6, <2>8, QuickSetupSound DEF Sound
  <2>10. n.miners = [s.miners EXCEPT ![m] = mv] /\ n.schedules = s.schedules
    BY <1>0, <2>4 DEF QuickSetup, State
  <2> HIDE DEF n
  <2>11. store'.miners = [s.miners EXCEPT ![m] = mv] /\ store'.schedules = s.schedules
    BY <2>7, <2>9, <2>10, BumpedFields
  <2>12. MinersFrom(store', store)
    BY <1>0, <2>11 DEF MinersFrom, State
  <2>13. Once(store', fired')
    BY <1>0, <2>5, <2>11, RememberedSame
  <2> QED BY <2>7, <2>12, <2>13, AgreesReflexive
<1>2. ASSUME NEW m \in Miner, NEW mv \in MinerInput, AbandonQuickSetup(m, mv)
      PROVE  /\ Agrees(store', disk')
             /\ Once(store', fired')
             /\ MinersFrom(store', store)
  <2>1. /\ store' = [s EXCEPT !.miners[m] = mv] /\ s.miners[m] = None
        /\ fired' = fired /\ disk' = disk
    BY <1>2 DEF AbandonQuickSetup, LeaveUnsaved
  <2>2. UsingMiner(s, m) = {}
    BY <1>0, <2>1 DEF Sound, Complete, SheetsComplete, UsingMiner
  <2>3. store'.miners = [s.miners EXCEPT ![m] = mv] /\ store'.rigs = s.rigs
    BY <1>0, <2>1 DEF State
  <2>4. /\ store'.schedules = s.schedules
        /\ \A r \in Enrolled(s) : SameTold(store', s, r)
    BY <1>0, <2>1, <2>2, MinerUnused
  <2>5. MinersFrom(store', store)
    BY <1>0, <2>3 DEF MinersFrom, State
  <2>6. Once(store', fired')
    BY <1>0, <2>1, <2>4, RememberedSame
  <2>7. Enrolled(store') = Enrolled(s)
    BY <2>3 DEF Enrolled
  <2> QED BY <1>0, <2>1, <2>3, <2>4, <2>5, <2>6, <2>7, AgreesStill
<1> QED BY <1>1, <1>2 DEF QuickSetups

LEMMA DeletesRemember ==
  ASSUME Remembered, Deletes
  PROVE  /\ Agrees(store', disk')
         /\ Once(store', fired')
         /\ MinersFrom(store', store)
<1> DEFINE s == store
<1>0. /\ Sound(s) /\ s \in State /\ Once(s, fired) /\ fired \in [Schedule -> Nat]
      /\ Agrees(s, disk)
  BY DEF Remembered, Inductive, Sound
<1>1. ASSUME NEW m \in Miner, DeleteMiner(m)
      PROVE  /\ Agrees(store', disk')
             /\ Once(store', fired')
             /\ MinersFrom(store', store)
  <2>1. /\ store' = [s EXCEPT !.miners[m] = None] /\ UsingMiner(s, m) = {}
        /\ fired' = fired /\ (disk' = disk \/ disk' = store')
    BY <1>1 DEF DeleteMiner, LeaveUnsaved, Commit
  <2>3. store'.miners = [s.miners EXCEPT ![m] = None] /\ store'.rigs = s.rigs
    BY <1>0, <2>1 DEF State
  <2>4. /\ store'.schedules = s.schedules
        /\ \A r \in Enrolled(s) : SameTold(store', s, r)
    BY <1>0, <2>1, MinerUnused
  <2>5. MinersFrom(store', store)
    BY <1>0, <2>3 DEF MinersFrom, State
  <2>6. Once(store', fired')
    BY <1>0, <2>1, <2>4, RememberedSame
  <2>7. Enrolled(store') = Enrolled(s)
    BY <2>3 DEF Enrolled
  <2>8. Agrees(store', disk)
    BY <1>0, <2>3, <2>4, <2>7, AgreesStill
  <2> QED BY <2>1, <2>5, <2>6, <2>8, AgreesReflexive
<1>2. ASSUME NEW c \in Schedule, DeleteSchedule(c)
      PROVE  /\ Agrees(store', disk')
             /\ Once(store', fired')
             /\ MinersFrom(store', store)
  <2>1. store' = [s EXCEPT !.schedules[c] = None] /\ disk' = store' /\ fired' = fired
    BY <1>2 DEF DeleteSchedule, Commit
  <2>2. store'.schedules = [s.schedules EXCEPT ![c] = None] /\ store'.miners = s.miners
    BY <1>0, <2>1 DEF State
  <2>3. ASSUME NEW x \in Schedules(store')
        PROVE  x \in Schedules(s) /\ store'.schedules[x] = s.schedules[x]
    BY <1>0, <2>2 DEF State, Schedules
  <2>4. Once(store', fired')
    BY <1>0, <2>1, <2>3 DEF Once
  <2>5. MinersFrom(store', store)
    BY <2>2 DEF MinersFrom
  <2> QED BY <2>1, <2>4, <2>5, AgreesReflexive
\* The other deletions are saved and touch neither.
<1>3. ASSUME disk' = store', fired' = fired, store'.schedules = s.schedules,
             store'.miners = s.miners
      PROVE  /\ Agrees(store', disk')
             /\ Once(store', fired')
             /\ MinersFrom(store', store)
  BY <1>0, <1>3, RememberedSame, AgreesReflexive DEF MinersFrom
<1>4. ASSUME NEW f \in Farm, DeleteFarm(f)
      PROVE  /\ disk' = store' /\ fired' = fired /\ store'.schedules = s.schedules
             /\ store'.miners = s.miners
  BY <1>0, <1>4 DEF DeleteFarm, Commit, State
<1>5. ASSUME NEW w \in Wallet, DeleteWallet(w)
      PROVE  /\ disk' = store' /\ fired' = fired /\ store'.schedules = s.schedules
             /\ store'.miners = s.miners
  BY <1>0, <1>5 DEF DeleteWallet, Commit, State
<1>6. ASSUME NEW p \in Pool, DeletePool(p)
      PROVE  /\ disk' = store' /\ fired' = fired /\ store'.schedules = s.schedules
             /\ store'.miners = s.miners
  BY <1>0, <1>6 DEF DeletePool, Commit, State
<1>7. ASSUME NEW h \in Sheet, DeleteFlightSheet(h)
      PROVE  /\ disk' = store' /\ fired' = fired /\ store'.schedules = s.schedules
             /\ store'.miners = s.miners
  BY <1>0, <1>7 DEF DeleteFlightSheet, Commit, State
<1>8. ASSUME NEW o \in Profile, DeleteOverclockProfile(o)
      PROVE  /\ disk' = store' /\ fired' = fired /\ store'.schedules = s.schedules
             /\ store'.miners = s.miners
  BY <1>0, <1>8 DEF DeleteOverclockProfile, Commit, State
<1> QED BY <1>1, <1>2, <1>3, <1>4, <1>5, <1>6, <1>7, <1>8 DEF Deletes

LEMMA RigStepsRemember ==
  ASSUME Remembered, RigSteps
  PROVE  /\ Agrees(store', disk')
         /\ Once(store', fired')
         /\ MinersFrom(store', store)
<1> DEFINE s == store
<1>0. /\ Sound(s) /\ s \in State /\ Once(s, fired) /\ fired \in [Schedule -> Nat]
      /\ Agrees(s, disk)
  BY DEF Remembered, Inductive, Sound
<1> PICK r \in Rig :
    \/ \E name \in Name : Enroll(r, name)
    \/ \E name \in Opt(Name), farm \in Opt(Farm), sheet \in Opt(Sheet),
          profile \in Opt(Profile), rules \in Rules :
         AssignWorker(r, name, farm, sheet, profile, rules)
    \/ \E gpus \in BOOLEAN : Heartbeat(r, gpus)
    \/ \E v \in Value : FinishSmartTune(r, v)
    \/ DeleteRig(r)
    \/ Resolve(r)
  BY DEF RigSteps
<1>1. r \in Enrolled(s) => s.rigs[r] \in RigValue
  BY <1>0 DEF State, Enrolled, Opt
<1>2. ASSUME disk' = store', fired' = fired, store'.schedules = s.schedules,
             store'.miners = s.miners
      PROVE  /\ Agrees(store', disk')
             /\ Once(store', fired')
             /\ MinersFrom(store', store)
  BY <1>0, <1>2, RememberedSame, AgreesReflexive DEF MinersFrom
<1>3. ASSUME NEW name \in Name, Enroll(r, name)
      PROVE  /\ disk' = store' /\ fired' = fired /\ store'.schedules = s.schedules
             /\ store'.miners = s.miners
  BY <1>0, <1>3 DEF Enroll, Commit, State
<1>4. ASSUME NEW name \in Opt(Name), NEW farm \in Opt(Farm), NEW sheet \in Opt(Sheet),
             NEW profile \in Opt(Profile), NEW rules \in Rules,
             AssignWorker(r, name, farm, sheet, profile, rules)
      PROVE  /\ disk' = store' /\ fired' = fired /\ store'.schedules = s.schedules
             /\ store'.miners = s.miners
  <2> DEFINE v == Assigned(s.rigs[r], name, farm, sheet, profile, rules)
             n == [s EXCEPT !.rigs[r] = v]
  <2>1. v \in RigValue
    BY <1>1, <1>4 DEF AssignWorker, Assigned, RigValue, Opt
  <2>2. /\ disk' = store' /\ fired' = fired
        /\ store' = n \/ store' = Bumped(n, {r})
    BY <1>4 DEF AssignWorker, Commit
  <2> HIDE DEF v
  <2>3. n \in State /\ n.schedules = s.schedules /\ n.miners = s.miners
    BY <1>0, <2>1 DEF State, Opt
  <2> HIDE DEF n
  <2> QED BY <2>2, <2>3, BumpedFields
<1>5. ASSUME NEW gpus \in BOOLEAN, Heartbeat(r, gpus)
      PROVE  /\ Agrees(store', disk')
             /\ Once(store', fired')
             /\ MinersFrom(store', store)
  <2> DEFINE v == [s.rigs[r] EXCEPT !.gpus = gpus]
             n == [s EXCEPT !.rigs[r] = v]
  <2>1. r \in Enrolled(s) /\ s.rigs[r] \in RigValue
    BY <1>1, <1>5 DEF Heartbeat
  <2>2. store' = n /\ fired' = fired /\ (disk' = disk \/ disk' = store')
    BY <1>0, <1>5 DEF Heartbeat, Commit, LeaveUnsaved, State
  <2>3. /\ v.name = s.rigs[r].name /\ v.rules = s.rigs[r].rules
        /\ v.sheet = s.rigs[r].sheet /\ v.profile = s.rigs[r].profile
        /\ v.revision = s.rigs[r].revision /\ v \in RigValue
    BY <2>1 DEF RigValue
  <2>4. v # None
    BY <2>3, NoneAssumption
  <2> HIDE DEF v
  <2>5. /\ n.sheets = s.sheets /\ n.wallets = s.wallets
        /\ n.pools = s.pools /\ n.miners = s.miners /\ n.profiles = s.profiles
        /\ n.schedules = s.schedules /\ n.rigs = [s.rigs EXCEPT ![r] = v]
    BY <1>0 DEF State
  <2> HIDE DEF n
  <2>6. n.rigs[r] = v /\ \A q \in Enrolled(s) : q # r => n.rigs[q] = s.rigs[q]
    BY <1>0, <2>5 DEF State, Enrolled
  <2>7. Enrolled(n) = Enrolled(s)
    BY <1>0, <2>1, <2>4, <2>5 DEF State, Enrolled
  <2>8. ASSUME NEW q \in Enrolled(s)
        PROVE  n.rigs[q].revision = s.rigs[q].revision /\ SameTold(n, s, q)
    BY <2>3, <2>5, <2>6 DEF SameTold
  <2>9. Agrees(n, disk)
    BY <1>0, <2>5, <2>7, <2>8, AgreesStill
  <2> QED BY <1>0, <2>2, <2>5, <2>9, RememberedSame, AgreesReflexive DEF MinersFrom
<1>6. ASSUME NEW v \in Value, FinishSmartTune(r, v)
      PROVE  /\ disk' = store' /\ fired' = fired /\ store'.schedules = s.schedules
             /\ store'.miners = s.miners
  <2> DEFINE n == [s EXCEPT !.profiles[s.rigs[r].profile] = v]
  <2>1. store' = Bumped(n, {r}) /\ disk' = store' /\ fired' = fired
    BY <1>6 DEF FinishSmartTune, Commit
  <2>2. n \in State /\ n.schedules = s.schedules /\ n.miners = s.miners
    BY <1>0 DEF State, Opt
  <2> HIDE DEF n
  <2> QED BY <2>1, <2>2, BumpedFields
<1>7. ASSUME DeleteRig(r)
      PROVE  /\ Agrees(store', disk')
             /\ Once(store', fired')
             /\ MinersFrom(store', store)
  <2>1. store' = WithoutRig(s, r) /\ disk' = store' /\ fired' = fired
    BY <1>7 DEF DeleteRig, Commit
  <2>2. /\ store'.schedules = [c \in Schedule |-> IF s.schedules[c] = None THEN None
                                                  ELSE LeftBy(s.schedules[c], r)]
        /\ store'.miners = s.miners
    BY <1>0, <2>1 DEF State, WithoutRig
  <2>3. ASSUME NEW c \in Schedules(store')
        PROVE  c \in Schedules(s) /\ store'.schedules[c].ran = s.schedules[c].ran
    <3>1. c \in Schedules(s) /\ store'.schedules[c] = LeftBy(s.schedules[c], r)
      BY <2>2 DEF Schedules
    <3>2. s.schedules[c] \in ScheduleValue
      BY <1>0, <3>1 DEF State, Schedules, Opt
    <3> QED BY <3>1, <3>2 DEF LeftBy, ScheduleValue
  <2>4. Once(store', fired')
    BY <1>0, <2>1, <2>3 DEF Once
  <2> QED BY <2>1, <2>2, <2>4, AgreesReflexive DEF MinersFrom
<1>8. ASSUME Resolve(r)
      PROVE  /\ Agrees(store', disk')
             /\ Once(store', fired')
             /\ MinersFrom(store', store)
  <2>1. store' = Rewritten(s, r) /\ fired' = fired /\ disk' = disk /\ r \in Enrolled(s)
    BY <1>8 DEF Resolve, LeaveUnsaved
  <2>2. /\ store'.rigs = s.rigs /\ store'.schedules = s.schedules
        /\ \A q \in Enrolled(s) : SameTold(store', s, q)
    BY <1>0, <2>1, RewrittenTold
  <2>3. Enrolled(store') = Enrolled(s)
    BY <2>2 DEF Enrolled
  <2>4. store'.miners = [m \in Miner |->
           IF m \in Shared(s, r) THEN Settled(s.miners[m]) ELSE s.miners[m]]
    BY <1>0, <2>1 DEF State, Rewritten, Settled
  <2>5. ASSUME NEW m \in Shared(s, r) PROVE s.miners[m] \in MinerValue
    <3>1. PICK h \in Runs(s, r) : m = s.sheets[h].miner
      BY <2>1 DEF Shared, Runs
    <3> QED BY <1>0, <2>1, <3>1, RunsThere
  <2>6. MinersFrom(store', store)
    BY <2>4, <2>5 DEF MinersFrom
  <2> QED BY <1>0, <2>1, <2>2, <2>3, <2>6, AgreesStill, RememberedSame
<1> QED BY <1>2, <1>3, <1>4, <1>5, <1>6, <1>7, <1>8

LEMMA ClockRemembers ==
  ASSUME Remembered, Clock
  PROVE  /\ Agrees(store', disk')
         /\ Once(store', fired')
         /\ MinersFrom(store', store)
<1> DEFINE s == store
<1>0. /\ Sound(s) /\ s \in State /\ Once(s, fired) /\ fired \in [Schedule -> Nat]
      /\ Agrees(s, disk) /\ disk \in State
  BY DEF Remembered, Inductive, Sound
<1>1. CASE NextMinute
  <2>1. store' = MinuteOver(s) /\ disk' = MinuteOver(disk) /\ fired' = [c \in Schedule |-> 0]
    BY <1>1 DEF NextMinute
  <2>2. ASSUME NEW t \in State
        PROVE  LET n == MinuteOver(t)
               IN /\ n.rigs = t.rigs /\ n.sheets = t.sheets /\ n.wallets = t.wallets
                  /\ n.pools = t.pools /\ n.miners = t.miners /\ n.profiles = t.profiles
                  /\ n.schedules = [c \in Schedule |->
                       IF t.schedules[c] = None THEN None
                       ELSE [t.schedules[c] EXCEPT !.ran = FALSE]]
    BY DEF State, MinuteOver
  <2> DEFINE n == MinuteOver(s)
             d == MinuteOver(disk)
  <2>3. /\ n.rigs = s.rigs /\ n.sheets = s.sheets /\ n.wallets = s.wallets
        /\ n.pools = s.pools /\ n.miners = s.miners /\ n.profiles = s.profiles
        /\ d.rigs = disk.rigs /\ d.sheets = disk.sheets /\ d.wallets = disk.wallets
        /\ d.pools = disk.pools /\ d.miners = disk.miners /\ d.profiles = disk.profiles
    BY <1>0, <2>2
  <2>4. n.schedules = d.schedules
    <3>1. s.schedules = disk.schedules
      BY <1>0 DEF Agrees
    <3> DEFINE over(f) == [c \in Schedule |-> IF f[c] = None THEN None
                                             ELSE [f[c] EXCEPT !.ran = FALSE]]
    <3>2. n.schedules = over(s.schedules) /\ d.schedules = over(disk.schedules)
      BY <1>0, <2>2
    <3> HIDE DEF over, n, d
    <3> QED BY <3>1, <3>2
  <2> HIDE DEF n, d
  <2>5. Enrolled(n) = Enrolled(s) /\ Enrolled(d) = Enrolled(disk) /\ Sheets(n) = Sheets(s)
    BY <2>3 DEF Enrolled, Sheets
  <2>6. \A r : Runs(n, r) = Runs(s, r)
    BY <2>3, <2>5 DEF Runs
  <2>7. Agrees(n, d)
    BY <1>0, <2>3, <2>4, <2>5, <2>6 DEF Agrees, SameTold
  <2>8. Once(store', fired')
    BY <2>1 DEF Once, Schedules
  <2>9. MinersFrom(n, s)
    BY <2>3 DEF MinersFrom
  <2> QED BY <2>1, <2>7, <2>8, <2>9 DEF n, d
<1>2. ASSUME NEW D \in SUBSET Schedule, RunSchedules(D)
      PROVE  /\ Agrees(store', disk')
             /\ Once(store', fired')
             /\ MinersFrom(store', store)
  <2>1. PICK last : store' = AfterRun(s, D, last) /\ disk' = store'
    BY <1>2 DEF RunSchedules, Commit
  <2>2. /\ store'.schedules = [c \in Schedule |->
              IF c \in D THEN [s.schedules[c] EXCEPT !.ran = TRUE] ELSE s.schedules[c]]
        /\ store'.miners = s.miners
    BY <1>0, <2>1 DEF State, AfterRun
  <2>3. D \subseteq Due(s) /\ fired' = [c \in Schedule |-> IF c \in D THEN fired[c] + 1 ELSE fired[c]]
    BY <1>2 DEF RunSchedules
  <2>4. ASSUME NEW c \in Schedules(store')
        PROVE  fired'[c] <= 1 /\ (fired'[c] > 0 => store'.schedules[c].ran)
    <3>1. CASE c \in D
      <4>1. c \in Schedules(s) /\ ~s.schedules[c].ran
        BY <2>3, <3>1 DEF Due
      <4>2. fired[c] = 0
        BY <1>0, <4>1 DEF Once, Schedules
      <4>3. fired'[c] = 1
        BY <2>3, <3>1, <4>2
      <4>4. s.schedules[c] \in ScheduleValue
        BY <1>0, <4>1 DEF State, Schedules, Opt
      <4>5. store'.schedules[c].ran
        BY <2>2, <3>1, <4>4 DEF ScheduleValue
      <4> QED BY <4>3, <4>5
    <3>2. CASE c \notin D
      <4>1. store'.schedules[c] = s.schedules[c] /\ fired'[c] = fired[c] /\ c \in Schedules(s)
        BY <2>2, <2>3, <3>2 DEF Schedules
      <4> QED BY <1>0, <4>1 DEF Once
    <3> QED BY <3>1, <3>2
  <2>5. Once(store', fired')
    BY <2>4 DEF Once
  <2> QED BY <2>1, <2>2, <2>5, AgreesReflexive DEF MinersFrom
<1> QED BY <1>1, <1>2 DEF Clock

-----------------------------------------------------------------------------
(* The theorems about versions, restarts and schedules. *)

LEMMA InitRemembered == Init => Remembered
<1> SUFFICES ASSUME Init PROVE Remembered
  OBVIOUS
<1>1. Once(store, fired)
  BY DEF Init, Once, Schedules, Empty
<1> QED BY <1>1, InitInductive, AgreesReflexive DEF Init, Remembered

\* What an operation may leave in the file.
LEMMA DiskStep ==
  ASSUME Inductive, Next
  PROVE  disk' \in {disk, store'} \/ disk'.miners = disk.miners
<1>1. \A n : Commit(n) \/ LeaveUnsaved(n) => disk' \in {disk, store'}
  BY DEF Commit, LeaveUnsaved
<1>2. CASE Saves
  <2>1. \A f : SaveFarm(f) => disk' \in {disk, store'}
    BY <1>1 DEF SaveFarm
  <2>2. \A w, v : SaveWallet(w, v) => disk' \in {disk, store'}
    BY <1>1 DEF SaveWallet
  <2>3. \A p, v : SavePool(p, v) => disk' \in {disk, store'}
    BY <1>1 DEF SavePool
  <2>4. \A m, v : SaveMiner(m, v) => disk' \in {disk, store'}
    BY <1>1 DEF SaveMiner
  <2>5. \A h, v : SaveFlightSheet(h, v) => disk' \in {disk, store'}
    BY <1>1 DEF SaveFlightSheet
  <2>6. \A o, v : SaveOverclockProfile(o, v) => disk' \in {disk, store'}
    BY <1>1 DEF SaveOverclockProfile
  <2>7. \A v : SetGPUPowerPolicy(v) => disk' \in {disk, store'}
    BY <1>1 DEF SetGPUPowerPolicy
  <2>8. \A c, apply, sheet, rigs, enabled :
          SaveSchedule(c, apply, sheet, rigs, enabled) => disk' \in {disk, store'}
    BY <1>1 DEF SaveSchedule
  <2> QED BY <1>2, <2>1, <2>2, <2>3, <2>4, <2>5, <2>6, <2>7, <2>8 DEF Saves
<1>3. CASE QuickSetups
  <2>1. \A h, rigs, addresses, urls, m, mv, user, body :
          SaveQuickFlightSheet(h, rigs, addresses, urls, m, mv, user, body)
            => disk' \in {disk, store'}
    BY <1>1 DEF SaveQuickFlightSheet
  <2>2. \A m, mv : AbandonQuickSetup(m, mv) => disk' \in {disk, store'}
    BY <1>1 DEF AbandonQuickSetup
  <2> QED BY <1>3, <2>1, <2>2 DEF QuickSetups
<1>4. CASE Deletes
  <2>1. \A x : DeleteFarm(x) \/ DeleteWallet(x) \/ DeletePool(x) \/ DeleteMiner(x)
               => disk' \in {disk, store'}
    BY <1>1 DEF DeleteFarm, DeleteWallet, DeletePool, DeleteMiner
  <2>2. \A x : DeleteFlightSheet(x) \/ DeleteOverclockProfile(x) \/ DeleteSchedule(x)
               => disk' \in {disk, store'}
    BY <1>1 DEF DeleteFlightSheet, DeleteOverclockProfile, DeleteSchedule
  <2> QED BY <1>4, <2>1, <2>2 DEF Deletes
<1>5. CASE RigSteps
  <2>1. \A r, name : Enroll(r, name) => disk' \in {disk, store'}
    BY <1>1 DEF Enroll
  <2>2. \A r, name, farm, sheet, profile, rules :
          AssignWorker(r, name, farm, sheet, profile, rules) => disk' \in {disk, store'}
    BY <1>1 DEF AssignWorker
  <2>3. \A r, x : Heartbeat(r, x) \/ FinishSmartTune(r, x) => disk' \in {disk, store'}
    BY <1>1 DEF Heartbeat, FinishSmartTune
  <2>4. \A r : DeleteRig(r) \/ Resolve(r) => disk' \in {disk, store'}
    BY <1>1 DEF DeleteRig, Resolve
  <2> QED BY <1>5, <2>1, <2>2, <2>3, <2>4 DEF RigSteps
<1>6. CASE Clock
  <2>1. disk \in State
    BY DEF Inductive, Sound
  <2>2. NextMinute => disk'.miners = disk.miners
    BY <2>1 DEF NextMinute, MinuteOver, State
  <2>3. \A D : RunSchedules(D) => disk' \in {disk, store'}
    BY <1>1 DEF RunSchedules
  <2> QED BY <1>6, <2>2, <2>3 DEF Clock
<1>7. CASE BackToDisk
  BY <1>7 DEF BackToDisk
<1> QED BY <1>2, <1>3, <1>4, <1>5, <1>6, <1>7 DEF Next

LEMMA RememberedStep ==
  ASSUME Remembered, [Next]_vars
  PROVE  /\ Remembered'
         /\ Follows(store', store)
         /\ MinersFrom(store', store) \/ store' = disk
<1>1. Inductive
  BY DEF Remembered
<1>2. Inductive'
  BY <1>1, InductiveStep
<1>3. CASE BackToDisk
  <2>1. store' = disk /\ disk' = disk /\ fired' = fired
    BY <1>3 DEF BackToDisk
  <2>2. Once(store', fired')
    BY <2>1, RememberedSame DEF Remembered, Agrees
  <2>3. Follows(store', store)
    <3>1. \A r \in Enrolled(store) : store.rigs[r].revision \in Nat
      BY <1>1 DEF Inductive, Sound, State, Enrolled, Opt, RigValue
    <3> QED BY <2>1, <3>1 DEF Remembered, Agrees, Follows
  <2> QED BY <1>2, <2>1, <2>2, <2>3, AgreesReflexive DEF Remembered, MinersFrom
<1>4. CASE UNCHANGED vars
  <2>1. store' = store /\ disk' = disk /\ fired' = fired
    BY <1>4 DEF vars
  <2>2. Follows(store', store)
    BY <1>1, <2>1, FollowsReflexive DEF Inductive
  <2> QED BY <1>2, <2>1, <2>2 DEF Remembered, MinersFrom
<1>5. CASE Saves \/ QuickSetups \/ Deletes \/ RigSteps \/ Clock
  <2>1. Agrees(store', disk') /\ Once(store', fired') /\ MinersFrom(store', store)
    BY <1>5, SavesRemember, QuickSetupsRemember, DeletesRemember, RigStepsRemember,
       ClockRemembers
  <2>2. Follows(store', store)
    BY <1>1, <1>5, SavesFollow, QuickSetupsFollow, DeletesFollow, RigStepsFollow,
       ClockFollows
  <2> QED BY <1>2, <2>1, <2>2 DEF Remembered
<1> QED BY <1>3, <1>4, <1>5 DEF Next

\* The inductive invariant behind the theorems that follow: what an operation
\* leaves unsaved (Heartbeat, DeleteMiner, SaveQuickFlightSheet and
\* ResolvedWorkerConfiguration) is in no configuration and in no schedule.
THEOREM Memory == Spec => []Remembered
<1>1. Remembered /\ [Next]_vars => Remembered'
  BY RememberedStep
<1> QED BY InitRemembered, <1>1, PTL DEF Spec

\* A schedule runs at most once in its minute, whatever is saved, rolled back
\* or restarted in that minute (RunSchedulesAt and its LastRunMinute).
THEOREM RunsOnce == Spec => []ScheduleRunsOnce
<1>1. Remembered => ScheduleRunsOnce
  BY DEF Remembered, Once, ScheduleRunsOnce
<1> QED BY <1>1, Memory, PTL

\* No operation, rollback or restart lowers the revision of a rig's
\* configuration, whatever the controller keeps.
THEOREM RevisionsRise == Spec => RevisionNeverFalls
<1>1. Remembered /\ [Next]_vars =>
        [\A r \in Enrolled(store) \cap Enrolled(store)' :
           store.rigs[r].revision <= store'.rigs[r].revision]_vars
  BY RememberedStep DEF Follows, Enrolled
<1> QED BY <1>1, Memory, PTL DEF Spec, RevisionNeverFalls

\* The state with the logins of all stored arguments resolved.
Cleared(s) ==
  [s EXCEPT !.miners = [m \in Miner |-> IF s.miners[m] = None THEN None
                                                              ELSE Settled(s.miners[m])]]

LEMMA ClearedSound ==
  ASSUME NEW s, Sound(s)
  PROVE  /\ Sound(Cleared(s)) /\ LoginsOff(Cleared(s))
         /\ Enrolled(Cleared(s)) = Enrolled(s)
         /\ \A r \in Enrolled(s) : Runs(Cleared(s), r) = Runs(s, r)
<1> DEFINE n == Cleared(s)
           f == [m \in Miner |-> IF s.miners[m] = None THEN None ELSE Settled(s.miners[m])]
<1>1. ASSUME NEW m \in Miner, s.miners[m] # None
      PROVE  f[m] \in MinerValue /\ f[m].login = FALSE /\ f[m] # None
  <2>1. s.miners[m] \in MinerValue
    BY <1>1 DEF Sound, State, Opt
  <2>2. Settled(s.miners[m]) \in MinerValue /\ Settled(s.miners[m]).login = FALSE
    BY <2>1 DEF Settled, MinerValue
  <2> QED BY <1>1, <2>2, NoneAssumption
<1>2. \A m \in Miner : s.miners[m] = None => f[m] = None
  OBVIOUS
<1>3. f \in [Miner -> Opt(MinerValue)]
  <2>1. \A m \in Miner : f[m] \in Opt(MinerValue)
    BY <1>1, <1>2 DEF Opt
  <2>2. f = [m \in Miner |-> f[m]]
    OBVIOUS
  <2> HIDE DEF f
  <2> QED BY <2>1, <2>2
<1>4. n = [s EXCEPT !.miners = f]
  BY DEF Cleared
<1> HIDE DEF n, f
<1>5. /\ n \in State /\ n.miners = f
      /\ n.wallets = s.wallets /\ n.pools = s.pools
      /\ n.sheets = s.sheets /\ n.profiles = s.profiles /\ n.farms = s.farms
      /\ n.schedules = s.schedules /\ n.rigs = s.rigs
  BY <1>3, <1>4 DEF Sound, State
<1>6. Sheets(n) = Sheets(s) /\ Enrolled(n) = Enrolled(s) /\ Schedules(n) = Schedules(s)
  BY <1>5 DEF Sheets, Enrolled, Schedules
<1>7. SheetsComplete(n)
  <2> SUFFICES ASSUME NEW h \in Sheets(s)
               PROVE  n.miners[s.sheets[h].miner] # None
    BY <1>5, <1>6 DEF Sound, Complete, SheetsComplete
  <2>1. s.sheets[h] \in SheetValue
    BY DEF Sound, State, Sheets, Opt
  <2> QED BY <1>1, <1>5, <2>1 DEF Sound, Complete, SheetsComplete, SheetValue
<1>8. Sound(n)
  BY <1>5, <1>6, <1>7 DEF Sound, Complete, RigsComplete, SchedulesComplete, NamesDistinct
<1>9. LoginsOff(n)
  BY <1>1, <1>2, <1>5 DEF LoginsOff
<1>10. \A r : Runs(n, r) = Runs(s, r)
  BY <1>5, <1>6 DEF Runs
<1> QED BY <1>6, <1>8, <1>9, <1>10 DEF n

LEMMA ClearedTold ==
  ASSUME NEW s, NEW n, Sound(s), Sound(n), NEW r \in Enrolled(s), SameTold(n, s, r)
  PROVE  Resolved(Cleared(n), r) = Resolved(Cleared(s), r)
<1> DEFINE a == Cleared(s)
           b == Cleared(n)
<1>1. /\ Sound(a) /\ LoginsOff(a) /\ r \in Enrolled(a) /\ Runs(a, r) = Runs(s, r)
      /\ Sound(b) /\ LoginsOff(b)
  BY ClearedSound
<1>2. /\ a.rigs = s.rigs /\ a.sheets = s.sheets /\ a.wallets = s.wallets
      /\ a.pools = s.pools /\ a.profiles = s.profiles
      /\ a.miners = [m \in Miner |-> IF s.miners[m] = None THEN None
                                                           ELSE Settled(s.miners[m])]
  BY DEF Sound, State, Cleared
<1>3. /\ b.rigs = n.rigs /\ b.sheets = n.sheets /\ b.wallets = n.wallets
      /\ b.pools = n.pools /\ b.profiles = n.profiles
      /\ b.miners = [m \in Miner |-> IF n.miners[m] = None THEN None
                                                           ELSE Settled(n.miners[m])]
  BY DEF Sound, State, Cleared
<1> HIDE DEF a, b
<1>4. ASSUME NEW h \in Runs(s, r)
      PROVE  b.miners[s.sheets[h].miner] = a.miners[s.sheets[h].miner]
  <2> DEFINE m == s.sheets[h].miner
  <2>1. s.miners[m] # None /\ m \in Miner /\ h \in Sheets(s)
    BY RunsThere, NoneAssumption DEF SheetValue
  <2>2. n.sheets[h] = s.sheets[h] /\ Settled(n.miners[m]) = Settled(s.miners[m])
    BY DEF SameTold
  <2>3. h \in Sheets(n)
    BY <2>1, <2>2 DEF Sheets
  <2>4. n.miners[m] # None
    BY <2>2, <2>3 DEF Sound, Complete, SheetsComplete
  <2> QED BY <1>2, <1>3, <2>1, <2>2, <2>4
<1>5. SameTold(b, a, r)
  <2>1. /\ b.rigs[r].name = a.rigs[r].name /\ b.rigs[r].rules = a.rigs[r].rules
        /\ b.rigs[r].sheet = a.rigs[r].sheet /\ b.rigs[r].profile = a.rigs[r].profile
        /\ a.rigs[r].profile # None =>
             b.profiles[a.rigs[r].profile] = a.profiles[a.rigs[r].profile]
    BY <1>2, <1>3 DEF SameTold
  <2>2. ASSUME NEW h \in Runs(s, r)
        PROVE  /\ b.sheets[h] = a.sheets[h]
               /\ \A w \in a.sheets[h].wallets : b.wallets[w] = a.wallets[w]
               /\ \A p \in a.sheets[h].pools : b.pools[p] = a.pools[p]
    BY <1>2, <1>3 DEF SameTold
  <2>3. \A h \in Runs(s, r) : b.miners[a.sheets[h].miner] = a.miners[a.sheets[h].miner]
    <3>1. a.sheets = s.sheets
      BY <1>2
    <3> QED BY <1>4, <3>1
  <2> QED BY <1>1, <2>1, <2>2, <2>3 DEF SameTold
<1>6. b \in State /\ Complete(b)
  BY <1>1 DEF Sound
<1> QED BY <1>1, <1>5, <1>6, ResolvedSame DEF LoginsOff, a, b

\* Logins apart, which resolving a sheet for any rig rewrites, whatever an
\* agent is told changes only together with its revision or the rig's name
\* (bumpWorkersForResourceLocked and the increments of resources.go).
THEOREM VersionsTellButLogins ==
  Spec => [][\A r \in Enrolled(store) \cap Enrolled(store') :
               Resolved(Cleared(store'), r) # Resolved(Cleared(store), r) =>
                 \/ store.rigs[r].revision < store'.rigs[r].revision
                 \/ store'.rigs[r].name # store.rigs[r].name]_vars
<1>1. ASSUME Remembered, Remembered', [Next]_vars
      PROVE  [\A r \in Enrolled(store) \cap Enrolled(store') :
                Resolved(Cleared(store'), r) # Resolved(Cleared(store), r) =>
                  \/ store.rigs[r].revision < store'.rigs[r].revision
                  \/ store'.rigs[r].name # store.rigs[r].name]_vars
  <2> SUFFICES ASSUME NEW r \in Enrolled(store) \cap Enrolled(store'),
                      Resolved(Cleared(store'), r) # Resolved(Cleared(store), r)
               PROVE  \/ store.rigs[r].revision < store'.rigs[r].revision
                      \/ store'.rigs[r].name # store.rigs[r].name
    OBVIOUS
  <2>1. Sound(store) /\ Sound(store')
    BY <1>1 DEF Remembered, Inductive
  <2>2. Follows(store', store)
    BY <1>1, RememberedStep
  <2>3. ~SameTold(store', store, r)
    BY <2>1, ClearedTold
  <2> QED BY <2>2, <2>3 DEF Follows
<1> QED BY <1>1, Memory, PTL DEF Spec

\* The farm's miners hold no {WALLET}.{WORKER} in their stored arguments: with
\* one, resolving a sheet changes what other rigs are told.
NoLogins == \A v \in MinerInput : v.login = FALSE

LEMMA LoginsStayOff ==
  ASSUME NoLogins, Remembered, LoginsOff(store), LoginsOff(disk), [Next]_vars
  PROVE  LoginsOff(store') /\ LoginsOff(disk')
<1>1. \A v \in MinerValue : Settled(v).login = FALSE
  BY DEF Settled, MinerValue
<1>2. LoginsOff(store')
  BY <1>1, RememberedStep DEF LoginsOff, MinersFrom, NoLogins
<1>3. LoginsOff(disk')
  BY <1>2, DiskStep DEF LoginsOff, Remembered, vars
<1> QED BY <1>2, <1>3

Unlogged == Remembered /\ LoginsOff(store) /\ LoginsOff(disk)

LEMMA UnloggedInvariance == NoLogins => (Spec => []Unlogged)
<1> SUFFICES ASSUME NoLogins PROVE Spec => []Unlogged
  OBVIOUS
<1>1. Init => Unlogged
  BY InitRemembered DEF Init, Empty, Unlogged, LoginsOff
<1>2. Unlogged /\ [Next]_vars => Unlogged'
  BY LoginsStayOff, RememberedStep DEF Unlogged
<1> QED BY <1>1, <1>2, PTL DEF Spec

LEMMA UnloggedResolved ==
  ASSUME Unlogged, Unlogged', NEW r \in Enrolled(store), SameTold(store', store, r)
  PROVE  Resolved(store', r) = Resolved(store, r)
<1>1. Sound(store) /\ store' \in State /\ Complete(store')
  BY DEF Unlogged, Remembered, Inductive, Sound
<1>2. /\ \A m \in Miner : store.miners[m] # None => store.miners[m].login = FALSE
      /\ \A m \in Miner : store'.miners[m] # None => store'.miners[m].login = FALSE
  BY DEF Unlogged, LoginsOff
<1> QED BY <1>1, <1>2, ResolvedSame

\* Whatever an agent is told, a new name apart, changes only together with the
\* revision by which the agent notices (bumpWorkersForResourceLocked and the
\* increments of resources.go), on a farm whose miners hold no logins.
THEOREM VersionsTell == NoLogins => (Spec => ConfigurationVersioned)
<1> SUFFICES ASSUME NoLogins PROVE Spec => ConfigurationVersioned
  OBVIOUS
<1>1. ASSUME Unlogged, Unlogged', [Next]_vars
      PROVE  [\A r \in Enrolled(store) \cap Enrolled(store)' :
                Resolved(store, r)' # Resolved(store, r) =>
                  \/ store.rigs[r].revision < store'.rigs[r].revision
                  \/ store'.rigs[r].name # store.rigs[r].name]_vars
  <2>1. Follows(store', store)
    BY <1>1, RememberedStep DEF Unlogged
  <2> SUFFICES ASSUME NEW r \in Enrolled(store) \cap Enrolled(store'),
                      Resolved(store', r) # Resolved(store, r)
               PROVE  \/ store.rigs[r].revision < store'.rigs[r].revision
                      \/ store'.rigs[r].name # store.rigs[r].name
    OBVIOUS
  <2>2. ~SameTold(store', store, r)
    BY <1>1, UnloggedResolved
  <2> QED BY <2>1, <2>2 DEF Follows
<1>2. Spec => []Unlogged
  BY UnloggedInvariance
<1> QED BY <1>1, <1>2, PTL DEF Spec, ConfigurationVersioned

\* After a restart every rig is told the same under the same revision: nothing
\* that an early return leaves unsaved belongs to a configuration.
THEOREM RestartTells == NoLogins => (Spec => []RestartTellsTheSame)
<1> SUFFICES ASSUME NoLogins PROVE Spec => []RestartTellsTheSame
  OBVIOUS
<1>1. ASSUME Unlogged PROVE RestartTellsTheSame
  <2>1. /\ Sound(store) /\ disk \in State /\ Complete(disk) /\ Agrees(store, disk)
    BY <1>1 DEF Unlogged, Remembered, Inductive, Sound
  <2>2. /\ \A m \in Miner : store.miners[m] # None => store.miners[m].login = FALSE
        /\ \A m \in Miner : disk.miners[m] # None => disk.miners[m].login = FALSE
    BY <1>1 DEF Unlogged, LoginsOff
  <2>3. \A r \in Enrolled(store) : Resolved(disk, r) = Resolved(store, r)
    BY <2>1, <2>2, ResolvedSame DEF Agrees
  <2> QED BY <2>1, <2>3 DEF RestartTellsTheSame, Agrees
<1> QED BY <1>1, UnloggedInvariance, PTL
====
