------------------------- MODULE ConfigStoreProofs -------------------------
(***************************************************************************)
(* What holds of ConfigStore for all numbers of entries and rigs, in       *)
(* memory and in the state file: every entry keeps to its type, every      *)
(* reference leads to an entry, and worker names are unique.               *)
(***************************************************************************)
EXTENDS ConfigStore, FiniteSetTheorems, TLAPS

\* What every operation keeps of a state it works on.
Sound(s) == s \in State /\ Complete(s) /\ NamesDistinct(s)

Inductive == /\ Sound(store) /\ Sound(disk)
             /\ fired \in [Schedule -> Nat]

LEMMA RigsChanged ==
  ASSUME NEW s \in State, NEW f \in [Rig -> Opt(RigValue)]
  PROVE  LET n == [s EXCEPT !.rigs = f]
         IN /\ n \in State
            /\ n.rigs = f
            /\ n.wallets = s.wallets /\ n.pools = s.pools /\ n.miners = s.miners
            /\ n.sheets = s.sheets /\ n.profiles = s.profiles /\ n.farms = s.farms
            /\ n.schedules = s.schedules /\ n.policy = s.policy
BY DEF State

LEMMA BumpedRigs ==
  ASSUME NEW s \in State, NEW R, R \subseteq Enrolled(s)
  PROVE  [r \in Rig |-> IF r \in R
                          THEN [s.rigs[r] EXCEPT !.revision = @ + 1]
                          ELSE s.rigs[r]] \in [Rig -> Opt(RigValue)]
<1>1. s.rigs \in [Rig -> Opt(RigValue)]
  BY DEF State
<1>2. ASSUME NEW r \in R
      PROVE  [s.rigs[r] EXCEPT !.revision = @ + 1] \in RigValue
  BY <1>1 DEF Enrolled, Opt, RigValue
<1> QED BY <1>1, <1>2 DEF Opt

\* Bumping the revision of enrolled rigs disturbs nothing.
LEMMA BumpedSound ==
  ASSUME NEW s, Sound(s), NEW R, R \subseteq Enrolled(s)
  PROVE  Sound(Bumped(s, R))
<1> DEFINE n == Bumped(s, R)
<1>0. s \in State BY DEF Sound
<1>1. /\ n \in State
      /\ n.rigs = [r \in Rig |-> IF r \in R
                          THEN [s.rigs[r] EXCEPT !.revision = @ + 1]
                          ELSE s.rigs[r]]
      /\ n.wallets = s.wallets /\ n.pools = s.pools /\ n.miners = s.miners
            /\ n.sheets = s.sheets /\ n.profiles = s.profiles /\ n.farms = s.farms
            /\ n.schedules = s.schedules /\ n.policy = s.policy
  BY <1>0, BumpedRigs, RigsChanged, ZenonT(60) DEF Bumped
<1>2. ASSUME NEW r \in Rig
      PROVE  /\ n.rigs[r] = None <=> s.rigs[r] = None
             /\ s.rigs[r] # None => /\ n.rigs[r].name = s.rigs[r].name
                                    /\ n.rigs[r].farm = s.rigs[r].farm
                                    /\ n.rigs[r].sheet = s.rigs[r].sheet
                                    /\ n.rigs[r].profile = s.rigs[r].profile
  <2>1. s.rigs[r] \in Opt(RigValue) /\ n.rigs[r] \in Opt(RigValue)
    BY <1>0, <1>1 DEF State
  <2>2. CASE r \in R
    <3>1. s.rigs[r] \in RigValue /\ s.rigs[r] # None
       BY <2>1, <2>2 DEF Opt, Enrolled
    <3>2. n.rigs[r] = [s.rigs[r] EXCEPT !.revision = @ + 1]
       BY <1>1, <2>2
    <3>3. n.rigs[r] \in RigValue
       BY <3>1, <3>2 DEF RigValue
    <3> QED BY <3>1, <3>2, <3>3, NoneAssumption DEF RigValue
  <2>3. CASE r \notin R
    BY <1>1, <2>3
  <2> QED BY <2>2, <2>3
<1>3. Enrolled(n) = Enrolled(s) /\ Sheets(n) = Sheets(s) /\ Schedules(n) = Schedules(s)
  BY <1>1, <1>2 DEF Enrolled, Sheets, Schedules
<1>4. Complete(n)
  BY <1>1, <1>2, <1>3 DEF Sound, Complete, SheetsComplete, RigsComplete, SchedulesComplete, Enrolled
<1>5. NamesDistinct(n)
  BY <1>2, <1>3 DEF Sound, NamesDistinct, Enrolled
<1> QED BY <1>1, <1>4, <1>5 DEF Sound

-----------------------------------------------------------------------------
(* Saving and deleting the entries others refer to: one lemma for each field. *)

\* The facts about a state that the references depend on.
SameRefs(n, s) ==
  /\ n.wallets = s.wallets /\ n.pools = s.pools /\ n.miners = s.miners
  /\ n.sheets = s.sheets /\ n.profiles = s.profiles /\ n.farms = s.farms
  /\ n.schedules = s.schedules /\ n.rigs = s.rigs

LEMMA FarmSavedSound ==
  ASSUME NEW s, Sound(s), NEW f \in Farm
  PROVE  Sound([s EXCEPT !.farms = @ \cup {f}])
<1> DEFINE n == [s EXCEPT !.farms = @ \cup {f}]
<1>1. /\ n \in State /\ n.farms = s.farms \cup {f}
      /\ n.wallets = s.wallets /\ n.pools = s.pools /\ n.miners = s.miners
      /\ n.sheets = s.sheets /\ n.profiles = s.profiles
      /\ n.schedules = s.schedules /\ n.rigs = s.rigs
  BY DEF Sound, State
<1> QED
  BY <1>1 DEF Sound, Complete, SheetsComplete, RigsComplete, SchedulesComplete,
              NamesDistinct, Sheets, Enrolled, Schedules

LEMMA FarmDroppedSound ==
  ASSUME NEW s, Sound(s), NEW f \in Farm,
         \A r \in Enrolled(s) : s.rigs[r].farm # f
  PROVE  Sound([s EXCEPT !.farms = @ \ {f}])
<1> DEFINE n == [s EXCEPT !.farms = @ \ {f}]
<1>1. /\ n \in State /\ n.farms = s.farms \ {f}
      /\ n.wallets = s.wallets /\ n.pools = s.pools /\ n.miners = s.miners
      /\ n.sheets = s.sheets /\ n.profiles = s.profiles
      /\ n.schedules = s.schedules /\ n.rigs = s.rigs
  BY DEF Sound, State
<1> QED
  BY <1>1 DEF Sound, Complete, SheetsComplete, RigsComplete, SchedulesComplete,
              NamesDistinct, Sheets, Enrolled, Schedules

LEMMA WalletSound ==
  ASSUME NEW s, Sound(s), NEW w \in Wallet, NEW v \in Opt(Value),
         v = None => UsingWallet(s, w) = {}
  PROVE  Sound([s EXCEPT !.wallets[w] = v])
<1> DEFINE n == [s EXCEPT !.wallets[w] = v]
<1>1. /\ n \in State /\ n.wallets = [s.wallets EXCEPT ![w] = v]
      /\ n.pools = s.pools /\ n.miners = s.miners
      /\ n.sheets = s.sheets /\ n.profiles = s.profiles /\ n.farms = s.farms
      /\ n.schedules = s.schedules /\ n.rigs = s.rigs
  BY DEF Sound, State
<1>2. Sheets(n) = Sheets(s) /\ Enrolled(n) = Enrolled(s) /\ Schedules(n) = Schedules(s)
  BY <1>1 DEF Sheets, Enrolled, Schedules
<1>3. SheetsComplete(n)
  <2> SUFFICES ASSUME NEW h \in Sheets(s)
               PROVE  \A x \in s.sheets[h].wallets : n.wallets[x] # None
    BY <1>1, <1>2 DEF Sound, Complete, SheetsComplete
  <2>1. s.sheets[h] \in SheetValue
    BY DEF Sound, State, Sheets, Opt
  <2> QED BY <1>1, <2>1 DEF Sound, State, Complete, SheetsComplete, UsingWallet, SheetValue
<1> QED
  BY <1>1, <1>2, <1>3 DEF Sound, Complete, RigsComplete, SchedulesComplete, NamesDistinct

LEMMA PoolSound ==
  ASSUME NEW s, Sound(s), NEW p \in Pool, NEW v \in Opt(Value),
         v = None => UsingPool(s, p) = {}
  PROVE  Sound([s EXCEPT !.pools[p] = v])
<1> DEFINE n == [s EXCEPT !.pools[p] = v]
<1>1. /\ n \in State /\ n.pools = [s.pools EXCEPT ![p] = v]
      /\ n.wallets = s.wallets /\ n.miners = s.miners
      /\ n.sheets = s.sheets /\ n.profiles = s.profiles /\ n.farms = s.farms
      /\ n.schedules = s.schedules /\ n.rigs = s.rigs
  BY DEF Sound, State
<1>2. Sheets(n) = Sheets(s) /\ Enrolled(n) = Enrolled(s) /\ Schedules(n) = Schedules(s)
  BY <1>1 DEF Sheets, Enrolled, Schedules
<1>3. SheetsComplete(n)
  <2> SUFFICES ASSUME NEW h \in Sheets(s)
               PROVE  \A x \in s.sheets[h].pools : n.pools[x] # None
    BY <1>1, <1>2 DEF Sound, Complete, SheetsComplete
  <2>1. s.sheets[h] \in SheetValue
    BY DEF Sound, State, Sheets, Opt
  <2> QED BY <1>1, <2>1 DEF Sound, State, Complete, SheetsComplete, UsingPool, SheetValue
<1> QED
  BY <1>1, <1>2, <1>3 DEF Sound, Complete, RigsComplete, SchedulesComplete, NamesDistinct

LEMMA MinerSound ==
  ASSUME NEW s, Sound(s), NEW m \in Miner, NEW v \in Opt(MinerValue),
         v = None => UsingMiner(s, m) = {}
  PROVE  Sound([s EXCEPT !.miners[m] = v])
<1> DEFINE n == [s EXCEPT !.miners[m] = v]
<1>1. /\ n \in State /\ n.miners = [s.miners EXCEPT ![m] = v]
      /\ n.wallets = s.wallets /\ n.pools = s.pools
      /\ n.sheets = s.sheets /\ n.profiles = s.profiles /\ n.farms = s.farms
      /\ n.schedules = s.schedules /\ n.rigs = s.rigs
  BY DEF Sound, State
<1>2. Sheets(n) = Sheets(s) /\ Enrolled(n) = Enrolled(s) /\ Schedules(n) = Schedules(s)
  BY <1>1 DEF Sheets, Enrolled, Schedules
<1>3. SheetsComplete(n)
  <2> SUFFICES ASSUME NEW h \in Sheets(s)
               PROVE  n.miners[s.sheets[h].miner] # None
    BY <1>1, <1>2 DEF Sound, Complete, SheetsComplete
  <2>1. s.sheets[h] \in SheetValue
    BY DEF Sound, State, Sheets, Opt
  <2> QED BY <1>1, <2>1 DEF Sound, State, Complete, SheetsComplete, UsingMiner, SheetValue
<1> QED
  BY <1>1, <1>2, <1>3 DEF Sound, Complete, RigsComplete, SchedulesComplete, NamesDistinct

LEMMA ProfileSound ==
  ASSUME NEW s, Sound(s), NEW o \in Profile, NEW v \in Opt(Value),
         v = None => HavingProfile(s, o) = {}
  PROVE  Sound([s EXCEPT !.profiles[o] = v])
<1> DEFINE n == [s EXCEPT !.profiles[o] = v]
<1>1. /\ n \in State /\ n.profiles = [s.profiles EXCEPT ![o] = v]
      /\ n.wallets = s.wallets /\ n.pools = s.pools /\ n.miners = s.miners
      /\ n.sheets = s.sheets /\ n.farms = s.farms
      /\ n.schedules = s.schedules /\ n.rigs = s.rigs
  BY DEF Sound, State
<1>2. Sheets(n) = Sheets(s) /\ Enrolled(n) = Enrolled(s) /\ Schedules(n) = Schedules(s)
  BY <1>1 DEF Sheets, Enrolled, Schedules
<1>3. RigsComplete(n)
  <2> SUFFICES ASSUME NEW r \in Enrolled(s), s.rigs[r].profile # None
               PROVE  n.profiles[s.rigs[r].profile] # None
    BY <1>1, <1>2 DEF Sound, Complete, RigsComplete
  <2>1. s.rigs[r] \in RigValue
    BY DEF Sound, State, Enrolled, Opt
  <2> QED BY <1>1, <2>1 DEF Sound, State, Complete, RigsComplete, HavingProfile, RigValue, Opt
<1> QED
  BY <1>1, <1>2, <1>3 DEF Sound, Complete, SheetsComplete, SchedulesComplete, NamesDistinct

LEMMA PolicySound ==
  ASSUME NEW s, Sound(s), NEW v \in Limit
  PROVE  Sound([s EXCEPT !.policy = v])
<1> DEFINE n == [s EXCEPT !.policy = v]
<1>1. /\ n \in State /\ SameRefs(n, s)
  BY DEF Sound, State, SameRefs
<1> QED
  BY <1>1 DEF Sound, Complete, SheetsComplete, RigsComplete, SchedulesComplete,
              NamesDistinct, Sheets, Enrolled, Schedules, SameRefs

LEMMA SheetSavedSound ==
  ASSUME NEW s, Sound(s), NEW h \in Sheet, NEW v \in SheetValue,
         \A w \in v.wallets : s.wallets[w] # None,
         \A p \in v.pools : s.pools[p] # None,
         s.miners[v.miner] # None,
         v.fallback # None => v.fallback \in Sheets(s) \ {h}
  PROVE  Sound([s EXCEPT !.sheets[h] = v])
<1> DEFINE n == [s EXCEPT !.sheets[h] = v]
<1>1. /\ n \in State /\ n.sheets = [s.sheets EXCEPT ![h] = v]
      /\ n.wallets = s.wallets /\ n.pools = s.pools /\ n.miners = s.miners
      /\ n.profiles = s.profiles /\ n.farms = s.farms
      /\ n.schedules = s.schedules /\ n.rigs = s.rigs
  BY DEF Sound, State, Opt
<1>2. /\ Sheets(n) = Sheets(s) \cup {h}
      /\ Enrolled(n) = Enrolled(s) /\ Schedules(n) = Schedules(s)
  BY <1>1, NoneAssumption DEF Sound, State, Sheets, Enrolled, Schedules
<1>3. SheetsComplete(n)
  <2> SUFFICES ASSUME NEW g \in Sheets(n)
               PROVE /\ \A w \in n.sheets[g].wallets : n.wallets[w] # None
                     /\ \A p \in n.sheets[g].pools : n.pools[p] # None
                     /\ n.miners[n.sheets[g].miner] # None
                     /\ n.sheets[g].fallback # None => n.sheets[g].fallback \in Sheets(n) \ {g}
    BY DEF SheetsComplete
  <2>1. CASE g = h
    BY <1>1, <1>2, <2>1 DEF Sound, State
  <2>2. CASE g # h
    <3>1. n.sheets[g] = s.sheets[g] /\ g \in Sheets(s)
      BY <1>1, <1>2, <2>2 DEF Sound, State, Sheets
    <3> QED BY <1>1, <1>2, <3>1 DEF Sound, Complete, SheetsComplete
  <2> QED BY <2>1, <2>2
<1> QED
  BY <1>1, <1>2, <1>3 DEF Sound, Complete, RigsComplete, SchedulesComplete, NamesDistinct

LEMMA SheetDroppedSound ==
  ASSUME NEW s, Sound(s), NEW h \in Sheet, SheetUnused(s, h)
  PROVE  Sound([s EXCEPT !.sheets[h] = None])
<1> DEFINE n == [s EXCEPT !.sheets[h] = None]
<1>1. /\ n \in State /\ n.sheets = [s.sheets EXCEPT ![h] = None]
      /\ n.wallets = s.wallets /\ n.pools = s.pools /\ n.miners = s.miners
      /\ n.profiles = s.profiles /\ n.farms = s.farms
      /\ n.schedules = s.schedules /\ n.rigs = s.rigs
  BY DEF Sound, State, Opt
<1>2. /\ Sheets(n) = Sheets(s) \ {h}
      /\ Enrolled(n) = Enrolled(s) /\ Schedules(n) = Schedules(s)
      /\ \A g \in Sheets(n) : n.sheets[g] = s.sheets[g]
  BY <1>1 DEF Sound, State, Sheets, Enrolled, Schedules
<1> QED
  BY <1>1, <1>2 DEF Sound, Complete, SheetsComplete, RigsComplete, SchedulesComplete,
                    NamesDistinct, SheetUnused

LEMMA ScheduleSavedSound ==
  ASSUME NEW s, Sound(s), NEW c \in Schedule, NEW v \in ScheduleValue,
         v.rigs \subseteq Enrolled(s),
         v.sheet # None => v.sheet \in Sheets(s),
         v.apply => v.sheet # None
  PROVE  Sound([s EXCEPT !.schedules[c] = v])
<1> DEFINE n == [s EXCEPT !.schedules[c] = v]
<1>1. /\ n \in State /\ n.schedules = [s.schedules EXCEPT ![c] = v]
      /\ n.wallets = s.wallets /\ n.pools = s.pools /\ n.miners = s.miners
      /\ n.sheets = s.sheets /\ n.profiles = s.profiles /\ n.farms = s.farms
      /\ n.rigs = s.rigs
  BY DEF Sound, State, Opt
<1>2. Sheets(n) = Sheets(s) /\ Enrolled(n) = Enrolled(s)
  BY <1>1 DEF Sheets, Enrolled
<1>3. SchedulesComplete(n)
  BY <1>1, <1>2 DEF Sound, State, Complete, SchedulesComplete, Schedules
<1> QED
  BY <1>1, <1>2, <1>3 DEF Sound, Complete, RigsComplete, SheetsComplete, NamesDistinct

LEMMA ScheduleDroppedSound ==
  ASSUME NEW s, Sound(s), NEW c \in Schedule
  PROVE  Sound([s EXCEPT !.schedules[c] = None])
<1> DEFINE n == [s EXCEPT !.schedules[c] = None]
<1>1. /\ n \in State /\ n.schedules = [s.schedules EXCEPT ![c] = None]
      /\ n.wallets = s.wallets /\ n.pools = s.pools /\ n.miners = s.miners
      /\ n.sheets = s.sheets /\ n.profiles = s.profiles /\ n.farms = s.farms
      /\ n.rigs = s.rigs
  BY DEF Sound, State, Opt
<1>2. Sheets(n) = Sheets(s) /\ Enrolled(n) = Enrolled(s)
  BY <1>1 DEF Sheets, Enrolled
<1>3. SchedulesComplete(n)
  BY <1>1, <1>2 DEF Sound, State, Complete, SchedulesComplete, Schedules
<1> QED
  BY <1>1, <1>2, <1>3 DEF Sound, Complete, RigsComplete, SheetsComplete, NamesDistinct

\* A rig enrolled or given another desired state.
LEMMA RigSavedSound ==
  ASSUME NEW s, Sound(s), NEW r \in Rig, NEW v \in RigValue,
         v.farm # None => v.farm \in s.farms,
         v.sheet # None => v.sheet \in Sheets(s),
         v.profile # None => s.profiles[v.profile] # None,
         \A q \in Enrolled(s) \ {r} : s.rigs[q].name # v.name
  PROVE  /\ Sound([s EXCEPT !.rigs[r] = v])
         /\ r \in Enrolled([s EXCEPT !.rigs[r] = v])
<1> DEFINE n == [s EXCEPT !.rigs[r] = v]
<1>1. /\ n \in State /\ n.rigs = [s.rigs EXCEPT ![r] = v]
      /\ n.wallets = s.wallets /\ n.pools = s.pools /\ n.miners = s.miners
      /\ n.sheets = s.sheets /\ n.profiles = s.profiles /\ n.farms = s.farms
      /\ n.schedules = s.schedules
  BY DEF Sound, State, Opt
<1>2. Sheets(n) = Sheets(s) /\ Schedules(n) = Schedules(s)
  BY <1>1 DEF Sheets, Schedules
<1>3. /\ Enrolled(n) = Enrolled(s) \cup {r}
      /\ n.rigs[r] = v
      /\ \A q \in Enrolled(n) \ {r} : n.rigs[q] = s.rigs[q]
  BY <1>1, NoneAssumption DEF Sound, State, Enrolled
<1>4. RigsComplete(n)
  BY <1>1, <1>2, <1>3 DEF Sound, Complete, RigsComplete
<1>5. NamesDistinct(n)
  BY <1>3 DEF Sound, NamesDistinct
<1> QED
  BY <1>1, <1>2, <1>3, <1>4, <1>5 DEF Sound, Complete, SheetsComplete, SchedulesComplete

LEMMA RigDroppedSound ==
  ASSUME NEW s, Sound(s), NEW r \in Rig
  PROVE  Sound(WithoutRig(s, r))
<1> DEFINE n == WithoutRig(s, r)
           drop(c) == LeftBy(s.schedules[c], r)
<1>1. /\ n.rigs = [s.rigs EXCEPT ![r] = None]
      /\ n.schedules = [c \in Schedule |-> IF s.schedules[c] = None THEN None ELSE drop(c)]
      /\ n.wallets = s.wallets /\ n.pools = s.pools /\ n.miners = s.miners
      /\ n.sheets = s.sheets /\ n.profiles = s.profiles /\ n.farms = s.farms
      /\ n.policy = s.policy
  BY DEF Sound, State, WithoutRig
<1>2. ASSUME NEW c \in Schedules(s)
      PROVE  /\ drop(c) \in ScheduleValue
             /\ drop(c).rigs = s.schedules[c].rigs \ {r}
             /\ drop(c).sheet = s.schedules[c].sheet
             /\ drop(c).apply = s.schedules[c].apply
  <2>1. s.schedules[c] \in ScheduleValue
    BY DEF Sound, State, Schedules, Opt
  <2> QED BY <2>1 DEF ScheduleValue, LeftBy, EnabledFor
<1>3. n.schedules \in [Schedule -> Opt(ScheduleValue)]
  BY <1>1, <1>2 DEF Schedules, Opt
<1>4. n.rigs \in [Rig -> Opt(RigValue)]
  BY <1>1 DEF Sound, State, Opt
<1>5. n \in State
  <2> DEFINE f == n.schedules
             g == n.rigs
  <2>1. n = [s EXCEPT !.rigs = g, !.schedules = f]
    BY <1>1 DEF WithoutRig
  <2>2. f \in [Schedule -> Opt(ScheduleValue)] /\ g \in [Rig -> Opt(RigValue)]
    BY <1>3, <1>4
  <2> HIDE DEF f, g, n
  <2> QED BY <2>1, <2>2 DEF Sound, State
<1>6. /\ Sheets(n) = Sheets(s) /\ Enrolled(n) = Enrolled(s) \ {r}
      /\ Schedules(n) = Schedules(s)
      /\ \A q \in Enrolled(n) : n.rigs[q] = s.rigs[q]
  <2>1. Sheets(n) = Sheets(s)
    BY <1>1 DEF Sheets
  <2>2. Enrolled(n) = Enrolled(s) \ {r} /\ \A q \in Enrolled(n) : n.rigs[q] = s.rigs[q]
    BY <1>1 DEF Sound, State, Enrolled
  <2>3. Schedules(n) = Schedules(s)
    <3>1. \A v \in ScheduleValue : v # None
      BY NoneAssumption
    <3>2. \A c \in Schedules(s) : n.schedules[c] # None
      <4>1. \A c \in Schedules(s) : n.schedules[c] = drop(c)
        BY <1>1 DEF Schedules
      <4> QED BY <1>2, <3>1, <4>1
    <3>3. \A c \in Schedule \ Schedules(s) : n.schedules[c] = None
      BY <1>1 DEF Schedules
    <3> HIDE DEF n
    <3> QED BY <3>2, <3>3 DEF Schedules
  <2> QED BY <2>1, <2>2, <2>3
<1>7. SchedulesComplete(n)
  <2> SUFFICES ASSUME NEW c \in Schedules(s)
               PROVE /\ n.schedules[c].rigs \subseteq Enrolled(n)
                     /\ n.schedules[c].sheet # None => n.schedules[c].sheet \in Sheets(n)
                     /\ n.schedules[c].apply => n.schedules[c].sheet # None
    BY <1>6 DEF SchedulesComplete
  <2>1. n.schedules[c] = drop(c)
    BY <1>1 DEF Schedules
  <2> QED BY <1>2, <1>6, <2>1 DEF Sound, Complete, SchedulesComplete
<1>8. SheetsComplete(n)
  BY <1>1, <1>6 DEF Sound, Complete, SheetsComplete
<1>9. RigsComplete(n) /\ NamesDistinct(n)
  BY <1>1, <1>6 DEF Sound, Complete, RigsComplete, NamesDistinct
<1> QED
  BY <1>5, <1>7, <1>8, <1>9 DEF Sound, Complete

LEMMA MinuteOverSound ==
  ASSUME NEW s, Sound(s)
  PROVE  Sound(MinuteOver(s))
<1> DEFINE n == MinuteOver(s)
           reset(c) == [s.schedules[c] EXCEPT !.ran = FALSE]
<1>1. /\ n.schedules = [c \in Schedule |-> IF s.schedules[c] = None THEN None ELSE reset(c)]
      /\ n.wallets = s.wallets /\ n.pools = s.pools /\ n.miners = s.miners
      /\ n.sheets = s.sheets /\ n.profiles = s.profiles /\ n.farms = s.farms
      /\ n.rigs = s.rigs /\ n.policy = s.policy
      /\ n = [s EXCEPT !.schedules = n.schedules]
  BY DEF Sound, State, MinuteOver
<1>2. ASSUME NEW c \in Schedules(s)
      PROVE  /\ reset(c) \in ScheduleValue
             /\ reset(c).rigs = s.schedules[c].rigs
             /\ reset(c).sheet = s.schedules[c].sheet
             /\ reset(c).apply = s.schedules[c].apply
  <2>1. s.schedules[c] \in ScheduleValue
    BY DEF Sound, State, Schedules, Opt
  <2> QED BY <2>1 DEF ScheduleValue
<1>3. n.schedules \in [Schedule -> Opt(ScheduleValue)]
  BY <1>1, <1>2 DEF Schedules, Opt
<1>4. n \in State
  BY <1>1, <1>3 DEF Sound, State
<1>5. Sheets(n) = Sheets(s) /\ Enrolled(n) = Enrolled(s) /\ Schedules(n) = Schedules(s)
  <2>1. Sheets(n) = Sheets(s) /\ Enrolled(n) = Enrolled(s)
    BY <1>1 DEF Sheets, Enrolled
  <2>2. Schedules(n) = Schedules(s)
    <3>1. \A v \in ScheduleValue : v # None
      BY NoneAssumption
    <3>2. \A c \in Schedules(s) : n.schedules[c] # None
      <4>1. \A c \in Schedules(s) : n.schedules[c] = reset(c)
        BY <1>1 DEF Schedules
      <4> QED BY <1>2, <3>1, <4>1
    <3>3. \A c \in Schedule \ Schedules(s) : n.schedules[c] = None
      BY <1>1 DEF Schedules
    <3> HIDE DEF n
    <3> QED BY <3>2, <3>3 DEF Schedules
  <2> QED BY <2>1, <2>2
<1>6. SchedulesComplete(n)
  <2> SUFFICES ASSUME NEW c \in Schedules(s)
               PROVE /\ n.schedules[c].rigs \subseteq Enrolled(n)
                     /\ n.schedules[c].sheet # None => n.schedules[c].sheet \in Sheets(n)
                     /\ n.schedules[c].apply => n.schedules[c].sheet # None
    BY <1>5 DEF SchedulesComplete
  <2>1. n.schedules[c] = reset(c)
    BY <1>1 DEF Schedules
  <2> QED BY <1>2, <1>5, <2>1 DEF Sound, Complete, SchedulesComplete
<1>7. SheetsComplete(n)
  BY <1>1, <1>5 DEF Sound, Complete, SheetsComplete
<1>8. RigsComplete(n) /\ NamesDistinct(n)
  BY <1>1, <1>5 DEF Sound, Complete, RigsComplete, NamesDistinct
<1> QED
  BY <1>4, <1>6, <1>7, <1>8 DEF Sound, Complete

LEMMA RewrittenSound ==
  ASSUME NEW s, Sound(s), NEW r \in Rig
  PROVE  Sound(Rewritten(s, r))
<1> DEFINE n == Rewritten(s, r)
<1>1. ASSUME NEW m \in Shared(s, r)
      PROVE  [s.miners[m] EXCEPT !.login = FALSE] \in MinerValue
  <2>1. PICK h \in Sheets(s) : m = s.sheets[h].miner
    BY DEF Sound, Complete, RigsComplete, SheetsComplete, Shared, Runs
  <2>2. s.miners[m] # None /\ s.sheets[h] \in SheetValue
    BY <2>1 DEF Sound, State, Complete, SheetsComplete, Sheets, Opt
  <2>3. s.miners[m] \in MinerValue
    BY <2>1, <2>2 DEF Sound, State, SheetValue, Opt
  <2> QED BY <2>3 DEF MinerValue
<1> DEFINE f == [m \in Miner |->
                  IF m \in Shared(s, r) THEN [s.miners[m] EXCEPT !.login = FALSE]
                                        ELSE s.miners[m]]
<1>2. f \in [Miner -> Opt(MinerValue)]
  BY <1>1 DEF Sound, State, Opt
<1>3. \A m \in Miner : s.miners[m] # None => f[m] # None
  BY <1>1, NoneAssumption
<1> HIDE DEF f
<1>4. n = [s EXCEPT !.miners = f]
  BY DEF Rewritten, f
<1>5. /\ n \in State /\ n.miners = f
      /\ n.wallets = s.wallets /\ n.pools = s.pools
      /\ n.sheets = s.sheets /\ n.profiles = s.profiles /\ n.farms = s.farms
      /\ n.schedules = s.schedules /\ n.rigs = s.rigs
  BY <1>2, <1>4 DEF Sound, State
<1>6. Sheets(n) = Sheets(s) /\ Enrolled(n) = Enrolled(s) /\ Schedules(n) = Schedules(s)
  BY <1>5 DEF Sheets, Enrolled, Schedules
<1>7. SheetsComplete(n)
  <2> SUFFICES ASSUME NEW h \in Sheets(s)
               PROVE  n.miners[s.sheets[h].miner] # None
    BY <1>5, <1>6 DEF Sound, Complete, SheetsComplete
  <2>1. s.sheets[h] \in SheetValue
    BY DEF Sound, State, Sheets, Opt
  <2> QED BY <1>3, <1>5, <2>1 DEF Sound, Complete, SheetsComplete, SheetValue
<1> QED
  BY <1>5, <1>6, <1>7 DEF Sound, Complete, RigsComplete, SchedulesComplete, NamesDistinct

\* Running the schedules D. The last one applied to a rig exists and so does
\* its sheet.
LEMMA AfterRunSound ==
  ASSUME NEW s, Sound(s), NEW D, D \subseteq Schedules(s),
         NEW last \in [Rig -> Opt(D)],
         \A r \in Rig : last[r] # None => last[r] \in Applying(s, D, r)
  PROVE  /\ Sound(AfterRun(s, D, last))
         /\ Enrolled(AfterRun(s, D, last)) = Enrolled(s)
<1> DEFINE n == AfterRun(s, D, last)
           moved(r) == [s.rigs[r] EXCEPT
                          !.sheet = s.schedules[last[r]].sheet,
                          !.revision = @ + Bumps(s, D, r)]
           done(c) == [s.schedules[c] EXCEPT !.ran = TRUE]
           f == [r \in Rig |-> IF r \in Enrolled(s) /\ last[r] # None
                                 THEN moved(r) ELSE s.rigs[r]]
           g == [c \in Schedule |-> IF c \in D THEN done(c) ELSE s.schedules[c]]
<1>1. ASSUME NEW r \in Enrolled(s), last[r] # None
      PROVE  /\ moved(r) \in RigValue
             /\ moved(r).name = s.rigs[r].name /\ moved(r).farm = s.rigs[r].farm
             /\ moved(r).profile = s.rigs[r].profile
             /\ moved(r).sheet \in Sheets(s)
  <2>1. s.rigs[r] \in RigValue
    BY DEF Sound, State, Enrolled, Opt
  <2>2. last[r] \in Schedules(s) /\ s.schedules[last[r]].apply
    BY <1>1 DEF Applying, Enrolled
  <2>3. s.schedules[last[r]].sheet \in Sheets(s)
    BY <2>2 DEF Sound, Complete, SchedulesComplete
  <2>4. Bumps(s, D, r) \in Nat
    <3>1. Applying(s, D, r) \subseteq Schedule
      BY DEF Applying, Schedules
    <3> QED BY <3>1, FiniteAssumption, FS_Subset, FS_CardinalityType DEF Bumps
  <2> DEFINE k == s.rigs[r].revision + Bumps(s, D, r)
             sh == s.schedules[last[r]].sheet
  <2>5. k \in Nat /\ sh \in Sheet /\ sh \in Sheets(s)
    BY <2>1, <2>3, <2>4 DEF Sheets, RigValue
  <2>6. moved(r) = [s.rigs[r] EXCEPT !.sheet = sh, !.revision = k]
    OBVIOUS
  <2> HIDE DEF k, sh, moved
  <2> QED BY <2>1, <2>5, <2>6 DEF RigValue, Opt
<1>2. ASSUME NEW c \in D
      PROVE  /\ done(c) \in ScheduleValue
             /\ done(c).rigs = s.schedules[c].rigs
             /\ done(c).sheet = s.schedules[c].sheet
             /\ done(c).apply = s.schedules[c].apply
  <2>1. s.schedules[c] \in ScheduleValue
    BY DEF Sound, State, Schedules, Opt
  <2> QED BY <2>1 DEF ScheduleValue
<1>3. f \in [Rig -> Opt(RigValue)]
  BY <1>1 DEF Sound, State, Opt
<1>4. g \in [Schedule -> Opt(ScheduleValue)]
  BY <1>2 DEF Sound, State, Opt
<1>5. /\ \A r \in Rig : f[r] = None <=> s.rigs[r] = None
      /\ \A r \in Enrolled(s) : /\ f[r].name = s.rigs[r].name
                                /\ f[r].farm = s.rigs[r].farm
                                /\ f[r].profile = s.rigs[r].profile
                                /\ f[r].sheet = s.rigs[r].sheet \/ f[r].sheet \in Sheets(s)
  BY <1>1, NoneAssumption DEF Enrolled
<1>6. /\ \A c \in Schedule : g[c] = None <=> s.schedules[c] = None
      /\ \A c \in Schedules(s) : /\ g[c].rigs = s.schedules[c].rigs
                                 /\ g[c].sheet = s.schedules[c].sheet
                                 /\ g[c].apply = s.schedules[c].apply
  BY <1>2, NoneAssumption DEF Schedules
<1>7. n = [s EXCEPT !.rigs = f, !.schedules = g]
  BY DEF AfterRun
<1> HIDE DEF n, f, g, moved, done
<1>8. /\ n \in State /\ n.rigs = f /\ n.schedules = g
      /\ n.wallets = s.wallets /\ n.pools = s.pools /\ n.miners = s.miners
      /\ n.sheets = s.sheets /\ n.profiles = s.profiles /\ n.farms = s.farms
  BY <1>3, <1>4, <1>7 DEF Sound, State
<1>9. Sheets(n) = Sheets(s) /\ Enrolled(n) = Enrolled(s) /\ Schedules(n) = Schedules(s)
  BY <1>5, <1>6, <1>8 DEF Sheets, Enrolled, Schedules
<1>10. RigsComplete(n)
  BY <1>5, <1>8, <1>9 DEF Sound, Complete, RigsComplete
<1>11. SchedulesComplete(n)
  BY <1>6, <1>8, <1>9 DEF Sound, Complete, SchedulesComplete
<1>12. NamesDistinct(n)
  BY <1>5, <1>8, <1>9 DEF Sound, NamesDistinct
<1> QED
  BY <1>8, <1>9, <1>10, <1>11, <1>12 DEF n, Sound, Complete, SheetsComplete

\* What placing new entries does to those that are there: nothing.
LEMMA PlacedKeeps ==
  ASSUME NEW S, NEW f \in [S -> Opt(Value)], NEW V \in SUBSET Value,
         NEW at \in [V -> S], Places(f, at)
  PROVE  /\ Placed(f, at) \in [S -> Opt(Value)]
         /\ \A x \in S : f[x] # None => Placed(f, at)[x] # None
         /\ \A x \in Image(at) : x \in S /\ Placed(f, at)[x] # None
<1> DEFINE taken(x) == CHOOSE v \in V : at[v] = x
<1>1. ASSUME NEW x \in S, \E v \in V : at[v] = x
      PROVE  taken(x) \in Value /\ taken(x) # None
  BY <1>1, NoneAssumption
<1>2. Placed(f, at) = [x \in S |-> IF \E v \in V : at[v] = x THEN taken(x) ELSE f[x]]
  BY DEF Placed
<1>3. Image(at) = {at[v] : v \in V}
  BY DEF Image
<1> HIDE DEF taken
<1> QED BY <1>1, <1>2, <1>3 DEF Opt

LEMMA QuickSetupSound ==
  ASSUME NEW s, Sound(s), NEW h \in Sheet, h \notin Sheets(s),
         NEW rigs, rigs \subseteq Enrolled(s),
         NEW A \in SUBSET Value, NEW U \in SUBSET Value,
         NEW walletAt \in [A -> Wallet], NEW poolAt \in [U -> Pool],
         Places(s.wallets, walletAt), Places(s.pools, poolAt),
         NEW mv \in MinerValue, NEW sheet \in SheetValue,
         sheet.wallets = Image(walletAt), sheet.pools = Image(poolAt),
         sheet.fallback = None
  PROVE  /\ Sound(QuickSetup(s, h, sheet, rigs, walletAt, poolAt, mv))
         /\ Enrolled(QuickSetup(s, h, sheet, rigs, walletAt, poolAt, mv)) = Enrolled(s)
<1> DEFINE n == QuickSetup(s, h, sheet, rigs, walletAt, poolAt, mv)
           W == Placed(s.wallets, walletAt)
           P == Placed(s.pools, poolAt)
           M == [s.miners EXCEPT ![sheet.miner] = mv]
           H == [s.sheets EXCEPT ![h] = sheet]
           f == [r \in Rig |-> IF r \in rigs THEN [s.rigs[r] EXCEPT !.sheet = h]
                                             ELSE s.rigs[r]]
<1>1. /\ W \in [Wallet -> Opt(Value)]
      /\ \A w \in Wallet : s.wallets[w] # None => W[w] # None
      /\ \A w \in sheet.wallets : W[w] # None
  <2>1. s.wallets \in [Wallet -> Opt(Value)]
    BY DEF Sound, State
  <2>2. /\ W \in [Wallet -> Opt(Value)]
        /\ \A x \in Wallet : s.wallets[x] # None => W[x] # None
        /\ \A x \in Image(walletAt) : x \in Wallet /\ W[x] # None
    BY <2>1, PlacedKeeps
  <2> QED BY <2>2
<1>2. /\ P \in [Pool -> Opt(Value)]
      /\ \A p \in Pool : s.pools[p] # None => P[p] # None
      /\ \A p \in sheet.pools : P[p] # None
  <2>1. s.pools \in [Pool -> Opt(Value)]
    BY DEF Sound, State
  <2>2. /\ P \in [Pool -> Opt(Value)]
        /\ \A x \in Pool : s.pools[x] # None => P[x] # None
        /\ \A x \in Image(poolAt) : x \in Pool /\ P[x] # None
    BY <2>1, PlacedKeeps
  <2> QED BY <2>2
<1>3. /\ M \in [Miner -> Opt(MinerValue)]
      /\ \A m \in Miner : s.miners[m] # None => M[m] # None
      /\ M[sheet.miner] # None
  BY NoneAssumption DEF Sound, State, Opt, SheetValue
<1>4. /\ H \in [Sheet -> Opt(SheetValue)] /\ H[h] = sheet /\ sheet # None
      /\ \A g \in Sheets(s) : H[g] = s.sheets[g] /\ g # h
      /\ \A g \in Sheet : g # h => H[g] = s.sheets[g]
  BY NoneAssumption DEF Sound, State, Opt
<1>5. ASSUME NEW r \in rigs
      PROVE  /\ f[r] \in RigValue /\ f[r].sheet = h
             /\ f[r].name = s.rigs[r].name /\ f[r].farm = s.rigs[r].farm
             /\ f[r].profile = s.rigs[r].profile
  <2>1. s.rigs[r] \in RigValue /\ r \in Rig
    BY DEF Sound, State, Enrolled, Opt
  <2> QED BY <2>1 DEF RigValue, Opt
<1>6. f \in [Rig -> Opt(RigValue)] /\ \A r \in Rig : r \notin rigs => f[r] = s.rigs[r]
  <2>1. \A r \in Rig : r \in rigs => f[r] \in RigValue
    BY <1>5
  <2>2. \A r \in Rig : r \notin rigs => f[r] = s.rigs[r]
    OBVIOUS
  <2>3. f = [r \in Rig |-> f[r]]
    OBVIOUS
  <2> HIDE DEF f
  <2> QED BY <2>1, <2>2, <2>3 DEF Sound, State, Opt
<1>7. n = [s EXCEPT !.wallets = W, !.pools = P, !.miners = M, !.sheets = H, !.rigs = f]
  BY DEF QuickSetup, Sound, State
<1> HIDE DEF n, W, P, M, H, f
<1>8. /\ n \in State /\ n.wallets = W /\ n.pools = P /\ n.miners = M
      /\ n.sheets = H /\ n.rigs = f
      /\ n.profiles = s.profiles /\ n.farms = s.farms /\ n.schedules = s.schedules
  BY <1>1, <1>2, <1>3, <1>4, <1>6, <1>7 DEF Sound, State
<1>9. /\ Sheets(n) = Sheets(s) \cup {h} /\ Schedules(n) = Schedules(s)
      /\ Enrolled(n) = Enrolled(s)
  <2>1. Sheets(n) = Sheets(s) \cup {h}
    <3>1. \A g \in Sheet : g # h => (n.sheets[g] = None <=> s.sheets[g] = None)
      BY <1>4, <1>8
    <3>2. n.sheets[h] # None
      BY <1>4, <1>8
    <3> QED BY <3>1, <3>2 DEF Sheets
  <2>2. Enrolled(n) = Enrolled(s)
    BY <1>5, <1>6, <1>8, NoneAssumption DEF Enrolled
  <2> QED BY <1>8, <2>1, <2>2 DEF Schedules
<1>10. SheetsComplete(n)
  <2> SUFFICES ASSUME NEW g \in Sheets(n)
               PROVE /\ \A w \in n.sheets[g].wallets : n.wallets[w] # None
                     /\ \A p \in n.sheets[g].pools : n.pools[p] # None
                     /\ n.miners[n.sheets[g].miner] # None
                     /\ n.sheets[g].fallback # None => n.sheets[g].fallback \in Sheets(n) \ {g}
    BY DEF SheetsComplete
  <2>1. CASE g = h
    BY <1>1, <1>2, <1>3, <1>4, <1>8, <2>1
  <2>2. CASE g # h
    <3>1. n.sheets[g] = s.sheets[g] /\ g \in Sheets(s) /\ s.sheets[g] \in SheetValue
      BY <1>4, <1>8, <1>9, <2>2 DEF Sound, State, Sheets, Opt
    <3> QED
      BY <1>1, <1>2, <1>3, <1>8, <1>9, <3>1 DEF Sound, Complete, SheetsComplete, SheetValue
  <2> QED BY <2>1, <2>2
<1>11. RigsComplete(n)
  BY <1>5, <1>6, <1>8, <1>9 DEF Sound, Complete, RigsComplete, Enrolled
<1>12. SchedulesComplete(n)
  BY <1>8, <1>9 DEF Sound, Complete, SchedulesComplete
<1>13. NamesDistinct(n)
  BY <1>5, <1>6, <1>8, <1>9 DEF Sound, NamesDistinct, Enrolled
<1> QED
  BY <1>8, <1>9, <1>10, <1>11, <1>12, <1>13 DEF n, Sound, Complete

-----------------------------------------------------------------------------
(* The actions. *)

LEMMA InitInductive == Init => Inductive
<1> SUFFICES ASSUME Init PROVE Inductive
  OBVIOUS
<1>1. Empty \in State
  BY ValueAssumption DEF Empty, State, Opt
<1>2. Complete(Empty) /\ NamesDistinct(Empty)
  BY DEF Empty, Complete, SheetsComplete, RigsComplete, SchedulesComplete, NamesDistinct,
         Sheets, Enrolled, Schedules
<1> QED BY <1>1, <1>2 DEF Init, Inductive, Sound

LEMMA Committing ==
  ASSUME Inductive, NEW n, Sound(n), Commit(n) \/ LeaveUnsaved(n),
         fired' \in [Schedule -> Nat]
  PROVE  Inductive'
BY DEF Inductive, Commit, LeaveUnsaved

LEMMA RunningEnrolled ==
  ASSUME NEW s, NEW S
  PROVE  Running(s, S) \subseteq Enrolled(s)
BY DEF Running

LEMMA SavesStep ==
  ASSUME Inductive, Saves
  PROVE  Inductive'
<1> USE DEF Inductive
<1>1. ASSUME NEW f \in Farm, SaveFarm(f) PROVE Inductive'
  BY <1>1, FarmSavedSound, Committing DEF SaveFarm
<1>2. ASSUME NEW w \in Wallet, NEW v \in Value, SaveWallet(w, v) PROVE Inductive'
  <2> DEFINE n == [store EXCEPT !.wallets[w] = v]
  <2>1. Sound(n)
    BY WalletSound, NoneAssumption DEF Opt
  <2> QED
    BY <1>2, <2>1, BumpedSound, RunningEnrolled, Committing DEF SaveWallet
<1>3. ASSUME NEW p \in Pool, NEW v \in Value, SavePool(p, v) PROVE Inductive'
  <2> DEFINE n == [store EXCEPT !.pools[p] = v]
  <2>1. Sound(n)
    BY PoolSound, NoneAssumption DEF Opt
  <2> QED
    BY <1>3, <2>1, BumpedSound, RunningEnrolled, Committing DEF SavePool
<1>4. ASSUME NEW m \in Miner, NEW v \in MinerInput, SaveMiner(m, v) PROVE Inductive'
  <2> DEFINE n == [store EXCEPT !.miners[m] = v]
  <2>1. Sound(n)
    BY MinerSound, NoneAssumption, InputAssumption DEF Opt
  <2> QED
    BY <1>4, <2>1, BumpedSound, RunningEnrolled, Committing DEF SaveMiner
<1>5. ASSUME NEW h \in Sheet, NEW v \in SheetInput, SaveFlightSheet(h, v) PROVE Inductive'
  <2> DEFINE n == [store EXCEPT !.sheets[h] = v]
  <2>1. v \in SheetValue
    BY InputAssumption DEF SheetInput, SheetValue
  <2>2. Sound(n)
    BY <1>5, <2>1, SheetSavedSound DEF SaveFlightSheet, FallbackAllowed
  <2> QED
    BY <1>5, <2>2, BumpedSound, RunningEnrolled, Committing DEF SaveFlightSheet
<1>6. ASSUME NEW o \in Profile, NEW v \in Value, SaveOverclockProfile(o, v) PROVE Inductive'
  <2> DEFINE n == [store EXCEPT !.profiles[o] = v]
  <2>1. Sound(n)
    BY ProfileSound, NoneAssumption DEF Opt
  <2>2. HavingProfile(n, o) \subseteq Enrolled(n)
    BY DEF HavingProfile
  <2> QED
    BY <1>6, <2>1, <2>2, BumpedSound, Committing DEF SaveOverclockProfile
<1>7. ASSUME NEW v \in Limit, SetGPUPowerPolicy(v) PROVE Inductive'
  <2> DEFINE n == [store EXCEPT !.policy = v]
             R == {r \in Enrolled(store) : store.rigs[r].gpus}
  <2>1. Sound(n)
    BY PolicySound
  <2>2. R \subseteq Enrolled(n)
    BY DEF Enrolled, Sound, State
  <2> QED
    BY <1>7, <2>1, <2>2, BumpedSound, Committing DEF SetGPUPowerPolicy
<1>8. ASSUME NEW c \in Schedule, NEW apply \in BOOLEAN, NEW sheet \in Opt(Sheet),
             NEW rigs \in SUBSET Rig, NEW enabled \in BOOLEAN,
             SaveSchedule(c, apply, sheet, rigs, enabled)
      PROVE  Inductive'
  <2> DEFINE value == [apply |-> apply, sheet |-> sheet, rigs |-> rigs,
                       enabled |-> enabled, ran |-> RunAlready(store, c)]
  <2>1. RunAlready(store, c) \in BOOLEAN
    BY DEF RunAlready, Sound, State, ScheduleValue, Opt
  <2>2. value \in ScheduleValue
    BY <2>1 DEF ScheduleValue
  <2>3. Sound([store EXCEPT !.schedules[c] = value])
    BY <1>8, <2>2, ScheduleSavedSound DEF SaveSchedule
  <2>4. fired' \in [Schedule -> Nat]
    BY <1>8 DEF SaveSchedule
  <2> QED BY <1>8, <2>3, <2>4, Committing DEF SaveSchedule
<1> QED
  BY <1>1, <1>2, <1>3, <1>4, <1>5, <1>6, <1>7, <1>8 DEF Saves

LEMMA QuickSetupsStep ==
  ASSUME Inductive, QuickSetups
  PROVE  Inductive'
<1> USE DEF Inductive
<1>1. ASSUME NEW h \in Sheet, NEW rigs \in SUBSET Rig,
             NEW addresses \in SUBSET Value, NEW urls \in SUBSET Value,
             NEW m \in Miner, NEW mv \in MinerInput, NEW user \in UserInput,
             NEW body \in Value,
             SaveQuickFlightSheet(h, rigs, addresses, urls, m, mv, user, body)
      PROVE  Inductive'
  <2>1. PICK walletAt \in [addresses -> Wallet], poolAt \in [urls -> Pool] :
          /\ Places(store.wallets, walletAt) /\ Places(store.pools, poolAt)
          /\ LET sheet == [wallets |-> Image(walletAt), pools |-> Image(poolAt),
                           miner |-> m, fallback |-> None, user |-> user, body |-> body]
             IN Commit(Bumped(QuickSetup(store, h, sheet, rigs, walletAt, poolAt, mv), rigs))
    BY <1>1 DEF SaveQuickFlightSheet
  <2> DEFINE sheet == [wallets |-> Image(walletAt), pools |-> Image(poolAt),
                       miner |-> m, fallback |-> None, user |-> user, body |-> body]
             n == QuickSetup(store, h, sheet, rigs, walletAt, poolAt, mv)
  <2>2. Image(walletAt) \in SUBSET Wallet /\ Image(poolAt) \in SUBSET Pool
    BY DEF Image
  <2>3. sheet \in SheetValue
    BY <2>2, InputAssumption DEF SheetValue, Opt
  <2>4. /\ sheet.wallets = Image(walletAt) /\ sheet.pools = Image(poolAt)
        /\ sheet.fallback = None
    OBVIOUS
  <2>5. h \notin Sheets(store) /\ rigs \subseteq Enrolled(store)
    BY <1>1 DEF SaveQuickFlightSheet
  <2>6. mv \in MinerValue
    BY InputAssumption
  <2>7. Commit(Bumped(n, rigs)) /\ fired' \in [Schedule -> Nat]
    BY <1>1, <2>1 DEF SaveQuickFlightSheet
  <2>8. /\ Places(store.wallets, walletAt) /\ Places(store.pools, poolAt)
        /\ Sound(store)
    BY <2>1
  <2> HIDE DEF sheet
  <2>9. Sound(n) /\ Enrolled(n) = Enrolled(store)
    BY <2>3, <2>4, <2>5, <2>6, <2>8, QuickSetupSound
  <2> HIDE DEF n
  <2> QED BY <2>5, <2>7, <2>9, BumpedSound, Committing
<1>2. ASSUME NEW m \in Miner, NEW mv \in MinerInput, AbandonQuickSetup(m, mv)
      PROVE  Inductive'
  <2>1. Sound([store EXCEPT !.miners[m] = mv])
    BY MinerSound, NoneAssumption, InputAssumption DEF Opt
  <2> QED BY <1>2, <2>1, Committing DEF AbandonQuickSetup
<1> QED BY <1>1, <1>2 DEF QuickSetups

LEMMA DeletesStep ==
  ASSUME Inductive, Deletes
  PROVE  Inductive'
<1> USE DEF Inductive
<1>1. ASSUME NEW f \in Farm, DeleteFarm(f) PROVE Inductive'
  BY <1>1, FarmDroppedSound, Committing DEF DeleteFarm
<1>2. ASSUME NEW w \in Wallet, DeleteWallet(w) PROVE Inductive'
  <2>1. Sound([store EXCEPT !.wallets[w] = None])
    BY <1>2, WalletSound DEF DeleteWallet, Opt
  <2> QED BY <1>2, <2>1, Committing DEF DeleteWallet
<1>3. ASSUME NEW p \in Pool, DeletePool(p) PROVE Inductive'
  <2>1. Sound([store EXCEPT !.pools[p] = None])
    BY <1>3, PoolSound DEF DeletePool, Opt
  <2> QED BY <1>3, <2>1, Committing DEF DeletePool
<1>4. ASSUME NEW m \in Miner, DeleteMiner(m) PROVE Inductive'
  <2>1. Sound([store EXCEPT !.miners[m] = None])
    BY <1>4, MinerSound DEF DeleteMiner, Opt
  <2> QED BY <1>4, <2>1, Committing DEF DeleteMiner
<1>5. ASSUME NEW h \in Sheet, DeleteFlightSheet(h) PROVE Inductive'
  BY <1>5, SheetDroppedSound, Committing DEF DeleteFlightSheet
<1>6. ASSUME NEW o \in Profile, DeleteOverclockProfile(o) PROVE Inductive'
  <2>1. Sound([store EXCEPT !.profiles[o] = None])
    BY <1>6, ProfileSound DEF DeleteOverclockProfile, Opt
  <2> QED BY <1>6, <2>1, Committing DEF DeleteOverclockProfile
<1>7. ASSUME NEW c \in Schedule, DeleteSchedule(c) PROVE Inductive'
  BY <1>7, ScheduleDroppedSound, Committing DEF DeleteSchedule
<1> QED BY <1>1, <1>2, <1>3, <1>4, <1>5, <1>6, <1>7 DEF Deletes

LEMMA RigStepsStep ==
  ASSUME Inductive, RigSteps
  PROVE  Inductive'
<1> USE DEF Inductive
<1> PICK r \in Rig :
    \/ \E name \in Name : Enroll(r, name)
    \/ \E name \in Opt(Name), farm \in Opt(Farm), sheet \in Opt(Sheet),
          profile \in Opt(Profile), rules \in Rules :
         AssignWorker(r, name, farm, sheet, profile, rules)
    \/ \E gpus \in BOOLEAN : Heartbeat(r, gpus)
    \/ \E v \in Value : FinishSmartTune(r, v)
    \/ DeleteRig(r)
    \/ Resolve(r)
  BY DEF RigSteps
<1>0. r \in Enrolled(store) => store.rigs[r] \in RigValue
  BY DEF Sound, State, Enrolled, Opt
<1>1. ASSUME NEW name \in Name, Enroll(r, name) PROVE Inductive'
  <2>1. NewRig(name) \in RigValue
    BY ValueAssumption DEF NewRig, RigValue, Opt
  <2>2. Sound([store EXCEPT !.rigs[r] = NewRig(name)])
    BY <1>1, <2>1, RigSavedSound DEF Enroll, NameFree, NewRig
  <2> QED BY <1>1, <2>2, Committing DEF Enroll
<1>2. ASSUME NEW name \in Opt(Name), NEW farm \in Opt(Farm), NEW sheet \in Opt(Sheet),
             NEW profile \in Opt(Profile), NEW rules \in Rules,
             AssignWorker(r, name, farm, sheet, profile, rules)
      PROVE  Inductive'
  <2> DEFINE v == Assigned(store.rigs[r], name, farm, sheet, profile, rules)
             n == [store EXCEPT !.rigs[r] = v]
  <2>1. r \in Enrolled(store) /\ store.rigs[r] \in RigValue
    BY <1>0, <1>2 DEF AssignWorker
  <2>2. /\ v \in RigValue
        /\ v.farm = farm /\ v.sheet = sheet /\ v.profile = profile
        /\ v.name = IF name = None THEN store.rigs[r].name ELSE name
    BY <2>1 DEF Assigned, RigValue, Opt
  <2>3. \A q \in Enrolled(store) \ {r} : store.rigs[q].name # v.name
    BY <1>2, <2>1, <2>2 DEF AssignWorker, NameFree, Sound, NamesDistinct
  <2>4. /\ farm # None => farm \in store.farms
        /\ sheet # None => sheet \in Sheets(store)
        /\ profile # None => store.profiles[profile] # None
    BY <1>2 DEF AssignWorker
  <2>5. (Commit(n) \/ Commit(Bumped(n, {r}))) /\ UNCHANGED fired
    BY <1>2 DEF AssignWorker
  <2> HIDE DEF v
  <2>6. Sound(n) /\ r \in Enrolled(n)
    BY <2>2, <2>3, <2>4, RigSavedSound
  <2>7. Sound(Bumped(n, {r}))
    BY <2>6, BumpedSound
  <2> QED BY <2>5, <2>6, <2>7, Committing
<1>3. ASSUME NEW gpus \in BOOLEAN, Heartbeat(r, gpus) PROVE Inductive'
  <2> DEFINE v == [store.rigs[r] EXCEPT !.gpus = gpus]
             n == [store EXCEPT !.rigs[r].gpus = gpus]
  <2>1. r \in Enrolled(store) /\ store.rigs[r] \in RigValue
    BY <1>0, <1>3 DEF Heartbeat
  <2>2. n = [store EXCEPT !.rigs[r] = v]
    BY DEF Sound, State
  <2>3. /\ v \in RigValue
        /\ v.farm = store.rigs[r].farm /\ v.sheet = store.rigs[r].sheet
        /\ v.profile = store.rigs[r].profile /\ v.name = store.rigs[r].name
    BY <2>1 DEF RigValue
  <2>4. \A q \in Enrolled(store) \ {r} : store.rigs[q].name # v.name
    BY <2>1, <2>3 DEF Sound, NamesDistinct
  <2>5. /\ v.farm # None => v.farm \in store.farms
        /\ v.sheet # None => v.sheet \in Sheets(store)
        /\ v.profile # None => store.profiles[v.profile] # None
    BY <2>1, <2>3 DEF Sound, Complete, RigsComplete
  <2> HIDE DEF v
  <2>6. Sound(n)
    BY <2>2, <2>3, <2>4, <2>5, RigSavedSound
  <2> QED BY <1>3, <2>6, Committing DEF Heartbeat
<1>4. ASSUME NEW v \in Value, FinishSmartTune(r, v) PROVE Inductive'
  <2> DEFINE o == store.rigs[r].profile
             n == [store EXCEPT !.profiles[o] = v]
  <2>1. o \in Profile /\ r \in Enrolled(store)
    BY <1>0, <1>4 DEF FinishSmartTune, RigValue, Opt
  <2>2. Sound(n)
    BY <2>1, ProfileSound, NoneAssumption DEF Opt
  <2>3. r \in Enrolled(n)
    BY <2>1 DEF Enrolled, Sound, State
  <2> QED BY <1>4, <2>2, <2>3, BumpedSound, Committing DEF FinishSmartTune
<1>5. CASE DeleteRig(r)
  BY <1>5, RigDroppedSound, Committing DEF DeleteRig
<1>6. CASE Resolve(r)
  BY <1>6, RewrittenSound, Committing DEF Resolve
<1> QED BY <1>1, <1>2, <1>3, <1>4, <1>5, <1>6

LEMMA ClockStep ==
  ASSUME Inductive, Clock
  PROVE  Inductive'
<1> USE DEF Inductive
<1>1. CASE NextMinute
  <2>1. Sound(MinuteOver(store)) /\ Sound(MinuteOver(disk))
    BY MinuteOverSound
  <2> QED BY <1>1, <2>1 DEF NextMinute
<1>2. ASSUME NEW D \in SUBSET Schedule, RunSchedules(D) PROVE Inductive'
  <2>1. PICK rank \in [D -> 1 .. Cardinality(Schedule)], last \in [Rig -> Opt(D)] :
          /\ \A r \in Rig :
               LET applying == Applying(store, D, r)
               IN IF applying = {} THEN last[r] = None
                  ELSE /\ last[r] \in applying
                       /\ \A c \in applying : rank[c] <= rank[last[r]]
          /\ Commit(AfterRun(store, D, last))
    BY <1>2 DEF RunSchedules
  <2>2. \A r \in Rig : last[r] # None => last[r] \in Applying(store, D, r)
    BY <2>1
  <2>3. D \subseteq Schedules(store)
    BY <1>2 DEF RunSchedules, Due
  <2>4. Sound(AfterRun(store, D, last))
    BY <2>2, <2>3, AfterRunSound
  <2>5. fired' \in [Schedule -> Nat]
    BY <1>2 DEF RunSchedules
  <2> QED BY <2>1, <2>4, <2>5, Committing
<1> QED BY <1>1, <1>2 DEF Clock

LEMMA InductiveStep == Inductive /\ [Next]_vars => Inductive'
<1> SUFFICES ASSUME Inductive, [Next]_vars PROVE Inductive'
  OBVIOUS
<1>1. CASE BackToDisk
  BY <1>1 DEF BackToDisk, Inductive
<1>2. CASE UNCHANGED vars
  BY <1>2 DEF vars, Inductive
<1> QED
  BY <1>1, <1>2, SavesStep, QuickSetupsStep, DeletesStep, RigStepsStep, ClockStep
  DEF Next

-----------------------------------------------------------------------------
(* The theorems. *)

\* The inductive invariant: the state in memory and the state file are sound
\* in every reachable state, whatever operations were left unsaved, undone or
\* lost in a restart.
THEOREM Invariance == Spec => []Inductive
BY InitInductive, InductiveStep, PTL DEF Spec

\* Every operation of resources.go, quicksetup.go and schedules.go leaves
\* entries of the right kind, in memory and in the file.
THEOREM TypeCorrect == Spec => []TypeOK
<1>1. Inductive => TypeOK
  BY DEF Inductive, Sound, TypeOK
<1> QED BY <1>1, Invariance, PTL

\* No sheet, rig or schedule of any controller, however many it keeps, refers
\* to an entry that was deleted (the checks of DeleteResource and of the saves).
THEOREM ReferencesHold == Spec => []ReferencesExist
<1>1. Inductive => ReferencesExist
  BY DEF Inductive, Sound, ReferencesExist
<1> QED BY <1>1, Invariance, PTL

\* However workers are enrolled, renamed and deleted, their names differ.
THEOREM NamesUnique == Spec => []UniqueNames
<1>1. Inductive => UniqueNames
  BY DEF Inductive, Sound, UniqueNames
<1> QED BY <1>1, Invariance, PTL

=============================================================================
