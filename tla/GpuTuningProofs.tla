-------------------------- MODULE GpuTuningProofs --------------------------
(***************************************************************************)
(* What holds of GpuTuning for all GPUs, profiles, ceilings and bounds:    *)
(* its type invariant, that nothing the agent does lifts a mining GPU      *)
(* above the power ceiling, and that a change of profile leaves each       *)
(* control as the new profile says.                                        *)
(***************************************************************************)
EXTENDS GpuTuning, WellFoundedInduction, TLAPS

USE GPUAssumption, HardwareAssumption, WattsAssumption, ConfigAssumption, BoundAssumption

-----------------------------------------------------------------------------
(* Least and greatest numbers. *)

LEMMA MinOfPositions ==
  ASSUME NEW S \in SUBSET Nat, S # {}
  PROVE  Min(S) \in S /\ \A y \in S : Min(S) <= y
<1>1. \E x \in S : \A y \in S : ~ (<< y, x >> \in OpToRel(<, Nat))
  BY NatLessThanWellFounded, WFMin
<1>2. PICK x \in S : \A y \in S : ~ (<< y, x >> \in OpToRel(<, Nat))
  BY <1>1
<1>3. \A y \in S : x <= y
  <2> SUFFICES ASSUME NEW y \in S, y < x PROVE FALSE
    OBVIOUS
  <2>1. << y, x >> \in Nat \X Nat /\ << y, x >>[1] < << y, x >>[2]
    OBVIOUS
  <2> QED BY <1>2, <2>1, Zenon DEF OpToRel
<1> QED BY <1>3 DEF Min

LEMMA MaxOfPositions ==
  ASSUME NEW n \in Nat, NEW S \in SUBSET (1 .. n), S # {}
  PROVE  Max(S) \in S /\ \A y \in S : Max(S) >= y
<1> DEFINE T == {n - x : x \in S}
<1>1. \A x \in S : x \in Nat /\ n - x \in Nat
  OBVIOUS
<1>2. T \in SUBSET Nat /\ T # {}
  BY <1>1
<1>3. Min(T) \in T /\ \A y \in T : Min(T) <= y
  BY <1>2, MinOfPositions
<1>4. PICK x \in S : Min(T) = n - x
  BY <1>3
<1>5. \A y \in S : x >= y
  <2> SUFFICES ASSUME NEW y \in S PROVE x >= y
    OBVIOUS
  <2>1. n - y \in T
    OBVIOUS
  <2>2. n - x <= n - y
    BY <1>3, <1>4, <2>1
  <2> QED BY <1>1, <2>2
<1> QED BY <1>5 DEF Max

LEMMA MinOfTwo ==
  ASSUME NEW a \in Nat, NEW b \in Nat
  PROVE  Min({a, b}) \in Nat /\ Min({a, b}) <= a /\ Min({a, b}) <= b
<1>1. \E x \in {a, b} : \A y \in {a, b} : x <= y
  OBVIOUS
<1> QED BY <1>1 DEF Min

-----------------------------------------------------------------------------
(* Profiles under a ceiling. *)

Profiles == Seq(Setting)

\* No setting of a profile leaves the power limit alone or exceeds the ceiling.
Limits(p, limit) ==
  limit # 0 => /\ \A i \in DOMAIN p : p[i].value["power"] \in 1 .. limit
               /\ \E i \in DOMAIN p : p[i].selector = All

\* What an agent applies respects its ceiling.
LEMMA ClampLimits ==
  ASSUME NEW p \in Profiles, NEW limit \in Nat
  PROVE  Clamp(p, limit) \in Profiles /\ Limits(Clamp(p, limit), limit)
<1> DEFINE Cap(s) == [s EXCEPT !.value["power"] = Capped(@, limit)]
           capped == [i \in DOMAIN p |-> Cap(p[i])]
<1>1. CASE limit = 0
  BY <1>1 DEF Clamp, Limits
<1>2. CASE limit # 0
  <2>1. \A i \in DOMAIN p : p[i] \in Setting
    BY DEF Profiles
  <2>2. \A s \in Setting : /\ Cap(s) \in Setting /\ Cap(s).selector = s.selector
                           /\ Cap(s).value["power"] \in 1 .. limit
    <3> SUFFICES ASSUME NEW s \in Setting
                 PROVE  /\ Cap(s) \in Setting /\ Cap(s).selector = s.selector
                        /\ Cap(s).value["power"] \in 1 .. limit
      OBVIOUS
    <3>1. s.value \in [Control -> Nat] /\ "power" \in Control
      BY DEF Setting, Control
    <3>2. Capped(s.value["power"], limit) \in 1 .. limit
      BY <1>2, <3>1 DEF Capped
    <3> DEFINE v == [s.value EXCEPT !["power"] = Capped(s.value["power"], limit)]
    <3>3. v \in [Control -> Nat] /\ v["power"] \in 1 .. limit
      BY <3>1, <3>2
    <3>4. Cap(s) = [s EXCEPT !.value = v]
      OBVIOUS
    <3> HIDE DEF v, Cap
    <3>5. Cap(s) = [selector |-> s.selector, value |-> v]
      BY <3>4 DEF Setting
    <3> QED BY <3>3, <3>5 DEF Setting
  <2>3. capped \in Profiles /\ DOMAIN capped = DOMAIN p
    BY <2>1, <2>2 DEF Profiles
  <2>4. \A i \in DOMAIN p : /\ capped[i].value["power"] \in 1 .. limit
                            /\ capped[i].selector = p[i].selector
    BY <2>1, <2>2
  <2>5. CASE \E i \in DOMAIN p : p[i].selector = All
    <3>1. Clamp(p, limit) = capped
      BY <1>2, <2>5 DEF Clamp
    <3> QED BY <2>3, <2>4, <2>5, <3>1 DEF Limits
  <2>6. CASE ~ \E i \in DOMAIN p : p[i].selector = All
    <3> DEFINE q == << ForAll(limit) >> \o capped
    <3>1. Clamp(p, limit) = q
      BY <1>2, <2>6 DEF Clamp
    <3>2. /\ ForAll(limit) \in Setting /\ ForAll(limit).selector = All
          /\ ForAll(limit).value["power"] = limit
      BY DEF ForAll, Setting, Control
    <3>3. << ForAll(limit) >> \in Seq(Setting) /\ capped \in Seq(Setting)
      BY <2>3, <3>2 DEF Profiles
    <3>4. q \in Seq(Setting) /\ Len(q) = 1 + Len(capped) /\ DOMAIN q = 1 .. Len(q)
      BY <3>3
    <3>5. q[1] = ForAll(limit) /\ \A i \in 2 .. Len(q) : q[i] = capped[i - 1]
      BY <3>3, <3>4
    <3>6. \A i \in 2 .. Len(q) : i - 1 \in DOMAIN p
      BY <2>3, <3>3, <3>4
    <3>7. \A i \in DOMAIN q : q[i].value["power"] \in 1 .. limit
      <4> SUFFICES ASSUME NEW i \in DOMAIN q PROVE q[i].value["power"] \in 1 .. limit
        OBVIOUS
      <4>1. CASE i = 1
        BY <1>2, <3>2, <3>5, <4>1
      <4>2. CASE i # 1
        <5>1. i \in 2 .. Len(q) /\ i - 1 \in DOMAIN p
          BY <3>4, <3>6, <4>2
        <5> HIDE DEF q, capped
        <5> QED BY <2>4, <3>5, <5>1
      <4> QED BY <4>1, <4>2
    <3>8. \E i \in DOMAIN q : q[i].selector = All
      <4>1. 1 \in DOMAIN q
        BY <3>3, <3>4
      <4> QED BY <3>2, <3>5, <4>1
    <3> QED BY <3>1, <3>4, <3>7, <3>8 DEF Limits, Profiles
  <2> QED BY <2>5, <2>6
<1> QED BY <1>1, <1>2

LEMMA EffectiveLimits ==
  ASSUME NEW c \in Configuration
  PROVE  Effective(c) \in Profiles /\ Limits(Effective(c), c.limit)
BY ClampLimits DEF Effective, Configuration, Profiles

\* Under a ceiling the power limit is never among what is reset.
LEMMA PowerStays ==
  ASSUME NEW next \in Profiles, NEW limit \in Nat \ {0}, Limits(next, limit),
         NEW s \in Setting
  PROVE  ~Removes(s, next, "power")
<1> DEFINE same == {i \in DOMAIN next : next[i].selector = s.selector}
<1>1. \A i \in DOMAIN next : next[i].value["power"] # 0 /\ next[i].value["power"] > 0
  BY DEF Limits
<1>2. CASE same # {}
  <2>1. same \in SUBSET Nat
    BY DEF Profiles
  <2>2. Min(same) \in DOMAIN next
    BY <1>2, <2>1, MinOfPositions
  <2> QED BY <1>1, <1>2, <2>2 DEF Removes, Replaced
<1>3. CASE same = {}
  BY <1>1, <1>3 DEF Removes, Replaced, Limits
<1> QED BY <1>2, <1>3

-----------------------------------------------------------------------------
(* Hardware. *)

\* Applying a profile gives every control a number.
LEMMA AppliedType ==
  ASSUME NEW hw \in Tuned, NEW p \in Profiles, NEW point
  PROVE  Applied(hw, p, point) \in Tuned
<1> SUFFICES ASSUME NEW g \in GPU, NEW c \in Control
             PROVE  Applied(hw, p, point)[g][c] \in Nat
  BY DEF Applied, Tuned
<1> DEFINE W == {i \in DOMAIN p : Sets(p[i], g, c) /\ Before(<< i, g, ApplyRank[c] >>, point)}
<1>1. Applied(hw, p, point)[g][c] = IF W = {} THEN hw[g][c] ELSE p[Max(W)].value[c]
  BY DEF Applied
<1>2. CASE W = {}
  BY <1>1, <1>2 DEF Tuned
<1>3. CASE W # {}
  <2>1. Len(p) \in Nat /\ W \in SUBSET (1 .. Len(p))
    BY DEF Profiles
  <2>2. Max(W) \in DOMAIN p
    BY <1>3, <2>1, MaxOfPositions
  <2> HIDE DEF W
  <2>3. p[Max(W)] \in Setting
    BY <2>2 DEF Profiles
  <2> QED BY <1>1, <1>3, <2>3 DEF Setting
<1> QED BY <1>2, <1>3

LEMMA ResetType ==
  ASSUME NEW hw \in Tuned, NEW previous, NEW next, NEW point
  PROVE  Reset(hw, previous, next, point) \in Tuned
BY DEF Reset, Tuned

Within(p, m) == \A i \in DOMAIN p : p[i].value["power"] <= m

\* A profile within a bound keeps the power limits within it.
LEMMA AppliedWithin ==
  ASSUME NEW hw \in Tuned, NEW p \in Profiles, NEW point, NEW m \in Nat, Within(p, m),
         NEW g \in GPU, hw[g]["power"] <= m
  PROVE  Applied(hw, p, point)[g]["power"] <= m
<1> DEFINE W == {i \in DOMAIN p : /\ Sets(p[i], g, "power")
                                  /\ Before(<< i, g, ApplyRank["power"] >>, point)}
<1>1. Applied(hw, p, point)[g]["power"]
        = IF W = {} THEN hw[g]["power"] ELSE p[Max(W)].value["power"]
  BY DEF Applied, Control
<1>2. CASE W = {}
  BY <1>1, <1>2
<1>3. CASE W # {}
  <2>1. Len(p) \in Nat /\ W \in SUBSET (1 .. Len(p))
    BY DEF Profiles
  <2>2. Max(W) \in DOMAIN p
    BY <1>3, <2>1, MaxOfPositions
  <2> HIDE DEF W
  <2> QED BY <1>1, <1>3, <2>2 DEF Within
<1> QED BY <1>2, <1>3

\* Under a ceiling resets leave the power limits alone.
LEMMA ResetWithin ==
  ASSUME NEW hw \in Tuned, NEW previous \in Profiles, NEW next \in Profiles, NEW point,
         NEW limit \in Nat \ {0}, Limits(next, limit), NEW g \in GPU
  PROVE  Reset(hw, previous, next, point)[g]["power"] = hw[g]["power"]
<1>1. \A i \in DOMAIN previous : ~Removes(previous[i], next, "power")
  BY PowerStays DEF Profiles
<1> QED BY <1>1 DEF Reset, Control

\* Whatever becomes of a transition.
Outcomes(hw, previous, next) ==
  Transitions(hw, previous, next) \cup Broken(hw, previous, next)
    \cup Restored(hw, previous, next) \cup Lost(hw, previous, next)

LEMMA OutcomesType ==
  ASSUME NEW hw \in Tuned, NEW previous \in Profiles, NEW next \in Profiles,
         NEW x \in Outcomes(hw, previous, next)
  PROVE  x \in Tuned
<1>1. \A point : Reset(hw, previous, next, point) \in Tuned
  BY ResetType
<1>2. \A a \in Tuned, p \in Profiles : \A point : Applied(a, p, point) \in Tuned
  BY AppliedType
<1> QED BY <1>1, <1>2 DEF Outcomes, Transitions, Broken, Restored, Lost, AllReset, AllApplied

\* It stays below the looser of two ceilings, if the hardware was.
LEMMA OutcomesWithin ==
  ASSUME NEW hw \in Tuned, NEW previous \in Profiles, NEW next \in Profiles,
         NEW x \in Outcomes(hw, previous, next),
         NEW limit \in Nat \ {0}, Limits(next, limit),
         NEW m \in Nat, limit <= m, Within(previous, m),
         NEW g \in GPU, hw[g]["power"] <= m
  PROVE  x[g]["power"] <= m
<1> DEFINE Good(a) == a \in Tuned /\ a[g]["power"] <= m
<1>1. Within(next, m)
  BY DEF Limits, Within
<1>2. \A point : Good(Reset(hw, previous, next, point))
  BY ResetType, ResetWithin
<1>3. \A a, p, point : Good(a) /\ p \in {previous, next} => Good(Applied(a, p, point))
  BY <1>1, AppliedType, AppliedWithin
<1>4. Good(hw)
  OBVIOUS
<1> HIDE DEF Good
<1>5. Good(x)
  BY <1>2, <1>3, <1>4
     DEF Outcomes, Transitions, Broken, Restored, Lost, AllReset, AllApplied
<1> QED BY <1>5 DEF Good

-----------------------------------------------------------------------------
(* The ceiling. *)

LEMMA EnforcedType ==
  ASSUME NEW read, NEW hw \in Tuned, NEW limit \in Nat, NEW S
  PROVE  EnforcedOn(S, read, hw, limit) \in Tuned
BY DEF EnforcedOn, Tuned, Control

LEMMA EnforcedPower ==
  ASSUME NEW read, NEW hw \in Tuned, NEW limit \in Nat, NEW S, NEW g \in GPU
  PROVE  /\ g \in S /\ Exceeds(read[g]["power"], limit)
               => EnforcedOn(S, read, hw, limit)[g]["power"] = limit
         /\ g \notin S \/ ~Exceeds(read[g]["power"], limit)
               => EnforcedOn(S, read, hw, limit)[g]["power"] = hw[g]["power"]
<1>1. EnforcedOn(S, read, hw, limit)[g]
        = IF g \in S /\ Exceeds(read[g]["power"], limit)
            THEN [hw[g] EXCEPT !["power"] = limit] ELSE hw[g]
  BY DEF EnforcedOn
<1>2. hw[g] \in [Control -> Nat] /\ "power" \in Control
  BY DEF Tuned, Control
<1> QED BY <1>1, <1>2

LEMMA EnforcedBelow ==
  ASSUME NEW hw \in Tuned, NEW limit \in Nat, NEW g \in GPU
  PROVE  /\ Enforced(hw, limit) \in Tuned
         /\ ~Exceeds(Enforced(hw, limit)[g]["power"], limit)
<1>1. /\ Exceeds(hw[g]["power"], limit) => Enforced(hw, limit)[g]["power"] = limit
      /\ ~Exceeds(hw[g]["power"], limit) => Enforced(hw, limit)[g]["power"] = hw[g]["power"]
  BY EnforcedPower DEF Enforced
<1>2. Enforced(hw, limit) \in Tuned
  BY EnforcedType DEF Enforced
<1> QED BY <1>1, <1>2 DEF Exceeds

LEMMA HalfEnforcedType ==
  ASSUME NEW read, NEW hw \in Tuned, NEW limit \in Nat, NEW x \in HalfEnforced(read, hw, limit)
  PROVE  x \in Tuned
<1>1. PICK S : x = EnforcedOn(S, read, hw, limit)
  BY DEF HalfEnforced
<1> QED BY <1>1, EnforcedType

LEMMA PowerType == ASSUME NEW hw \in Tuned, NEW g \in GPU PROVE hw[g]["power"] \in Nat
BY DEF Tuned, Control

LEMMA LooserCeiling ==
  ASSUME NEW a \in Nat, NEW b \in Nat, Looser(a, b) # 0
  PROVE  /\ Looser(a, b) \in Nat /\ a # 0 /\ b # 0
         /\ a <= Looser(a, b) /\ b <= Looser(a, b)
<1>1. \E x \in {a, b} : \A y \in {a, b} : x >= y
  OBVIOUS
<1>2. Max({a, b}) \in {a, b} /\ \A y \in {a, b} : Max({a, b}) >= y
  BY <1>1 DEF Max
<1> QED BY <1>2 DEF Looser

-----------------------------------------------------------------------------
(* The invariant. *)

\* A smart tune respects the ceiling it started under.
TuneBounded ==
  tune.active /\ conf.limit # 0 =>
    \A g \in GPU : tune.start[g] <= conf.limit /\ tune.original[g] <= conf.limit

Inv == TypeOK /\ CeilingHolds /\ TuneBounded

\* What a step has to show for CeilingHolds.
Below(g) == ~Exceeds(tuned[g]["power"], Looser(conf.limit, tried))

LEMMA NoTuneType ==
  /\ NoTune \in [active : BOOLEAN, start : [GPU -> Nat], original : [GPU -> Nat]]
  /\ ~NoTune.active
  /\ \A g \in GPU : NoTune.start[g] <= Maximum[g]
<1>1. \A g \in GPU : Maximum[g] \in Nat /\ NoTune.start[g] = 0
  BY DEF NoTune
<1> QED BY <1>1 DEF NoTune

LEMMA Init_Inv == Init => Inv
<1> SUFFICES ASSUME Init PROVE Inv
  OBVIOUS
<1>1. Blank \in Configuration
  BY DEF Blank, Configuration
<1>2. NoTune \in [active : BOOLEAN, start : [GPU -> Nat], original : [GPU -> Nat]]
        /\ \A g \in GPU : NoTune.start[g] <= Maximum[g]
  BY NoTuneType
<1>3. TypeOK
  <2>1. MaxFaults \in Nat /\ MaxRestarts \in Nat /\ MaxMeddling \in Nat
    OBVIOUS
  <2>2. told \in [revision : Nat, c : Configuration]
    BY <1>1 DEF Init
  <2>3. /\ conf \in Configuration /\ applied \in Nat /\ tried \in Nat
        /\ tuned \in Tuned /\ foreign \subseteq GPU /\ running \in BOOLEAN
    BY <1>1 DEF Init
  <2>4. /\ tune \in [active : BOOLEAN, start : [GPU -> Nat], original : [GPU -> Nat]]
        /\ \A g \in GPU : tune.start[g] <= Maximum[g]
    BY <1>2 DEF Init
  <2>5. faults \in 0 .. MaxFaults /\ restarts \in 0 .. MaxRestarts /\ meddling \in 0 .. MaxMeddling
    BY <2>1 DEF Init
  <2> QED BY <2>2, <2>3, <2>4, <2>5 DEF TypeOK
<1>4. CeilingHolds /\ TuneBounded
  BY DEF Init, CeilingHolds, TuneBounded, NoTune
<1> QED BY <1>3, <1>4 DEF Inv

\* A step of the agent that leaves the tuner alone.
LEMMA Kept_Inv ==
  ASSUME Inv, UNCHANGED << told, tune, restarts, meddling >>, Touch,
         conf' \in Configuration, applied' \in Nat, tried' \in Nat,
         tune.active => conf' = conf,
         tuned' \in Tuned, running' \in BOOLEAN, faults' \in 0 .. MaxFaults,
         running' => \A g \in GPU : Below(g)'
  PROVE  Inv'
<1>1. TypeOK'
  BY DEF Inv, TypeOK, Touch
<1>2. CeilingHolds'
  BY DEF CeilingHolds, Below
<1>3. TuneBounded'
  BY DEF Inv, TuneBounded
<1> QED BY <1>1, <1>2, <1>3 DEF Inv

LEMMA FaultyType ==
  ASSUME Inv, NEW n \in Nat, Faulty(n)
  PROVE  faults' \in 0 .. MaxFaults
BY DEF Inv, TypeOK, Faulty

\* The configurations in play and their profiles.
LEMMA Known ==
  ASSUME Inv
  PROVE  /\ told.c \in Configuration /\ told.revision \in Nat /\ conf \in Configuration
         /\ told.c.limit \in Nat /\ conf.limit \in Nat /\ tuned \in Tuned
         /\ Effective(conf) \in Profiles /\ Effective(told.c) \in Profiles
         /\ Limits(Effective(conf), conf.limit) /\ Limits(Effective(told.c), told.c.limit)
         /\ Limited \in Tuned
<1>1. told.c \in Configuration /\ told.revision \in Nat /\ conf \in Configuration /\ tuned \in Tuned
  BY DEF Inv, TypeOK
<1>2. told.c.limit \in Nat /\ conf.limit \in Nat
  BY <1>1 DEF Configuration
<1>3. Limited \in Tuned
  BY <1>1, <1>2, EnforcedType DEF Limited, Enforced
<1> QED BY <1>1, <1>2, <1>3, EffectiveLimits

-----------------------------------------------------------------------------
(* Synchronisation. *)

LEMMA SyncCeilingFails_Inv == ASSUME Inv, SyncCeilingFails, Touch PROVE Inv'
<1>1. tuned' \in Tuned
  BY Known, HalfEnforcedType DEF SyncCeilingFails
<1>2. faults' \in 0 .. MaxFaults
  BY FaultyType DEF SyncCeilingFails
<1> QED BY <1>1, <1>2, Known, Kept_Inv DEF SyncCeilingFails, Fetched, Inv, TypeOK

\* Whatever the transition has left, once the ceiling is enforced again.
LEMMA AfterFailure_Inv ==
  ASSUME Inv, Fetched, Touch, UNCHANGED << conf, applied >>,
         NEW hw \in Outcomes(Limited, Effective(conf), Effective(told.c)),
         NEW n \in Nat, AfterFailure(hw, n)
  PROVE  Inv'
<1> DEFINE L == told.c.limit
           m == Looser(conf.limit, L)
<1>0. L \in Nat /\ conf.limit \in Nat /\ tuned \in Tuned /\ Limited \in Tuned
  BY Known
<1>1. hw \in Tuned
  BY Known, OutcomesType
<1>2. tuned' \in Tuned
  BY <1>1, Known, EnforcedType, HalfEnforcedType DEF AfterFailure
<1>3. faults' \in 0 .. MaxFaults
  BY FaultyType DEF AfterFailure
<1>4. running' \in BOOLEAN
  BY DEF AfterFailure, Inv, TypeOK
<1>5. ASSUME running', NEW g \in GPU
      PROVE  Below(g)'
  <2>1. tuned' = EnforcedOn(GPU, tuned, hw, L)
    BY <1>5, <1>4 DEF AfterFailure
  <2>2. conf' = conf /\ tried' = L
    BY DEF Fetched
  <2>3. CASE m = 0
    BY <2>2, <2>3 DEF Below, Exceeds
  <2>4. CASE m # 0
    <3>1. L \in Nat \ {0} /\ m \in Nat /\ L <= m /\ conf.limit <= m /\ conf.limit # 0
      BY <2>4, <1>0, LooserCeiling
    <3>2. Within(Effective(conf), m)
      <4>1. \A i \in DOMAIN Effective(conf) : Effective(conf)[i].value["power"] \in 1 .. conf.limit
        BY <3>1, Known DEF Limits
      <4> HIDE DEF m
      <4> QED BY <1>0, <3>1, <4>1 DEF Within
    <3>3. Limited[g]["power"] <= m
      <4>1. ~Exceeds(Limited[g]["power"], L)
        BY <1>0, EnforcedBelow DEF Limited
      <4>2. Limited[g]["power"] \in Nat
        BY <1>0, PowerType
      <4> HIDE DEF m
      <4> QED BY <3>1, <4>1, <4>2 DEF Exceeds
    <3>4. hw[g]["power"] <= m
      <4> HIDE DEF m
      <4>1. Effective(conf) \in Profiles /\ Effective(told.c) \in Profiles /\ Limits(Effective(told.c), L)
        BY Known
      <4> QED BY <1>0, <3>1, <3>2, <3>3, <4>1, OutcomesWithin
    <3>5. /\ Exceeds(tuned[g]["power"], L) => tuned'[g]["power"] = L
          /\ ~Exceeds(tuned[g]["power"], L) => tuned'[g]["power"] = hw[g]["power"]
      <4> HIDE DEF L
      <4> QED BY <1>0, <1>1, <2>1, EnforcedPower
    <3>6. tuned'[g]["power"] <= m /\ tuned'[g]["power"] \in Nat
      <4> HIDE DEF m
      <4>1. tuned'[g]["power"] \in Nat
        BY <1>2, PowerType
      <4>2. CASE Exceeds(tuned[g]["power"], L)
        BY <3>1, <3>5, <4>1, <4>2
      <4>3. CASE ~Exceeds(tuned[g]["power"], L)
        BY <3>4, <3>5, <4>1, <4>3
      <4> QED BY <4>2, <4>3
    <3>7. Looser(conf'.limit, tried') = m
      BY <2>2
    <3> HIDE DEF m
    <3> QED BY <3>1, <3>6, <3>7 DEF Below, Exceeds
  <2> QED BY <2>3, <2>4
<1> QED BY <1>2, <1>3, <1>4, <1>5, Known, Kept_Inv DEF Fetched, Inv, TypeOK

LEMMA SyncTuning_Inv ==
  ASSUME Inv, SyncTuningFails \/ SyncTuningRestored, Touch PROVE Inv'
<1>1. Fetched /\ UNCHANGED << conf, applied >>
  BY DEF SyncTuningFails, SyncTuningRestored
<1>2. PICK hw \in Outcomes(Limited, Effective(conf), Effective(told.c)), n \in Nat :
        AfterFailure(hw, n)
  BY DEF SyncTuningFails, SyncTuningRestored, Outcomes
<1> QED BY <1>1, <1>2, AfterFailure_Inv

LEMMA SyncStarts_Inv == ASSUME Inv, SyncStarts, Touch PROVE Inv'
<1>1. PICK hw \in Outcomes(Limited, Effective(conf), Effective(told.c)) :
        tuned' = Enforced(hw, told.c.limit)
  BY DEF SyncStarts, Outcomes
<1>2. hw \in Tuned
  BY Known, OutcomesType
<1>3. /\ conf' = told.c /\ applied' = told.revision /\ tried' = told.c.limit
      /\ running' \in BOOLEAN /\ faults' = faults /\ ~tune.active
      /\ UNCHANGED << told, tune, restarts, meddling >>
  BY DEF SyncStarts, Fetched
<1>4. tuned' \in Tuned /\ \A g \in GPU : ~Exceeds(tuned'[g]["power"], told.c.limit)
  BY <1>1, <1>2, Known, EnforcedBelow, GPUAssumption
<1>5. \A g \in GPU : Below(g)'
  <2>1. Looser(told.c.limit, told.c.limit) = 0 \/ Looser(told.c.limit, told.c.limit) = told.c.limit
    BY Known DEF Looser, Max
  <2> QED BY <1>3, <1>4, <2>1 DEF Below, Exceeds
<1> QED BY <1>3, <1>4, <1>5, Known, Kept_Inv DEF Inv, TypeOK

LEMMA SyncStartFails_Inv == ASSUME Inv, SyncStartFails, Touch PROVE Inv'
<1>1. PICK hw \in Outcomes(Limited, Effective(conf), Effective(told.c)) :
        \/ tuned' = Enforced(hw, told.c.limit) /\ running' = FALSE
        \/ tuned' = Enforced(Enforced(hw, told.c.limit), conf.limit) /\ running' = TRUE
        \/ tuned' \in HalfEnforced(hw, hw, conf.limit) /\ running' = FALSE
  BY DEF SyncStartFails, Outcomes
<1>2. hw \in Tuned
  BY Known, OutcomesType
<1>3. /\ conf' = conf /\ applied' = applied /\ tried' = told.c.limit /\ running' \in BOOLEAN
      /\ UNCHANGED << told, tune, restarts, meddling >>
  BY <1>1 DEF SyncStartFails, Fetched
<1>4. faults' \in 0 .. MaxFaults
  BY FaultyType DEF SyncStartFails
<1>5. conf.limit \in Nat /\ told.c.limit \in Nat
  BY Known
<1>6. Enforced(hw, told.c.limit) \in Tuned
  BY <1>2, <1>5, EnforcedType DEF Enforced
<1>7. tuned' \in Tuned
  BY <1>1, <1>2, <1>5, <1>6, EnforcedType, HalfEnforcedType DEF Enforced
<1>8. ASSUME running', NEW g \in GPU PROVE Below(g)'
  <2>1. ~Exceeds(tuned'[g]["power"], conf.limit)
    BY <1>1, <1>5, <1>6, <1>8, EnforcedBelow
  <2>2. tuned'[g]["power"] \in Nat
    BY <1>7, PowerType
  <2>3. Looser(conf.limit, told.c.limit) = 0
          \/ /\ conf.limit # 0 /\ conf.limit <= Looser(conf.limit, told.c.limit)
             /\ Looser(conf.limit, told.c.limit) \in Nat
    BY <1>5, LooserCeiling
  <2> QED BY <1>3, <1>5, <2>1, <2>2, <2>3 DEF Below, Exceeds
<1>9. conf' \in Configuration /\ applied' \in Nat /\ tried' \in Nat
  BY <1>3, <1>5 DEF Inv, TypeOK
<1>10. running' => \A g \in GPU : Below(g)'
  BY <1>8
<1> QED BY <1>3, <1>4, <1>7, <1>9, <1>10, Kept_Inv

LEMMA Synchronise_Inv == ASSUME Inv, Synchronise PROVE Inv'
BY SyncCeilingFails_Inv, SyncTuning_Inv, SyncStarts_Inv, SyncStartFails_Inv DEF Synchronise

-----------------------------------------------------------------------------
(* The rest of the agent. *)

\* Enforcing the applied ceiling is enough, whatever the one last tried.
LEMMA AppliedCeiling ==
  ASSUME Inv, tuned' = Enforced(tuned, conf.limit), UNCHANGED << conf, tried >>,
         NEW g \in GPU
  PROVE  tuned' \in Tuned /\ Below(g)'
<1>1. conf.limit \in Nat /\ tuned \in Tuned /\ tried \in Nat
  BY Known DEF Inv, TypeOK
<1>2. tuned' \in Tuned /\ ~Exceeds(tuned'[g]["power"], conf.limit)
  BY <1>1, EnforcedBelow
<1>3. tuned'[g]["power"] \in Nat
  BY <1>2, PowerType
<1>4. Looser(conf.limit, tried) = 0
        \/ /\ conf.limit # 0 /\ conf.limit <= Looser(conf.limit, tried)
           /\ Looser(conf.limit, tried) \in Nat
  BY <1>1, LooserCeiling
<1> QED BY <1>1, <1>2, <1>3, <1>4 DEF Below, Exceeds

LEMMA StartMiner_Inv == ASSUME Inv, StartMiner PROVE Inv'
<1>1. /\ UNCHANGED << told, conf, applied, tried, tune, restarts, meddling >> /\ Touch
      /\ running' \in BOOLEAN
  BY DEF StartMiner
<1>2. faults' \in 0 .. MaxFaults
  BY FaultyType DEF StartMiner, Inv, TypeOK
<1>3. \/ tuned' = Enforced(tuned, conf.limit)
      \/ tuned' \in HalfEnforced(tuned, tuned, conf.limit) /\ running' = FALSE
  BY DEF StartMiner
<1>4. tuned' \in Tuned
  BY <1>3, Known, EnforcedType, HalfEnforcedType DEF Enforced
<1>5. running' => \A g \in GPU : Below(g)'
  BY <1>1, <1>3, AppliedCeiling
<1> QED BY <1>1, <1>2, <1>4, <1>5, Kept_Inv DEF Inv, TypeOK

LEMMA Heartbeat_Inv == ASSUME Inv, Heartbeat PROVE Inv'
<1>1. /\ UNCHANGED << told, conf, applied, tried, tune, restarts, meddling >> /\ Touch
      /\ running' \in BOOLEAN
  BY DEF Heartbeat, Inv, TypeOK
<1>2. faults' \in 0 .. MaxFaults
  BY FaultyType DEF Heartbeat, Inv, TypeOK
<1>3. \/ tuned' = Enforced(tuned, conf.limit)
      \/ tuned' \in HalfEnforced(tuned, tuned, conf.limit) /\ running' = FALSE
  BY DEF Heartbeat
<1>4. tuned' \in Tuned
  BY <1>3, Known, EnforcedType, HalfEnforcedType DEF Enforced
<1>5. running' => \A g \in GPU : Below(g)'
  BY <1>1, <1>3, AppliedCeiling
<1> QED BY <1>1, <1>2, <1>4, <1>5, Kept_Inv DEF Inv, TypeOK

LEMMA StopMiner_Inv == ASSUME Inv, StopMiner PROVE Inv'
BY DEF StopMiner, Inv, TypeOK, CeilingHolds, TuneBounded, Tuned

LEMMA AgentRestarts_Inv == ASSUME Inv, AgentRestarts PROVE Inv'
<1>1. /\ Blank \in Configuration
      /\ told' = told /\ conf' = Blank /\ applied' = 0 /\ tried' = 0 /\ running' = FALSE
      /\ tune' = NoTune /\ tuned' \in {tuned, Factory} /\ faults' = faults
      /\ restarts' \in 0 .. MaxRestarts /\ meddling' = meddling
  BY DEF AgentRestarts, Blank, Configuration, Inv, TypeOK
<1>2. foreign' \subseteq GPU
  BY DEF AgentRestarts, Touch, Inv, TypeOK
<1>3. TypeOK'
  BY <1>1, <1>2, NoTuneType DEF Inv, TypeOK
<1>4. CeilingHolds' /\ TuneBounded'
  BY <1>1, NoTuneType DEF CeilingHolds, TuneBounded
<1> QED BY <1>3, <1>4 DEF Inv

-----------------------------------------------------------------------------
(* The smart tuner. *)

LEMMA CappedBelow ==
  ASSUME NEW w \in Nat, NEW limit \in Nat \ {0}
  PROVE  Capped(w, limit) \in Nat \ {0} /\ Capped(w, limit) <= limit
BY DEF Capped

LEMMA StartLimitBelow ==
  ASSUME NEW w \in Nat, NEW g \in GPU
  PROVE  /\ StartLimit(g, w) \in Nat /\ StartLimit(g, w) <= Maximum[g]
         /\ w # 0 => StartLimit(g, w) <= w
<1>1. Maximum[g] \in Nat
  OBVIOUS
<1> QED BY <1>1, MinOfTwo DEF StartLimit

\* A tune's limits are numbers and respect both the driver and the ceiling.
LEMMA TuningType ==
  ASSUME Inv, NEW w \in Nat
  PROVE  /\ Tuning(w) \in [active : {TRUE}, start : [GPU -> Nat], original : [GPU -> Nat]]
         /\ \A g \in GPU : Tuning(w).start[g] <= Maximum[g]
         /\ conf.limit # 0 =>
              \A g \in GPU : /\ Tuning(w).start[g] <= conf.limit
                             /\ Tuning(w).original[g] <= conf.limit
<1> DEFINE request == IF conf.limit = 0 THEN w ELSE Capped(w, conf.limit)
           original(g) == IF conf.limit = 0 THEN tuned[g]["power"]
                          ELSE Min({tuned[g]["power"], conf.limit})
<1>1. conf.limit \in Nat /\ tuned \in Tuned
  BY Known
<1>2. request \in Nat /\ (conf.limit # 0 => request # 0 /\ request <= conf.limit)
  BY <1>1, CappedBelow
<1>3. ASSUME NEW g \in GPU
      PROVE  /\ StartLimit(g, request) \in Nat /\ StartLimit(g, request) <= Maximum[g]
             /\ conf.limit # 0 => StartLimit(g, request) <= conf.limit
  <2>1. Maximum[g] \in Nat
    OBVIOUS
  <2> HIDE DEF request
  <2> QED BY <1>1, <1>2, <2>1, StartLimitBelow
<1>4. ASSUME NEW g \in GPU
      PROVE  original(g) \in Nat /\ (conf.limit # 0 => original(g) <= conf.limit)
  BY <1>1, PowerType, MinOfTwo
<1>5. Tuning(w) = [active |-> TRUE, start |-> [g \in GPU |-> StartLimit(g, request)],
                   original |-> [g \in GPU |-> original(g)]]
  BY DEF Tuning
<1> HIDE DEF request, original
<1> QED BY <1>3, <1>4, <1>5

LEMMA WithPowerType ==
  ASSUME NEW hw \in Tuned, NEW S, NEW limits \in [GPU -> Nat]
  PROVE  WithPower(hw, S, limits) \in Tuned
BY DEF WithPower, Tuned, Control

LEMMA WithPowerSets ==
  ASSUME NEW hw \in Tuned, NEW S, NEW limits \in [GPU -> Nat], NEW g \in GPU
  PROVE  /\ g \in S => WithPower(hw, S, limits)[g]["power"] = limits[g]
         /\ g \notin S => WithPower(hw, S, limits)[g] = hw[g]
<1>1. WithPower(hw, S, limits)[g]
        = IF g \in S THEN [hw[g] EXCEPT !["power"] = limits[g]] ELSE hw[g]
  BY DEF WithPower
<1>2. hw[g] \in [Control -> Nat] /\ "power" \in Control
  BY DEF Tuned, Control
<1> QED BY <1>1, <1>2

\* What a step of the tuner has to show: the limits it sets respect the
\* applied ceiling, and it leaves the others as they are.
LEMMA Tuner_Inv ==
  ASSUME Inv, TuneKeeps, tuned' \in Tuned, TypeOK', TuneBounded',
         \A g \in GPU : \/ tuned'[g] = tuned[g]
                        \/ conf.limit # 0 => tuned'[g]["power"] <= conf.limit
  PROVE  Inv'
<1>1. /\ conf' = conf /\ tried' = tried /\ running' = running
      /\ conf.limit \in Nat /\ tried \in Nat
      /\ foreign' = {g \in foreign : tuned'[g]["power"] = tuned[g]["power"]}
  BY Known DEF TuneKeeps, Touch, Inv, TypeOK
<1>2. ASSUME running', NEW g \in GPU \ foreign'
      PROVE  Below(g)'
  <2>1. CASE tuned'[g] = tuned[g]
    <3>1. g \notin foreign
      BY <1>1, <1>2, <2>1
    <3> QED BY <1>1, <1>2, <2>1, <3>1 DEF Inv, CeilingHolds, Below
  <2>2. CASE conf.limit # 0 => tuned'[g]["power"] <= conf.limit
    <3>1. tuned'[g]["power"] \in Nat
      BY PowerType
    <3>2. \/ Looser(conf.limit, tried) = 0
          \/ /\ conf.limit # 0 /\ conf.limit <= Looser(conf.limit, tried)
             /\ Looser(conf.limit, tried) \in Nat
      BY <1>1, LooserCeiling
    <3> QED BY <1>1, <2>2, <3>1, <3>2 DEF Below, Exceeds
  <2> QED BY <2>1, <2>2
<1>3. CeilingHolds'
  BY <1>2 DEF CeilingHolds, Below
<1> QED BY <1>3 DEF Inv

LEMMA TunerType ==
  ASSUME Inv, TuneKeeps, tuned' \in Tuned, faults' \in 0 .. MaxFaults,
         tune' \in [active : BOOLEAN, start : [GPU -> Nat], original : [GPU -> Nat]],
         \A g \in GPU : tune'.start[g] <= Maximum[g]
  PROVE  TypeOK'
BY DEF TuneKeeps, Touch, Inv, TypeOK

LEMMA TuneStarts_Inv ==
  ASSUME Inv, NEW w \in Nat, TuneStarts(w) PROVE Inv'
<1>1. /\ tune' = Tuning(w) /\ tuned' = WithPower(tuned, GPU, Tuning(w).start)
      /\ TuneKeeps /\ faults' = faults /\ conf' = conf
  BY DEF TuneStarts, TuneKeeps
<1>2. Tuning(w).start \in [GPU -> Nat] /\ tuned \in Tuned
  BY TuningType, Known
<1>3. tuned' \in Tuned
  BY <1>1, <1>2, WithPowerType
<1>4. TypeOK'
  BY <1>1, <1>3, TuningType, TunerType DEF Inv, TypeOK
<1>5. TuneBounded'
  BY <1>1, TuningType DEF TuneBounded
<1>6. ASSUME NEW g \in GPU
      PROVE  conf.limit # 0 => tuned'[g]["power"] <= conf.limit
  <2>1. WithPower(tuned, GPU, Tuning(w).start)[g]["power"] = Tuning(w).start[g]
    BY <1>2, WithPowerSets
  <2>2. conf.limit # 0 => Tuning(w).start[g] <= conf.limit
    BY TuningType
  <2> QED BY <1>1, <2>1, <2>2
<1> QED BY <1>1, <1>3, <1>4, <1>5, <1>6, Tuner_Inv

LEMMA TuneRefused_Inv ==
  ASSUME Inv, NEW w \in Nat, NEW g \in GPU, NEW R \in SUBSET GPU, TuneRefused(w, g, R)
  PROVE  Inv'
<1> DEFINE S == {h \in GPU : h < g}
           begun == WithPower(tuned, S, Tuning(w).start)
<1>1. /\ tune' = tune /\ tuned' = WithPower(begun, R, Tuning(w).original)
      /\ TuneKeeps /\ conf' = conf
  BY DEF TuneRefused, TuneKeeps
<1>2. faults' \in 0 .. MaxFaults
  BY FaultyType DEF TuneRefused
<1>3. Tuning(w).start \in [GPU -> Nat] /\ Tuning(w).original \in [GPU -> Nat] /\ tuned \in Tuned
  BY TuningType, Known
<1>4. begun \in Tuned
  BY <1>3, WithPowerType
<1>5. tuned' \in Tuned
  BY <1>1, <1>3, <1>4, WithPowerType
<1>6. TypeOK'
  BY <1>1, <1>2, <1>5, TunerType DEF Inv, TypeOK
<1>7. TuneBounded'
  BY <1>1 DEF Inv, TuneBounded
<1>8. ASSUME NEW h \in GPU
      PROVE  \/ tuned'[h] = tuned[h]
             \/ conf.limit # 0 => tuned'[h]["power"] <= conf.limit
  <2>1. CASE h \in R
    <3> HIDE DEF begun
    <3>1. tuned'[h]["power"] = Tuning(w).original[h]
      BY <1>1, <1>3, <1>4, <2>1, WithPowerSets
    <3> QED BY <3>1, TuningType
  <2>2. CASE h \notin R
    <3>1. /\ h \in S => begun[h]["power"] = Tuning(w).start[h]
          /\ h \notin S => begun[h] = tuned[h]
      <4> HIDE DEF S
      <4> QED BY <1>3, WithPowerSets
    <3> HIDE DEF S, begun
    <3>2. tuned'[h] = begun[h]
      BY <1>1, <1>3, <1>4, <2>2, WithPowerSets
    <3>3. conf.limit # 0 => Tuning(w).start[h] <= conf.limit
      BY TuningType
    <3>4. CASE h \in S
      BY <3>1, <3>2, <3>3, <3>4
    <3> QED BY <3>1, <3>2, <3>4
  <2> QED BY <2>1, <2>2
<1> QED BY <1>1, <1>5, <1>6, <1>7, <1>8, Tuner_Inv

LEMMA TuneTries_Inv ==
  ASSUME Inv, NEW g \in GPU, NEW w \in Nat, TuneTries(g, w) PROVE Inv'
<1> DEFINE limits == [h \in GPU |-> w]
<1>1. /\ tune' = tune /\ tuned' = WithPower(tuned, {g}, limits) /\ tune.active
      /\ TuneKeeps /\ faults' = faults /\ conf' = conf /\ w <= tune.start[g]
  BY DEF TuneTries, TuneKeeps
<1>2. limits \in [GPU -> Nat] /\ tuned \in Tuned
  BY Known
<1>3. tuned' \in Tuned
  BY <1>1, <1>2, WithPowerType
<1>4. TypeOK'
  BY <1>1, <1>3, TunerType DEF Inv, TypeOK
<1>5. TuneBounded'
  BY <1>1 DEF Inv, TuneBounded
<1>6. tune.start[g] \in Nat /\ conf.limit \in Nat
  BY Known DEF Inv, TypeOK
<1>7. ASSUME NEW h \in GPU
      PROVE  \/ tuned'[h] = tuned[h]
             \/ conf.limit # 0 => tuned'[h]["power"] <= conf.limit
  <2>1. CASE h = g
    <3>1. tuned'[h]["power"] = w
      BY <1>1, <1>2, <2>1, WithPowerSets
    <3>2. conf.limit # 0 => tune.start[g] <= conf.limit
      BY <1>1 DEF Inv, TuneBounded
    <3> QED BY <1>1, <1>6, <3>1, <3>2
  <2>2. CASE h # g
    BY <1>1, <1>2, <2>2, WithPowerSets
  <2> QED BY <2>1, <2>2
<1> QED BY <1>1, <1>3, <1>4, <1>5, <1>7, Tuner_Inv

LEMMA TuneSucceeds_Inv == ASSUME Inv, TuneSucceeds PROVE Inv'
<1>1. tune' = NoTune /\ tuned' = tuned /\ TuneKeeps /\ faults' = faults
  BY DEF TuneSucceeds
<1>2. TypeOK'
  BY <1>1, NoTuneType, TunerType DEF Inv, TypeOK
<1>3. TuneBounded'
  BY <1>1, NoTuneType DEF TuneBounded
<1> QED BY <1>1, <1>2, <1>3, Known, Tuner_Inv

LEMMA TuneFails_Inv ==
  ASSUME Inv, NEW R \in SUBSET GPU, TuneFails(R) PROVE Inv'
<1>1. tune' = NoTune /\ tuned' = WithPower(tuned, R, tune.original) /\ TuneKeeps /\ tune.active
  BY DEF TuneFails
<1>2. faults' \in 0 .. MaxFaults
  BY FaultyType DEF TuneFails
<1>3. tune.original \in [GPU -> Nat] /\ tuned \in Tuned
  BY Known DEF Inv, TypeOK
<1>4. tuned' \in Tuned
  BY <1>1, <1>3, WithPowerType
<1>5. TypeOK'
  BY <1>1, <1>2, <1>4, NoTuneType, TunerType DEF Inv, TypeOK
<1>6. TuneBounded'
  BY <1>1, NoTuneType DEF TuneBounded
<1>7. \A h \in GPU : \/ tuned'[h] = tuned[h]
                     \/ conf.limit # 0 => tuned'[h]["power"] <= conf.limit
  <2>1. TAKE h \in GPU
  <2>2. conf.limit # 0 => tune.original[h] <= conf.limit
    BY <1>1 DEF Inv, TuneBounded
  <2>3. CASE h \in R
    <3>1. WithPower(tuned, R, tune.original)[h]["power"] = tune.original[h]
      BY <1>3, <2>3, WithPowerSets
    <3> QED BY <1>1, <2>2, <3>1
  <2>4. CASE h \notin R
    BY <1>1, <1>3, <2>4, WithPowerSets
  <2> QED BY <2>3, <2>4
<1> QED BY <1>1, <1>4, <1>5, <1>6, <1>7, Tuner_Inv

-----------------------------------------------------------------------------
(* The operator and the world. *)

LEMMA Reconfigure_Inv ==
  ASSUME Inv, NEW c \in Config, Reconfigure(c) PROVE Inv'
BY DEF Reconfigure, Inv, TypeOK, CeilingHolds, TuneBounded

LEMMA Meddle_Inv ==
  ASSUME Inv, NEW g \in GPU, NEW w \in Nat, Meddle(g, w) PROVE Inv'
<1> DEFINE limits == [h \in GPU |-> w]
<1>1. /\ tuned' = WithPower(tuned, {g}, limits) /\ foreign' = foreign \cup {g}
      /\ meddling' \in 0 .. MaxMeddling
      /\ UNCHANGED << told, conf, applied, tried, running, tune, faults, restarts >>
  BY DEF Meddle, Inv, TypeOK
<1>2. limits \in [GPU -> Nat] /\ tuned \in Tuned
  BY Known
<1>3. tuned' \in Tuned
  BY <1>1, <1>2, WithPowerType
<1>4. TypeOK'
  BY <1>1, <1>3 DEF Inv, TypeOK
<1>5. \A h \in GPU \ foreign' : tuned'[h] = tuned[h]
  BY <1>1, <1>2, WithPowerSets
<1>6. CeilingHolds'
  BY <1>1, <1>5 DEF Inv, CeilingHolds
<1>7. TuneBounded'
  BY <1>1 DEF Inv, TuneBounded
<1> QED BY <1>4, <1>6, <1>7 DEF Inv

-----------------------------------------------------------------------------
(* The theorems. *)

LEMMA Next_Inv == Inv /\ [Next]_vars => Inv'
<1> SUFFICES ASSUME Inv, [Next]_vars PROVE Inv'
  OBVIOUS
<1>1. CASE Synchronise
  BY <1>1, Synchronise_Inv
<1>2. CASE StartMiner \/ StopMiner \/ Heartbeat \/ AgentRestarts
  BY <1>2, StartMiner_Inv, StopMiner_Inv, Heartbeat_Inv, AgentRestarts_Inv
<1>3. CASE Tuner
  <2>1. \A g \in GPU : tune.start[g] \in Nat
    BY DEF Inv, TypeOK
  <2>2. Watts \subseteq Nat
    OBVIOUS
  <2> QED BY <1>3, <2>1, <2>2, TuneStarts_Inv, TuneRefused_Inv, TuneTries_Inv,
             TuneSucceeds_Inv, TuneFails_Inv DEF Tuner
<1>4. CASE World
  BY <1>4, Reconfigure_Inv, Meddle_Inv DEF World
<1>5. CASE UNCHANGED vars
  BY <1>5 DEF vars, Inv, TypeOK, CeilingHolds, TuneBounded
<1> QED BY <1>1, <1>2, <1>3, <1>4, <1>5 DEF Next

\* The invariant, whatever the bounds: the ceiling of every moment holds.
THEOREM Invariance == Spec => []Inv
<1>1. Init => Inv
  BY Init_Inv
<1>2. Inv /\ [Next]_vars => Inv'
  BY Next_Inv
<1> QED BY <1>1, <1>2, PTL DEF Spec

\* Every variable keeps to its values, and no tune starts above what the
\* driver allows (smartTunePowerCeiling).
THEOREM TypeCorrect == Spec => []TypeOK
<1>1. Inv => TypeOK
  BY DEF Inv
<1> QED BY <1>1, Invariance, PTL

\* While a miner runs, no GPU is above the controller's power ceiling by
\* anything the agent did (enforceGPUPowerLimit, applyGPUPowerPolicyToProfile
\* and the smart tuner together).
THEOREM CeilingIsKept == Spec => []CeilingHolds
<1>1. Inv => CeilingHolds
  BY DEF Inv
<1> QED BY <1>1, Invariance, PTL

-----------------------------------------------------------------------------
(* A tuned rig stays tuned exactly when its profile changes. *)

\* The settings of a profile that say something of a control of a GPU.
Saying(p, g, c) == {i \in DOMAIN p : Sets(p[i], g, c)}

\* A profile applied to its end: the last setting that says something counts.
LEMMA AppliedToEnd ==
  ASSUME NEW hw \in Tuned, NEW p \in Profiles, NEW g \in GPU, NEW c \in Control
  PROVE  AllApplied(hw, p)[g][c]
           = IF Saying(p, g, c) = {} THEN hw[g][c] ELSE p[Max(Saying(p, g, c))].value[c]
<1> DEFINE W == {i \in DOMAIN p : Sets(p[i], g, c) /\ Before(<< i, g, ApplyRank[c] >>, End(p))}
<1>1. Applied(hw, p, End(p))[g][c] = IF W = {} THEN hw[g][c] ELSE p[Max(W)].value[c]
  BY DEF Applied
<1>2. \A i \in DOMAIN p : i < Len(p) + 1
  BY DEF Profiles
<1>3. \A i \in DOMAIN p : Before(<< i, g, ApplyRank[c] >>, End(p))
  BY <1>2 DEF Before, End
<1>4. W = Saying(p, g, c)
  BY <1>3 DEF Saying
<1> QED BY <1>1, <1>4 DEF AllApplied

\* What the next profile says nothing of is reset where the previous one said
\* something: no setting that replaces a removed one is without effect.
LEMMA ResetToEnd ==
  ASSUME NEW hw \in Tuned, NEW p \in Profiles, NEW q \in Profiles,
         NEW g \in GPU, NEW c \in Control,
         Saying(q, g, c) = {}, Saying(p, g, c) # {}
  PROVE  AllReset(hw, p, q)[g][c] = Factory[g][c]
<1>1. PICK i \in DOMAIN p : Sets(p[i], g, c)
  BY DEF Saying
<1> DEFINE same == {j \in DOMAIN q : q[j].selector = p[i].selector}
<1>2. Covers(p[i], g) /\ p[i].value[c] # 0
  BY <1>1 DEF Sets
<1>3. \A j \in DOMAIN q : Covers(q[j], g) => q[j].value[c] = 0
  BY DEF Saying, Sets
<1>4. ~Replaced(q, p[i].selector, c)
  <2>1. CASE same # {}
    <3>1. same \in SUBSET Nat
      BY DEF Profiles
    <3>2. Min(same) \in same
      BY <2>1, <3>1, MinOfPositions
    <3>3. Min(same) \in DOMAIN q /\ Covers(q[Min(same)], g)
      BY <1>2, <3>2 DEF Covers
    <3>4. q[Min(same)].value[c] = 0
      BY <1>3, <3>3
    <3> QED BY <2>1, <3>4 DEF Replaced
  <2>2. CASE same = {}
    <3>1. ASSUME NEW j \in DOMAIN q, q[j].selector = All PROVE ~(q[j].value[c] > 0)
      <4>1. Covers(q[j], g)
        BY <3>1 DEF Covers
      <4> QED BY <1>3, <4>1
    <3> QED BY <2>2, <3>1 DEF Replaced
  <2> QED BY <2>1, <2>2
<1>5. Removes(p[i], q, c)
  BY <1>2, <1>4 DEF Removes
<1>6. i < Len(p) + 1
  BY DEF Profiles
<1>7. Before(<< i, g, ResetRank[c] >>, End(p))
  BY <1>6 DEF Before, End
<1> HIDE DEF same
<1>8. Reset(hw, p, q, End(p))[g][c] = Factory[g][c]
  BY <1>2, <1>5, <1>7 DEF Reset
<1> QED BY <1>8 DEF AllReset

\* What neither profile says anything of is left alone.
LEMMA ResetElsewhere ==
  ASSUME NEW hw \in Tuned, NEW p, NEW q, NEW g \in GPU, NEW c \in Control,
         hw[g][c] = Factory[g][c]
  PROVE  AllReset(hw, p, q)[g][c] = Factory[g][c]
BY DEF AllReset, Reset

\* Under a ceiling every profile says what the power limit of a GPU is, and
\* the ceiling has nothing left to enforce on hardware tuned as it says.
LEMMA PowerSaid ==
  ASSUME NEW q \in Profiles, NEW limit \in Nat \ {0}, Limits(q, limit), NEW g \in GPU
  PROVE  /\ Saying(q, g, "power") # {}
         /\ \A hw \in Tuned : AllApplied(hw, q)[g]["power"] <= limit
<1>1. PICK i \in DOMAIN q : q[i].selector = All
  BY DEF Limits
<1>2. q[i].value["power"] # 0
  BY DEF Limits
<1>3. i \in Saying(q, g, "power")
  BY <1>1, <1>2 DEF Saying, Sets, Covers
<1> DEFINE W == Saying(q, g, "power")
<1>4. Len(q) \in Nat /\ W \in SUBSET (1 .. Len(q)) /\ W # {}
  BY <1>3 DEF Profiles, Saying
<1>5. Max(W) \in DOMAIN q
  <2> HIDE DEF W
  <2>1. Max(W) \in 1 .. Len(q)
    BY <1>4, MaxOfPositions
  <2> QED BY <2>1 DEF Profiles
<1>6. q[Max(W)].value["power"] <= limit
  <2> HIDE DEF W
  <2> QED BY <1>5 DEF Limits
<1>7. "power" \in Control
  BY DEF Control
<1>8. \A hw \in Tuned : AllApplied(hw, q)[g]["power"] = q[Max(W)].value["power"]
  BY <1>4, <1>7, AppliedToEnd
<1> QED BY <1>4, <1>6, <1>8

LEMMA NothingToEnforce ==
  ASSUME NEW hw \in Tuned, NEW limit \in Nat,
         \A g \in GPU : ~Exceeds(hw[g]["power"], limit)
  PROVE  Enforced(hw, limit) = hw
BY DEF Enforced, EnforcedOn, Tuned

LEMMA SameFunction ==
  ASSUME NEW X, NEW Y, NEW a \in [X -> Y], NEW b \in [X -> Y], \A x \in X : a[x] = b[x]
  PROVE  a = b
OBVIOUS

LEMMA SameHardware ==
  ASSUME NEW a \in Tuned, NEW b \in Tuned, \A g \in GPU, c \in Control : a[g][c] = b[g][c]
  PROVE  a = b
<1>1. a \in [GPU -> [Control -> Nat]] /\ b \in [GPU -> [Control -> Nat]]
  BY DEF Tuned
<1>2. ASSUME NEW g \in GPU PROVE a[g] = b[g]
  <2>1. a[g] \in [Control -> Nat] /\ b[g] \in [Control -> Nat]
    BY <1>1
  <2> QED BY <2>1, SameFunction
<1>3. \A f, h \in [GPU -> [Control -> Nat]] : (\A g \in GPU : f[g] = h[g]) => f = h
  BY SameFunction
<1> QED BY <1>1, <1>2, <1>3, Zenon

\* The reset and the replacement profile together leave what that profile
\* intends, if nothing but the previous profile had changed a control.
LEMMA ReplacementExact ==
  ASSUME NEW hw \in Tuned, NEW p \in Profiles, NEW q \in Profiles,
         \A g \in GPU, c \in Control :
           Saying(q, g, c) = {} /\ Saying(p, g, c) = {} => hw[g][c] = Factory[g][c]
  PROVE  AllApplied(AllReset(hw, p, q), q) = Intended(q)
<1>1. AllReset(hw, p, q) \in Tuned
  BY ResetType DEF AllReset
<1>2. AllApplied(AllReset(hw, p, q), q) \in Tuned /\ Intended(q) \in Tuned
  BY <1>1, AppliedType DEF AllApplied, Intended
<1>3. ASSUME NEW g \in GPU, NEW c \in Control
      PROVE  AllApplied(AllReset(hw, p, q), q)[g][c] = Intended(q)[g][c]
  <2>1. Saying(q, g, c) = {} => AllReset(hw, p, q)[g][c] = Factory[g][c]
    <3> SUFFICES ASSUME Saying(q, g, c) = {}
                 PROVE  AllReset(hw, p, q)[g][c] = Factory[g][c]
      OBVIOUS
    <3>1. CASE Saying(p, g, c) # {}
      BY ONLY <3>1, ResetToEnd, hw \in Tuned, p \in Profiles, q \in Profiles, g \in GPU,
         c \in Control, Saying(q, g, c) = {}
    <3>2. CASE Saying(p, g, c) = {}
      <4>1. hw[g][c] = Factory[g][c]
        BY <3>2
      <4> QED
        BY ONLY <4>1, ResetElsewhere, hw \in Tuned, g \in GPU, c \in Control
    <3> QED BY <3>1, <3>2
  <2>2. AllApplied(AllReset(hw, p, q), q)[g][c]
          = IF Saying(q, g, c) = {} THEN AllReset(hw, p, q)[g][c]
            ELSE q[Max(Saying(q, g, c))].value[c]
    BY ONLY <1>1, AppliedToEnd, q \in Profiles, g \in GPU, c \in Control
  <2>3. Intended(q)[g][c]
          = IF Saying(q, g, c) = {} THEN Factory[g][c] ELSE q[Max(Saying(q, g, c))].value[c]
    <3>1. Factory \in Tuned
      OBVIOUS
    <3>2. AllApplied(Factory, q)[g][c]
            = IF Saying(q, g, c) = {} THEN Factory[g][c] ELSE q[Max(Saying(q, g, c))].value[c]
      BY ONLY <3>1, AppliedToEnd, q \in Profiles, g \in GPU, c \in Control
    <3> QED BY <3>2 DEF Intended
  <2> QED BY <2>1, <2>2, <2>3
<1> QED BY <1>2, <1>3, SameHardware

\* What a transition from hardware tuned as its profile says has tuned.
LEMMA TransitionExact ==
  ASSUME NEW p \in Profiles, NEW q \in Profiles, NEW limit \in Nat, Limits(q, limit),
         NEW x \in Transitions(Enforced(Intended(p), limit), p, q)
  PROVE  Enforced(x, limit) = Intended(q)
<1> DEFINE start == Intended(p)
           hw    == Enforced(start, limit)
<1>1. start \in Tuned /\ Intended(q) \in Tuned
  BY AppliedType DEF Intended, AllApplied
<1>2. hw \in Tuned
  BY <1>1, EnforcedType DEF Enforced
<1>3. \A g \in GPU : ~Exceeds(Intended(q)[g]["power"], limit)
  <2> SUFFICES ASSUME NEW g \in GPU, limit # 0 PROVE ~Exceeds(Intended(q)[g]["power"], limit)
    BY DEF Exceeds
  <2>1. Intended(q)[g]["power"] <= limit
    BY PowerSaid DEF Intended
  <2>2. Intended(q)[g]["power"] \in Nat
    BY <1>1, PowerType
  <2> QED BY <2>1, <2>2 DEF Exceeds
<1>4. Enforced(Intended(q), limit) = Intended(q)
  BY <1>1, <1>3, NothingToEnforce
<1>5. CASE x = hw /\ p = q
  BY <1>4, <1>5
<1>6. CASE x = AllApplied(AllReset(hw, p, q), q)
  <2>1. ASSUME NEW g \in GPU, NEW c \in Control, Saying(q, g, c) = {}, Saying(p, g, c) = {}
        PROVE  hw[g][c] = Factory[g][c]
    <3>1. start[g][c] = Factory[g][c]
      BY <2>1, AppliedToEnd DEF Intended
    <3>2. hw[g][c] = start[g][c]
      <4>1. CASE limit # 0
        <5>1. c # "power"
          BY <2>1, <4>1, PowerSaid
        <5> HIDE DEF start
        <5> QED BY <1>1, <5>1 DEF Enforced, EnforcedOn, Tuned
      <4>2. CASE limit = 0
        <5> HIDE DEF start
        <5> QED BY <1>1, <4>2 DEF Enforced, EnforcedOn, Exceeds
      <4> QED BY <4>1, <4>2
    <3> QED BY <3>1, <3>2
  <2> HIDE DEF hw
  <2>2. AllApplied(AllReset(hw, p, q), q) = Intended(q)
    BY <1>2, <2>1, ReplacementExact
  <2> QED BY <1>4, <1>6, <2>2
<1>7. (x = hw /\ p = q) \/ x = AllApplied(AllReset(hw, p, q), q)
  BY DEF Transitions
<1> QED BY <1>5, <1>6, <1>7

\* Only a completed synchronisation has a later configuration applied.
LEMMA OnlySyncStarts ==
  ASSUME Inv, [Next]_vars, applied' > applied
  PROVE  Fetched /\ SyncStarts
<1>1. applied \in Nat
  BY DEF Inv, TypeOK
<1>2. applied' # applied /\ applied' # 0
  BY <1>1
<1>3. Synchronise
  <2>1. ~StartMiner /\ ~StopMiner /\ ~Heartbeat /\ ~AgentRestarts
    BY <1>2 DEF StartMiner, StopMiner, Heartbeat, AgentRestarts
  <2>2. ~Tuner
    BY <1>2 DEF Tuner, TuneStarts, TuneRefused, TuneTries, TuneSucceeds, TuneFails, TuneKeeps
  <2>3. ~World
    BY <1>2 DEF World, Reconfigure, Meddle
  <2>4. ~UNCHANGED vars
    BY <1>2 DEF vars
  <2> QED BY <2>1, <2>2, <2>3, <2>4 DEF Next
<1>4. ~SyncCeilingFails /\ ~SyncTuningFails /\ ~SyncTuningRestored /\ ~SyncStartFails
  BY <1>2 DEF SyncCeilingFails, SyncTuningFails, SyncTuningRestored, SyncStartFails
<1>5. SyncStarts
  BY <1>3, <1>4 DEF Synchronise
<1> QED BY <1>5 DEF SyncStarts

\* A rig tuned as its profile says is, once it has applied another one, tuned
\* as that one says, in every control of every GPU: what was removed is reset
\* and nothing else (removedOverclockSettings, transitionOverclock).
THEOREM ProfilesAreExact == Spec => TunedExactly
<1>1. ASSUME Inv, [Next]_vars, applied' > applied, tuned = Intended(Effective(conf))
      PROVE  tuned' = Intended(Effective(conf'))
  <2>1. SyncStarts
    BY <1>1, OnlySyncStarts
  <2>2. PICK hw \in Transitions(Limited, Effective(conf), Effective(told.c)) :
          tuned' = Enforced(hw, told.c.limit)
    BY <2>1 DEF SyncStarts
  <2>3. conf' = told.c
    BY <2>1 DEF SyncStarts
  <2>4. Limited = Enforced(Intended(Effective(conf)), told.c.limit)
    BY <1>1 DEF Limited
  <2>5. tuned' = Intended(Effective(told.c))
    BY <1>1, <2>2, <2>4, Known, TransitionExact
  <2> QED BY <2>3, <2>5
<1>2. Inv /\ [Next]_vars
        => [applied' > applied /\ tuned = Intended(Effective(conf))
              => tuned' = Intended(Effective(conf'))]_vars
  BY <1>1
<1> QED BY <1>2, Invariance, PTL DEF Spec, TunedExactly

=============================================================================
