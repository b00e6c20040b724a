----------------------------- MODULE AgentProofs -----------------------------
(***************************************************************************)
(* What the agent's telemetry loop does to fans and CPUs, next to its      *)
(* workload: the fans follow the temperatures of any number of GPUs, and   *)
(* the governors of any number of CPUs are given back.                     *)
(***************************************************************************)
EXTENDS Agent, WellFoundedInduction, TLAPS

-----------------------------------------------------------------------------
(* CPU governors. *)

Full(f) == f \in [Cpu -> Cpus!Setting]

\* Samples are of one workload, which is why a trial is kept on fair terms. What a
\* trial found is remembered for every CPU, until the governors are back.
CpuInv ==
  /\ Cpus!CpuTypeOK /\ fair
  /\ measured \subseteq {key}
  /\ originals = Cpus!Nothing \/ Full(originals)
  /\ trial => Full(originals)
  /\ ~broken => IF Full(originals) THEN originals = rightful ELSE governor = rightful

\* Either nothing is remembered, or something for every CPU.
LEMMA Remembers ==
  /\ Full(Cpus!Nothing) => Cpu = {}
  /\ Cpus!Nothing \in [Cpu -> Cpus!Setting \cup {None}]
BY CpuAssumption DEF Full, Cpus!Nothing

\* Putting the governors back: the right ones, unless that failed.
LEMMA RestoresBack ==
  ASSUME CpuInv, Cpus!Restores
  PROVE  /\ governor' \in [Cpu -> Cpus!Setting] /\ originals' = Cpus!Nothing
         /\ broken' \in BOOLEAN /\ breaks' \in 0 .. MaxBreaks
         /\ ~broken' => governor' = rightful
<1>1. originals' = Cpus!Nothing
  BY DEF Cpus!Restores
<1>2. governor \in [Cpu -> Cpus!Setting] /\ rightful \in [Cpu -> Cpus!Setting]
  BY DEF CpuInv, Cpus!CpuTypeOK
<1>3. governor' \in [Cpu -> Cpus!Setting]
  BY <1>2 DEF Cpus!Restores, CpuInv, Cpus!CpuTypeOK
<1>4. broken' \in BOOLEAN /\ breaks' \in 0 .. MaxBreaks
  <2>1. broken \in BOOLEAN /\ breaks \in 0 .. MaxBreaks
    BY DEF CpuInv, Cpus!CpuTypeOK
  <2>2. CASE UNCHANGED << broken, breaks >>
    BY <2>1, <2>2
  <2>3. CASE Cpus!Break /\ broken' = TRUE
    BY <2>1, <2>3, CpuAssumption DEF Cpus!Break
  <2> QED BY <2>2, <2>3 DEF Cpus!Restores
<1>5. ASSUME ~broken' PROVE governor' = rightful
  <2>1. /\ governor' = [c \in Cpu |-> IF originals[c] = None THEN governor[c] ELSE originals[c]]
        /\ ~broken
    BY <1>5 DEF Cpus!Restores
  <2>2. CASE Full(originals)
    <3>1. originals = rightful /\ \A c \in Cpu : originals[c] # None
      BY <2>1, <2>2, CpuAssumption DEF CpuInv, Full
    <3> QED BY <1>2, <2>1, <3>1
  <2>3. CASE ~Full(originals)
    <3>1. originals = Cpus!Nothing /\ governor = rightful
      BY <2>1, <2>3 DEF CpuInv
    <3> QED BY <1>2, <2>1, <3>1 DEF Cpus!Nothing
  <2> QED BY <2>2, <2>3
<1> QED BY <1>1, <1>3, <1>4, <1>5

\* With nothing remembered and the right governors, all is well.
LEMMA AllBack ==
  ASSUME Cpus!CpuTypeOK', fair', measured' \subseteq {key'}, originals' = Cpus!Nothing,
         ~trial', ~broken' => governor' = rightful'
  PROVE  CpuInv'
<1>1. ASSUME Full(originals') PROVE originals' = rightful' /\ governor' = rightful'
  <2>1. Cpu = {}
    BY <1>1, Remembers
  <2> QED BY <1>1, <2>1 DEF Cpus!CpuTypeOK, Full
<1> QED BY <1>1 DEF CpuInv

LEMMA Typed ==
  ASSUME governor' \in [Cpu -> Cpus!Setting], rightful' \in [Cpu -> Cpus!Setting],
         originals' = Cpus!Nothing, trial' \in BOOLEAN, fair' \in BOOLEAN, broken' \in BOOLEAN,
         key' \in Coin \cup {None}, measured' \subseteq Coin,
         baseline' \in 0 .. 3, after' \in 0 .. 3, breaks' \in 0 .. MaxBreaks
  PROVE  Cpus!CpuTypeOK'
<1>1. originals' \in [Cpu -> Cpus!Setting \cup {None}]
  BY Remembers
<1> QED BY <1>1 DEF Cpus!CpuTypeOK, Cpus!Samples

LEMMA InterruptedStep ==
  ASSUME CpuInv, NEW k \in Coin, Cpus!Between, Cpus!Interrupted(k) \/ Cpus!AnotherWorkload(k)
  PROVE  CpuInv'
<1> USE DEF Cpus!Interrupted, Cpus!AnotherWorkload, Cpus!ForgetSamples
<1>1. /\ key' = k /\ trial' = FALSE /\ rightful' = rightful /\ fair' = fair
      /\ baseline' \in {0, 1} /\ after' = 0 /\ measured' \subseteq {k}
  OBVIOUS
<1>2. Cpus!Restores \/ (UNCHANGED << governor, originals, broken, breaks >> /\ ~trial)
  OBVIOUS
<1>3. /\ governor' \in [Cpu -> Cpus!Setting] /\ originals' = Cpus!Nothing
      /\ broken' \in BOOLEAN /\ breaks' \in 0 .. MaxBreaks
      /\ ~broken' => governor' = rightful
  <2>1. CASE Cpus!Restores
    BY <2>1, RestoresBack
  <2>2. CASE UNCHANGED << governor, originals, broken, breaks >> /\ ~trial
    <3>1. originals = Cpus!Nothing
      BY <2>2 DEF Cpus!Between
    <3>2. Full(originals) => Cpu = {}
      BY <3>1, Remembers
    <3>3. ASSUME ~broken PROVE governor = rightful
      BY <3>2, <3>3 DEF CpuInv, Cpus!CpuTypeOK
    <3> QED BY <2>2, <3>1, <3>3 DEF CpuInv, Cpus!CpuTypeOK
  <2> QED BY <1>2, <2>1, <2>2
<1>4. Cpus!CpuTypeOK'
  <2>1. rightful' \in [Cpu -> Cpus!Setting] /\ fair' \in BOOLEAN
    BY <1>1 DEF CpuInv, Cpus!CpuTypeOK
  <2>2. /\ key' \in Coin \cup {None} /\ measured' \subseteq Coin
        /\ baseline' \in 0 .. 3 /\ after' \in 0 .. 3
    BY <1>1
  <2>4. trial' \in BOOLEAN
    BY <1>1
  <2> QED BY <1>3, <2>1, <2>2, <2>4, Typed
<1> QED BY <1>1, <1>3, <1>4, AllBack DEF CpuInv

\* A sample changes the counts only.
LEMMA MeasureStep ==
  ASSUME CpuInv, NEW k \in Coin, Cpus!MeasureBaseline(k) \/ Cpus!MeasureTrial(k)
  PROVE  CpuInv'
<1> USE DEF Cpus!MeasureBaseline, Cpus!MeasureTrial
<1>1. \A n \in 0 .. 3 : Cpus!More(n) \in 0 .. 3
  BY DEF Cpus!More, Cpus!Samples
<1>2. /\ baseline' \in 0 .. 3 /\ after' \in 0 .. 3
      /\ measured' \subseteq {key} /\ measured' \subseteq Coin
  BY <1>1 DEF CpuInv, Cpus!CpuTypeOK, Cpus!Samples
<1>3. UNCHANGED << governor, originals, trial, key, rightful, fair, broken, breaks >>
  OBVIOUS
<1>4. Cpus!CpuTypeOK'
  BY <1>2, <1>3 DEF CpuInv, Cpus!CpuTypeOK, Cpus!Samples
<1> QED BY <1>2, <1>3, <1>4 DEF CpuInv

LEMMA StartTrialStep ==
  ASSUME CpuInv, NEW k \in Coin, Cpus!Between, Cpus!StartTrial(k)
  PROVE  CpuInv'
<1> USE DEF Cpus!StartTrial
<1>1. /\ governor \in [Cpu -> Cpus!Setting] /\ rightful \in [Cpu -> Cpus!Setting]
      /\ originals = Cpus!Nothing
  BY DEF CpuInv, Cpus!CpuTypeOK, Cpus!Between
<1>2. ~broken => governor = rightful
  <2>1. Full(originals) => governor = rightful
    BY <1>1, Remembers
  <2> QED BY <2>1 DEF CpuInv
<1>3. /\ originals' = governor /\ UNCHANGED << key, rightful, fair, broken >>
      /\ baseline' = 3 /\ after' = 0 /\ measured' = measured \cup {key} /\ k = key
      /\ trial' \in BOOLEAN
  BY DEF Cpus!Samples
<1>4. governor' \in [Cpu -> Cpus!Setting]
  BY <1>1 DEF Cpus!Setting
<1>5. breaks' \in 0 .. MaxBreaks
  <2>1. breaks \in 0 .. MaxBreaks
    BY DEF CpuInv, Cpus!CpuTypeOK
  <2> QED BY <2>1, CpuAssumption DEF Cpus!Break
<1>6. Cpus!CpuTypeOK'
  BY <1>1, <1>3, <1>4, <1>5 DEF CpuInv, Cpus!CpuTypeOK, Cpus!Samples
<1> QED BY <1>1, <1>2, <1>3, <1>6 DEF CpuInv, Full

LEMMA TakeBackStep ==
  ASSUME CpuInv, Cpus!TakeBackStart
  PROVE  CpuInv'
<1>1. /\ ~trial /\ UNCHANGED << trial, key, baseline, after, rightful, measured, fair >>
      /\ Cpus!Restores
  BY DEF Cpus!TakeBackStart
<1>2. /\ governor' \in [Cpu -> Cpus!Setting] /\ originals' = Cpus!Nothing
      /\ broken' \in BOOLEAN /\ breaks' \in 0 .. MaxBreaks
      /\ ~broken' => governor' = rightful
  BY <1>1, RestoresBack
<1>3. Cpus!CpuTypeOK'
  BY <1>1, <1>2, Remembers DEF CpuInv, Cpus!CpuTypeOK
<1> QED BY <1>1, <1>2, <1>3, AllBack DEF CpuInv

\* What a trial earned is rightful from now on; all its samples were of one workload.
LEMMA EndTrialStep ==
  ASSUME CpuInv, NEW k \in Coin, Cpus!EndTrial(k)
  PROVE  CpuInv'
<1> USE DEF Cpus!EndTrial
<1>1. /\ k = key /\ trial' = FALSE /\ baseline' = 1 /\ after' = 0 /\ measured' = {k} /\ key' = key
      /\ governor \in [Cpu -> Cpus!Setting] /\ rightful \in [Cpu -> Cpus!Setting]
  BY DEF CpuInv, Cpus!CpuTypeOK
<1>2. CASE /\ originals' = Cpus!Nothing /\ rightful' = governor
           /\ fair' = (fair /\ measured \cup {k} = {key})
           /\ UNCHANGED << governor, broken, breaks >>
  <2>1. measured \cup {k} = {key}
    BY <1>1 DEF CpuInv
  <2>2. fair' = TRUE /\ broken' \in BOOLEAN /\ breaks' \in 0 .. MaxBreaks
    BY <1>2, <2>1 DEF CpuInv, Cpus!CpuTypeOK
  <2>3. key' \in Coin \cup {None} /\ measured' \subseteq Coin
    BY <1>1 DEF CpuInv, Cpus!CpuTypeOK
  <2>4. /\ baseline' \in 0 .. 3 /\ after' \in 0 .. 3
        /\ governor' \in [Cpu -> Cpus!Setting] /\ rightful' \in [Cpu -> Cpus!Setting]
    BY <1>1, <1>2
  <2>5. Cpus!CpuTypeOK'
    <3>1. trial' \in BOOLEAN /\ fair' \in BOOLEAN
      BY <1>1, <2>2
    <3> QED BY <1>2, <2>2, <2>3, <2>4, <3>1, Typed
  <2> QED BY <1>1, <1>2, <2>2, <2>5, AllBack
<1>3. CASE Cpus!Restores /\ UNCHANGED << rightful, fair >>
  <2>1. /\ governor' \in [Cpu -> Cpus!Setting] /\ originals' = Cpus!Nothing
        /\ broken' \in BOOLEAN /\ breaks' \in 0 .. MaxBreaks
        /\ ~broken' => governor' = rightful
    BY <1>3, RestoresBack
  <2>2. Cpus!CpuTypeOK'
    <3>1. /\ rightful' \in [Cpu -> Cpus!Setting] /\ fair' \in BOOLEAN
          /\ key' \in Coin \cup {None} /\ measured' \subseteq Coin
      BY <1>1, <1>3 DEF CpuInv, Cpus!CpuTypeOK
    <3>2. baseline' \in 0 .. 3 /\ after' \in 0 .. 3
      BY <1>1
    <3>3. trial' \in BOOLEAN
      BY <1>1
    <3> QED BY <2>1, <3>1, <3>2, <3>3, Typed
  <2> QED BY <1>1, <1>3, <2>1, <2>2, AllBack DEF CpuInv
<1> QED BY <1>2, <1>3

\* A restart between trials finds the governors as they should be.
LEMMA RestartAgentStep ==
  ASSUME CpuInv, Cpus!Between, Cpus!RestartAgent
  PROVE  CpuInv'
<1> USE DEF Cpus!RestartAgent
<1>1. /\ originals' = Cpus!Nothing /\ trial' = FALSE /\ key' = None /\ baseline' = 0 /\ after' = 0
      /\ measured' = {} /\ broken' = (broken \/ trial)
      /\ UNCHANGED << governor, rightful, fair >>
  OBVIOUS
<1>2. breaks' \in 0 .. MaxBreaks
  <2>1. breaks \in 0 .. MaxBreaks
    BY DEF CpuInv, Cpus!CpuTypeOK
  <2> QED BY <2>1, CpuAssumption DEF Cpus!Break
<1>3. ASSUME ~broken' PROVE governor = rightful
  <2>1. originals = Cpus!Nothing /\ ~broken
    BY <1>1, <1>3 DEF Cpus!Between
  <2>2. Full(originals) => governor = rightful
    BY <2>1, Remembers DEF CpuInv, Cpus!CpuTypeOK
  <2> QED BY <2>1, <2>2 DEF CpuInv
<1>4. Cpus!CpuTypeOK'
  <2>1. /\ governor' \in [Cpu -> Cpus!Setting] /\ rightful' \in [Cpu -> Cpus!Setting]
        /\ fair' \in BOOLEAN /\ broken' \in BOOLEAN
    BY <1>1 DEF CpuInv, Cpus!CpuTypeOK
  <2>2. /\ key' \in Coin \cup {None} /\ measured' \subseteq Coin
        /\ baseline' \in 0 .. 3 /\ after' \in 0 .. 3
    BY <1>1
  <2>4. trial' \in BOOLEAN
    BY <1>1
  <2>3. originals' = Cpus!Nothing
    BY <1>1
  <2> QED BY <1>2, <2>1, <2>2, <2>3, <2>4, Typed
<1> QED BY <1>1, <1>3, <1>4, AllBack DEF CpuInv

LEMMA CpuStarts == ASSUME Cpus!CpuInit PROVE CpuInv
<1> USE DEF Cpus!CpuInit
<1>1. Cpus!CpuTypeOK
  <2>1. originals \in [Cpu -> Cpus!Setting \cup {None}]
    BY Remembers
  <2>2. governor \in [Cpu -> Cpus!Setting] /\ rightful \in [Cpu -> Cpus!Setting]
    OBVIOUS
  <2>3. trial \in BOOLEAN /\ fair \in BOOLEAN /\ broken \in BOOLEAN
    OBVIOUS
  <2>4. key \in Coin \cup {None} /\ measured \subseteq Coin
    OBVIOUS
  <2>5. baseline \in 0 .. 3 /\ after \in 0 .. 3
    OBVIOUS
  <2>6. breaks \in 0 .. MaxBreaks
    BY CpuAssumption
  <2> QED BY <2>1, <2>2, <2>3, <2>4, <2>5, <2>6 DEF Cpus!CpuTypeOK, Cpus!Samples
<1>2. Full(originals) => Cpu = {}
  BY Remembers
<1>3. ASSUME Full(originals) PROVE originals = rightful
  BY <1>1, <1>2, <1>3 DEF Cpus!CpuTypeOK, Full
<1> QED BY <1>1, <1>3 DEF CpuInv

LEMMA CpuStep ==
  ASSUME CpuInv, Cpus!CpuNext \/ UNCHANGED cpuVars
  PROVE  CpuInv'
<1>1. CASE UNCHANGED cpuVars
  BY <1>1 DEF cpuVars, CpuInv, Cpus!CpuTypeOK
<1> QED
  BY <1>1, TakeBackStep, InterruptedStep, MeasureStep, StartTrialStep, EndTrialStep,
     RestartAgentStep
  DEF Cpus!CpuNext

LEMMA GivenBack == ASSUME CpuInv PROVE Cpus!GovernorsGivenBack
<1>1. ASSUME ~trial, originals = Cpus!Nothing, ~broken PROVE governor = rightful
  BY <1>1, Remembers DEF CpuInv, Cpus!CpuTypeOK
<1>2. ASSUME trial PROVE originals = rightful \/ broken
  BY <1>2 DEF CpuInv
<1> QED BY <1>1, <1>2 DEF CpuInv, Cpus!GovernorsGivenBack

-----------------------------------------------------------------------------
(* Fans. *)

\* A GPU whose fans are nobody else's.
Solo(g) == Fans!SharedWith(g) = {g}

Known == Fans!Percent \cup {None}       \* the speeds an agent can know of
Speed == Known \cup {Manual}

\* If the agent knows the fans of such a GPU, they are at the last speed it has in
\* mind, if any, close to what was wanted, and automatic while there is no policy.
FanInv ==
  /\ Fans!FanTypeOK
  /\ \A g \in known : Solo(g) =>
       /\ lastPercent[g] # None => fan[g] = lastPercent[g]
       /\ policy # None /\ wanted[g] # None =>
            fan[g] \in Fans!Percent /\ Fans!Distance(fan[g], wanted[g]) < 3
       /\ policy = None => fan[g] = None

LEMMA DesiredType ==
  ASSUME NEW p \in Fans!FanPolicy, NEW t \in Int
  PROVE  Fans!Desired(p, t) \in Fans!Percent
<1>1. p.target \in Int /\ p.least \in 0 .. 100 /\ p.most \in 0 .. 100
  BY DEF Fans!FanPolicy
<1>2. p.least + ((t - p.target) * 5) \div 10 \in Int
  BY <1>1
<1> DEFINE x == p.least + ((t - p.target) * 5) \div 10
<1>3. x \in Int
  BY <1>2
<1> HIDE DEF x
<1>4. Fans!Smaller(p.most, Fans!Larger(p.least, x)) \in 0 .. 100
  BY <1>1, <1>3 DEF Fans!Smaller, Fans!Larger
<1> QED BY <1>4 DEF x, Fans!Desired, Fans!Percent

LEMMA DistanceToSelf ==
  ASSUME NEW a \in Fans!Percent, NEW b \in Fans!Percent
  PROVE  Fans!Distance(a, a) < 3 /\ Fans!Distance(a, b) \in Int
BY DEF Fans!Distance, Fans!Percent

Reading(s) == s.fan \in [Fans!Gpus -> Speed] /\ s.last \in [Fans!Gpus -> Known]

\* Dealing with one GPU leaves the fans of the others alone, shared ones apart, and
\* brings its own close to what is wanted.
LEMMA ControlledOne ==
  ASSUME Fans!FanTypeOK, policy # None, NEW s, Reading(s), NEW g \in Fans!Gpus
  PROVE  LET n == Fans!Controlled(s, g)
             d == Fans!Desired(policy, heat[g])
         IN /\ Reading(n)
            /\ \A x \in Fans!Gpus \ {g} : Solo(x) => n.fan[x] = s.fan[x] /\ n.last[x] = s.last[x]
            /\ Solo(g) => \/ /\ Fans!KeepsSpeed(s.last[g], d) /\ n = s
                          \/ n.fan[g] = d /\ n.last[g] = d
            /\ n.last[g] \in Fans!Percent /\ Fans!Distance(n.last[g], d) < 3
<1> DEFINE d == Fans!Desired(policy, heat[g])
           n == Fans!Controlled(s, g)
<1>1. d \in Fans!Percent /\ d # None
  <2>1. policy \in Fans!FanPolicy /\ heat[g] \in Int
    BY DEF Fans!FanTypeOK
  <2> QED BY <2>1, DesiredType, FanAssumption
<1> HIDE DEF d
<1>2. CASE Fans!KeepsSpeed(s.last[g], d)
  <2>1. n = s
    BY <1>2 DEF Fans!Controlled, d
  <2>2. s.last[g] \in Fans!Percent /\ Fans!Distance(s.last[g], d) < 3
    BY <1>2 DEF Fans!KeepsSpeed, Reading, Known
  <2> HIDE DEF n
  <2> QED BY <1>2, <2>1, <2>2 DEF n, d
<1>3. CASE ~Fans!KeepsSpeed(s.last[g], d)
  <2>1. n = [fan  |-> [x \in Fans!Gpus |-> IF x \in Fans!SharedWith(g) THEN d ELSE s.fan[x]],
             last |-> [s.last EXCEPT ![g] = d]]
    BY <1>3 DEF Fans!Controlled, d
  <2> HIDE DEF n
  <2>2. /\ n.fan = [x \in Fans!Gpus |-> IF x \in Fans!SharedWith(g) THEN d ELSE s.fan[x]]
        /\ n.last = [s.last EXCEPT ![g] = d]
    BY <2>1
  <2>3. Reading(n)
    BY <1>1, <2>2 DEF Reading, Speed, Known
  <2>4. ASSUME NEW x \in Fans!Gpus \ {g}, Solo(x)
        PROVE  n.fan[x] = s.fan[x] /\ n.last[x] = s.last[x]
    <3>1. x \notin Fans!SharedWith(g)
      BY <2>4 DEF Solo, Fans!SharedWith
    <3> QED BY <2>2, <2>4, <3>1 DEF Reading
  <2>5. n.last[g] = d /\ (Solo(g) => n.fan[g] = d)
    BY <2>2 DEF Solo, Reading
  <2>6. Fans!Distance(d, d) < 3
    BY <1>1, DistanceToSelf
  <2> QED BY <1>1, <1>3, <2>3, <2>4, <2>5, <2>6 DEF n, d
<1> QED BY <1>2, <1>3

-----------------------------------------------------------------------------
(* A heartbeat deals with one GPU after the other. *)

LEMMA LeastNatural ==
  ASSUME NEW S \in SUBSET Nat, S # {}
  PROVE  \E m \in S : \A n \in S : m <= n
<1>1. PICK m \in S : \A n \in S : ~ (<< n, m >> \in OpToRel(<, Nat))
  BY NatLessThanWellFounded, WFMin
<1>2. ASSUME NEW n \in S, ~(m <= n) PROVE FALSE
  <2>1. << n, m >> \in Nat \X Nat /\ << n, m >>[1] < << n, m >>[2]
    BY <1>2
  <2>2. << n, m >> \in OpToRel(<, Nat)
    BY <2>1, Zenon DEF OpToRel
  <2> QED BY <1>1, <2>2
<1> QED BY <1>2

LEMMA GpuCount ==
  /\ Len(Gpu) \in Nat /\ \A n \in 1 .. Len(Gpu) : Gpu[n] \in Fans!Gpus
  /\ \A g \in Fans!Gpus : \E n \in 1 .. Len(Gpu) : Gpu[n] = g
BY FanAssumption DEF Fans!Gpus, Fans!ToSet

\* What was done after so many GPUs is what its definition says: there is such a
\* function, or there would be a least number of GPUs without one.
LEMMA ControlDefined ==
  /\ Fans!ControlledUpTo[0] = [fan |-> fan, last |-> lastPercent]
  /\ \A n \in 1 .. Len(Gpu) :
       Fans!ControlledUpTo[n] = Fans!Controlled(Fans!ControlledUpTo[n - 1], Gpu[n])
<1> DEFINE Turn(s, n) == Fans!Controlled(s, Gpu[n])
           start == [fan |-> fan, last |-> lastPercent]
           Is(f, m) == f = [n \in 0 .. m |-> IF n = 0 THEN start ELSE Turn(f[n - 1], n)]
           Lacking == {m \in Nat : ~ \E f : Is(f, m)}
<1>1. Lacking = {}
  <2>1. SUFFICES ASSUME Lacking # {} PROVE FALSE
    OBVIOUS
  <2>2. PICK m \in Lacking : \A n \in Lacking : m <= n
    <3>1. Lacking \in SUBSET Nat
      OBVIOUS
    <3> HIDE DEF Lacking
    <3> QED BY <2>1, <3>1, LeastNatural
  <2> HIDE DEF Turn, start
  <2>3. CASE m = 0
    <3> DEFINE f == [n \in 0 .. 0 |-> start]
    <3>1. f = [n \in 0 .. 0 |-> IF n = 0 THEN start ELSE Turn(f[n - 1], n)]
      OBVIOUS
    <3> QED BY <2>2, <2>3, <3>1
  <2>4. CASE m # 0
    <3>1. m - 1 \in Nat /\ m \in Nat /\ m - 1 \notin Lacking
      BY <2>2, <2>4
    <3>2. PICK g : Is(g, m - 1)
      BY <3>1
    <3> DEFINE f == [n \in 0 .. m |-> IF n = m THEN Turn(g[m - 1], m) ELSE g[n]]
    <3>3. ASSUME NEW n \in 0 .. m
          PROVE  f[n] = IF n = 0 THEN start ELSE Turn(f[n - 1], n)
      <4>1. CASE n = m
        <5>1. f[n] = Turn(g[m - 1], m) /\ f[n - 1] = g[m - 1]
          BY <2>4, <3>1, <4>1
        <5> QED BY <2>4, <4>1, <5>1
      <4>2. CASE n # m
        <5>1. n \in 0 .. m - 1 /\ f[n] = g[n] /\ (n # 0 => f[n - 1] = g[n - 1])
          BY <3>1, <3>3, <4>2
        <5>2. g[n] = IF n = 0 THEN start ELSE Turn(g[n - 1], n)
          BY <3>2, <5>1
        <5> QED BY <5>1, <5>2
      <4> QED BY <4>1, <4>2
    <3>4. f = [n \in 0 .. m |-> f[n]]
      OBVIOUS
    <3> HIDE DEF f
    <3>5. Is(f, m)
      BY <3>3, <3>4
    <3> QED BY <2>2, <3>5
  <2> QED BY <2>3, <2>4
<1>2. \E f : Is(f, Len(Gpu))
  BY <1>1, GpuCount
<1>3. Fans!ControlledUpTo = CHOOSE f : Is(f, Len(Gpu))
  BY DEF Fans!ControlledUpTo
<1> DEFINE a == Fans!ControlledUpTo
<1>4. Is(a, Len(Gpu))
  <2> HIDE DEF Is
  <2> QED BY <1>2, <1>3
<1> HIDE DEF a, Turn
<1>5. a[0] = start /\ \A n \in 1 .. Len(Gpu) : a[n] = Turn(a[n - 1], n)
  BY <1>4, GpuCount
<1> QED BY <1>5 DEF a, Turn

Dealt(n, g) == \E j \in 1 .. n : Gpu[j] = g

\* What holds of a GPU after the first n were dealt with: it was set to what is
\* remembered now, or not touched; if dealt with, what is remembered is close.
SoloAfter(n, g) ==
  LET s == Fans!ControlledUpTo[n]
  IN /\ \/ s.last[g] # None /\ s.fan[g] = s.last[g]
        \/ s.last[g] = lastPercent[g] /\ s.fan[g] = fan[g]
     /\ Dealt(n, g) => /\ s.last[g] \in Fans!Percent
                       /\ Fans!Distance(s.last[g], Fans!Desired(policy, heat[g])) < 3

LEMMA DealtNext ==
  ASSUME NEW n \in 1 .. Len(Gpu), NEW g
  PROVE  Dealt(n, g) <=> Dealt(n - 1, g) \/ Gpu[n] = g
<1>1. 1 .. n = (1 .. n - 1) \cup {n}
  BY GpuCount
<1> QED BY <1>1 DEF Dealt

LEMMA SoloSoFar ==
  ASSUME Fans!FanTypeOK, policy # None, NEW m \in 0 .. Len(Gpu)
  PROVE  /\ Reading(Fans!ControlledUpTo[m])
         /\ \A g \in Fans!Gpus : Solo(g) => SoloAfter(m, g)
<1> DEFINE Fine(n) == /\ Reading(Fans!ControlledUpTo[n])
                      /\ \A g \in Fans!Gpus : Solo(g) => SoloAfter(n, g)
           Bad == {n \in 0 .. Len(Gpu) : ~Fine(n)}
<1>1. Fine(0)
  <2>1. /\ Fans!ControlledUpTo[0].fan = fan /\ Fans!ControlledUpTo[0].last = lastPercent
    BY ControlDefined
  <2>2. \A g : ~Dealt(0, g)
    BY DEF Dealt
  <2> QED BY <2>1, <2>2 DEF Reading, SoloAfter, Speed, Known, Fans!FanTypeOK
<1>2. ASSUME NEW n \in 1 .. Len(Gpu), Fine(n - 1) PROVE Fine(n)
  <2> DEFINE s == Fans!ControlledUpTo[n - 1]
             t == Fans!ControlledUpTo[n]
  <2>1. t = Fans!Controlled(s, Gpu[n]) /\ Gpu[n] \in Fans!Gpus
    BY ControlDefined, GpuCount
  <2>2. Reading(s)
    BY <1>2
  <2> HIDE DEF s, t
  <2>3. /\ Reading(t)
        /\ \A x \in Fans!Gpus \ {Gpu[n]} : Solo(x) => t.fan[x] = s.fan[x] /\ t.last[x] = s.last[x]
        /\ Solo(Gpu[n]) => t = s \/ t.fan[Gpu[n]] = t.last[Gpu[n]]
        /\ t.last[Gpu[n]] \in Fans!Percent
        /\ Fans!Distance(t.last[Gpu[n]], Fans!Desired(policy, heat[Gpu[n]])) < 3
    BY <2>1, <2>2, ControlledOne
  <2>4. ASSUME NEW g \in Fans!Gpus, Solo(g) PROVE SoloAfter(n, g)
    <3>1. SoloAfter(n - 1, g)
      BY <1>2, <2>4
    <3>2. Dealt(n, g) <=> Dealt(n - 1, g) \/ Gpu[n] = g
      BY DealtNext
    <3>3. CASE Gpu[n] = g
      BY <2>3, <2>4, <3>1, <3>2, <3>3, FanAssumption DEF SoloAfter, s, t
    <3>4. CASE Gpu[n] # g
      BY <2>3, <2>4, <3>1, <3>2, <3>4 DEF SoloAfter, s, t
    <3> QED BY <3>3, <3>4
  <2> QED BY <2>3, <2>4 DEF t
<1> HIDE DEF Fine
<1>3. Bad = {}
  <2>1. SUFFICES ASSUME Bad # {} PROVE FALSE
    OBVIOUS
  <2>2. Bad \in SUBSET Nat
    BY GpuCount
  <2>3. PICK n \in Bad : \A k \in Bad : n <= k
    <3> HIDE DEF Bad
    <3> QED BY <2>1, <2>2, LeastNatural
  <2>4. n \in 1 .. Len(Gpu) /\ n - 1 \in 0 .. Len(Gpu) /\ ~(n <= n - 1)
    BY <1>1, <2>3, GpuCount
  <2>5. Fine(n - 1)
    BY <2>3, <2>4
  <2> QED BY <1>2, <2>3, <2>4, <2>5
<1> QED BY <1>3 DEF Fine

LEMMA UpsetCounted ==
  ASSUME Fans!FanTypeOK, Fans!Upset \/ UNCHANGED upsets
  PROVE  upsets' \in 0 .. MaxUpsets
<1>1. upsets \in 0 .. MaxUpsets
  BY DEF Fans!FanTypeOK
<1> QED BY <1>1, FanAssumption DEF Fans!Upset

\* A turn that fails sets fans of its GPU, or takes them out of automatic control.
LEMMA HalfSetType ==
  ASSUME Fans!FanTypeOK, policy # None, NEW s, Reading(s), NEW g \in Fans!Gpus,
         NEW f \in Fans!HalfSet(s, g)
  PROVE  f \in [Fans!Gpus -> Speed]
<1>1. Fans!Desired(policy, heat[g]) \in Speed /\ Manual \in Speed
  <2>1. policy \in Fans!FanPolicy /\ heat[g] \in Int
    BY DEF Fans!FanTypeOK
  <2> QED BY <2>1, DesiredType DEF Speed, Known
<1> QED BY <1>1 DEF Fans!HalfSet, Reading

LEMMA BeatStep == ASSUME FanInv, Fans!FanBeat PROVE FanInv'
<1>1. policy # None /\ UNCHANGED << nvidia, policy, heat >> /\ Fans!FanTypeOK
  BY DEF Fans!FanBeat, FanInv
<1>2. PICK n \in 0 .. Len(Gpu) :
        LET s == Fans!ControlledUpTo[n]
        IN /\ lastPercent' = s.last
           /\ \/ UNCHANGED upsets /\ fan' = s.fan
              \/ n < Len(Gpu) /\ Fans!Upset /\ fan' \in Fans!HalfSet(s, Gpu[n + 1])
           /\ wanted' = [g \in Fans!Gpus |->
                           IF Dealt(n, g) THEN Fans!Desired(policy, heat[g]) ELSE None]
           /\ known' = {g \in Fans!Gpus : /\ fan'[g] = s.fan[g]
                                          /\ g \in known \/ s.last[g] # lastPercent[g]}
  BY DEF Fans!FanBeat, Dealt
<1> DEFINE s == Fans!ControlledUpTo[n]
<1>3. n < Len(Gpu) => Gpu[n + 1] \in Fans!Gpus
  BY GpuCount
<1>4. Reading(s) /\ \A g \in Fans!Gpus : Solo(g) => SoloAfter(n, g)
  BY <1>1, SoloSoFar
<1>5. \A g \in Fans!Gpus : Fans!Desired(policy, heat[g]) \in Fans!Percent
  <2>1. policy \in Fans!FanPolicy /\ \A g \in Fans!Gpus : heat[g] \in Int
    BY <1>1 DEF Fans!FanTypeOK
  <2> QED BY <2>1, DesiredType
<1>6. Fans!FanTypeOK'
  <2>1. upsets' \in 0 .. MaxUpsets
    BY <1>1, <1>2, UpsetCounted
  <2>2. wanted' \in [Fans!Gpus -> Known]
    BY <1>2, <1>5 DEF Known
  <2>3. lastPercent' \in [Fans!Gpus -> Known]
    BY <1>2, <1>4 DEF Reading
  <2>4. fan' \in [Fans!Gpus -> Speed]
    BY <1>1, <1>2, <1>3, <1>4, HalfSetType DEF Reading
  <2>5. nvidia' \subseteq Fans!Gpus /\ known' \subseteq Fans!Gpus
    BY <1>1, <1>2 DEF Fans!FanTypeOK
  <2> QED BY <1>1, <2>1, <2>2, <2>3, <2>4, <2>5 DEF Fans!FanTypeOK, Speed, Known
<1>7. ASSUME NEW g \in known', Solo(g)'
      PROVE  /\ lastPercent'[g] # None => fan'[g] = lastPercent'[g]
             /\ wanted'[g] # None =>
                  fan'[g] \in Fans!Percent /\ Fans!Distance(fan'[g], wanted'[g]) < 3
  <2>1. /\ g \in Fans!Gpus /\ Solo(g) /\ fan'[g] = s.fan[g] /\ lastPercent'[g] = s.last[g]
        /\ g \in known \/ s.last[g] # lastPercent[g]
    BY <1>1, <1>2, <1>7 DEF Solo, Fans!SharedWith
  <2>2. SoloAfter(n, g)
    BY <1>4, <2>1
  <2>3. s.last[g] # None => s.fan[g] = s.last[g]
    BY <2>1, <2>2 DEF SoloAfter, FanInv
  <2>4. ASSUME wanted'[g] # None
        PROVE  /\ Dealt(n, g) /\ wanted'[g] = Fans!Desired(policy, heat[g])
               /\ s.last[g] \in Fans!Percent /\ Fans!Distance(s.last[g], wanted'[g]) < 3
    <3>1. Dealt(n, g) /\ wanted'[g] = Fans!Desired(policy, heat[g])
      BY <1>2, <2>1, <2>4
    <3> QED BY <2>2, <3>1 DEF SoloAfter
  <2> HIDE DEF s
  <2> QED BY <2>1, <2>3, <2>4, FanAssumption
<1> QED BY <1>1, <1>6, <1>7 DEF FanInv

LEMMA DisableStep == ASSUME FanInv, Fans!DisablePolicy PROVE FanInv'
<1> USE DEF Fans!DisablePolicy
<1>1. /\ policy # None /\ wanted' = [g \in Fans!Gpus |-> None]
      /\ UNCHANGED << nvidia, heat >> /\ Fans!FanTypeOK
  BY DEF FanInv
<1>2. CASE \E passed \in SUBSET Fans!Gpus :
             /\ fan' = [g \in Fans!Gpus |-> IF g \in passed THEN fan[g] ELSE None]
             /\ lastPercent' = [g \in Fans!Gpus |-> None]
             /\ \/ policy' = None /\ UNCHANGED upsets
                \/ policy' \in {None, policy} /\ Fans!Upset
             /\ known' = {g \in Fans!Gpus : fan'[g] = None}
  <2>1. upsets' \in 0 .. MaxUpsets
    BY <1>1, <1>2, UpsetCounted
  <2>2. policy' \in Fans!FanPolicy \cup {None}
    BY <1>1, <1>2 DEF Fans!FanTypeOK
  <2>3. fan' \in [Fans!Gpus -> Speed]
    BY <1>1, <1>2 DEF Fans!FanTypeOK, Speed, Known
  <2>4. Fans!FanTypeOK'
    BY <1>1, <1>2, <2>1, <2>2, <2>3 DEF Fans!FanTypeOK, Speed, Known
  <2>5. \A g \in known' : fan'[g] = None /\ lastPercent'[g] = None /\ wanted'[g] = None
    BY <1>1, <1>2
  <2> QED BY <2>4, <2>5 DEF FanInv
<1>3. CASE /\ Fans!Upset
           /\ \E done \in SUBSET Fans!Gpus :
                fan' = [g \in Fans!Gpus |-> IF g \in done THEN None ELSE fan[g]]
           /\ known' = {g \in known : fan'[g] = fan[g]}
           /\ UNCHANGED << lastPercent, policy >>
  <2>1. upsets' \in 0 .. MaxUpsets
    BY <1>1, <1>3, UpsetCounted
  <2>2. fan' \in [Fans!Gpus -> Speed]
    BY <1>1, <1>3 DEF Fans!FanTypeOK, Speed, Known
  <2>3. Fans!FanTypeOK'
    BY <1>1, <1>3, <2>1, <2>2 DEF Fans!FanTypeOK, Speed, Known
  <2>4. \A g \in known' : g \in known /\ g \in Fans!Gpus /\ fan'[g] = fan[g] /\ wanted'[g] = None
    BY <1>1, <1>3 DEF Fans!FanTypeOK
  <2>5. \A g : Solo(g)' <=> Solo(g)
    BY <1>1 DEF Solo, Fans!SharedWith
  <2> QED BY <1>1, <1>3, <2>3, <2>4, <2>5 DEF FanInv
<1> QED BY <1>2, <1>3

LEMMA ElsewhereStep ==
  ASSUME FanInv, NEW g \in Fans!Gpus, NEW percent \in {None, Manual, 100}, Fans!SetElsewhere(g, percent)
  PROVE  FanInv'
<1> USE DEF Fans!SetElsewhere
<1>1. upsets' \in 0 .. MaxUpsets
  BY UpsetCounted DEF FanInv
<1>2. 100 \in Fans!Percent
  BY DEF Fans!Percent
<1>3. fan' \in [Fans!Gpus -> Speed]
  BY <1>2 DEF FanInv, Fans!FanTypeOK, Speed, Known
<1>4. Fans!FanTypeOK'
  BY <1>1, <1>3 DEF FanInv, Fans!FanTypeOK, Speed, Known
<1>5. \A x \in known' : x \in known /\ x \in Fans!Gpus /\ fan'[x] = fan[x]
  BY DEF FanInv, Fans!FanTypeOK
<1>6. \A x : Solo(x)' <=> Solo(x)
  BY DEF Solo, Fans!SharedWith
<1> QED BY <1>4, <1>5, <1>6 DEF FanInv

LEMMA FanRestartStep == ASSUME FanInv, Fans!FanRestart PROVE FanInv'
<1> USE DEF Fans!FanRestart
<1>1. upsets' \in 0 .. MaxUpsets
  BY UpsetCounted DEF FanInv
<1>2. Fans!FanTypeOK'
  BY <1>1 DEF FanInv, Fans!FanTypeOK
<1>3. \A x \in known' : x \in Fans!Gpus /\ fan'[x] = None /\ lastPercent'[x] = None
  BY DEF FanInv, Fans!FanTypeOK
<1> QED BY <1>2, <1>3 DEF FanInv

LEMMA SettingsStep ==
  ASSUME FanInv,
         \/ \E g \in Fans!Gpus, h \in Heat : Fans!HeatChanges(g, h)
         \/ \E p \in Policy : Fans!NewPolicy(p)
         \/ UNCHANGED fanVars
  PROVE  FanInv'
<1>1. UNCHANGED << nvidia, fan, lastPercent, known, upsets >>
  BY DEF Fans!HeatChanges, Fans!NewPolicy, fanVars
<1>2. \A x : Solo(x)' <=> Solo(x)
  BY <1>1 DEF Solo, Fans!SharedWith
<1>3. CASE \E g \in Fans!Gpus, h \in Heat : Fans!HeatChanges(g, h)
  <2>1. heat' \in [Fans!Gpus -> Int] /\ UNCHANGED << policy, wanted >>
    BY <1>3, FanAssumption DEF Fans!HeatChanges, FanInv, Fans!FanTypeOK
  <2>2. Fans!FanTypeOK'
    BY <1>1, <2>1 DEF FanInv, Fans!FanTypeOK
  <2> QED BY <1>1, <1>2, <2>1, <2>2 DEF FanInv
<1>4. CASE \E p \in Policy : Fans!NewPolicy(p)
  <2>1. /\ policy' \in Fans!FanPolicy /\ policy' # None /\ heat' = heat
        /\ wanted' = [g \in Fans!Gpus |-> None]
    BY <1>4, FanAssumption DEF Fans!NewPolicy
  <2>2. Fans!FanTypeOK'
    BY <1>1, <2>1 DEF FanInv, Fans!FanTypeOK
  <2>3. \A x \in known' : wanted'[x] = None
    BY <1>1, <2>1 DEF FanInv, Fans!FanTypeOK
  <2> QED BY <1>1, <1>2, <2>1, <2>2, <2>3 DEF FanInv
<1>5. CASE UNCHANGED fanVars
  BY <1>2, <1>5 DEF fanVars, FanInv, Fans!FanTypeOK
<1> QED BY <1>3, <1>4, <1>5

LEMMA FansStart == ASSUME Fans!FanInit PROVE FanInv
<1>1. Fans!FanTypeOK
  <2>1. heat \in [Fans!Gpus -> Int]
    BY FanAssumption DEF Fans!FanInit
  <2>2. upsets \in 0 .. MaxUpsets
    <3>1. upsets = 0 /\ MaxUpsets \in Nat
      BY FanAssumption DEF Fans!FanInit
    <3> QED BY <3>1
  <2>3. /\ fan \in [Fans!Gpus -> Speed] /\ lastPercent \in [Fans!Gpus -> Known]
        /\ wanted \in [Fans!Gpus -> Known]
    BY DEF Fans!FanInit, Speed, Known
  <2> QED BY <2>1, <2>2, <2>3 DEF Fans!FanInit, Fans!FanTypeOK, Speed, Known
<1>2. \A g \in Fans!Gpus : fan[g] = None /\ lastPercent[g] = None /\ wanted[g] = None
  BY DEF Fans!FanInit
<1> QED BY <1>1, <1>2 DEF Fans!FanInit, FanInv

LEMMA FanStep == ASSUME FanInv, Fans!FanNext \/ UNCHANGED fanVars PROVE FanInv'
<1>1. CASE Fans!FanBeat
  BY <1>1, BeatStep
<1>2. CASE Fans!DisablePolicy
  BY <1>2, DisableStep
<1>3. CASE Fans!FanRestart
  BY <1>3, FanRestartStep
<1>4. CASE \E g \in Fans!Gpus, percent \in {None, Manual, 100} : Fans!SetElsewhere(g, percent)
  BY <1>4, ElsewhereStep
<1> QED BY <1>1, <1>2, <1>3, <1>4, SettingsStep DEF Fans!FanNext

-----------------------------------------------------------------------------
(* The agent as a whole. *)

\* A step of the agent is one of a component, or leaves it alone.
LEMMA ComponentSteps ==
  ASSUME [AgentNext]_agentVars
  PROVE  /\ [Next]_vars
         /\ Fans!FanNext \/ UNCHANGED fanVars
         /\ Cpus!CpuNext \/ UNCHANGED cpuVars
<1>1. CASE UNCHANGED agentVars
  BY <1>1 DEF agentVars
<1> QED BY <1>1 DEF AgentNext, Working

\* "Temperature-based automatic fan controls" (README.md:93): the fans that any number
\* of GPUs have for themselves stay within three points of what the temperature called
\* for and are automatic while no policy is in force, through changes of the policy,
\* commands that fail half way and restarts; fans that others, failing commands and
\* forgotten speeds left otherwise are so again once the agent sets them
\* (autofan.go:17).
THEOREM FansFollowHeat == AgentSpec => []FansFollow
<1>1. AgentInit => FanInv
  BY FansStart DEF AgentInit
<1>2. FanInv /\ [AgentNext]_agentVars => FanInv'
  BY ComponentSteps, FanStep
<1>3. FanInv => FansFollow
  BY DEF FanInv, FansFollow, Fans!FansFollow, Solo
<1> QED BY <1>1, <1>2, <1>3, PTL DEF AgentSpec

\* Between trials every CPU has its own governor or one that a fair trial earned it,
\* and no trial compares two workloads, wherever the workload changes, pauses or ends,
\* unless putting a governor back failed or the agent restarted during a trial
\* (cpu_optimization.go:86).
THEOREM GovernorsReturn == AgentSpec => []GovernorsGivenBack
<1>1. AgentInit => CpuInv
  BY CpuStarts DEF AgentInit
<1>2. CpuInv /\ [AgentNext]_agentVars => CpuInv'
  BY ComponentSteps, CpuStep
<1>3. CpuInv => GovernorsGivenBack
  BY GivenBack DEF GovernorsGivenBack
<1> QED BY <1>1, <1>2, <1>3, PTL DEF AgentSpec

=============================================================================
