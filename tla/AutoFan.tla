-------------------------------- MODULE AutoFan --------------------------------
(***************************************************************************)
(* The automatic fans of a rig: each heartbeat computes a speed for every  *)
(* GPU from its temperature and sets those that have to change by three    *)
(* points or more; a synchronisation that disables the policy hands the    *)
(* fans back, except those it fails to find. Setting a fan may fail half   *)
(* way, overclock profiles write the same fans, and the agent restarts     *)
(* without memory of what it set.                                          *)
(*                                                                         *)
(* Sources: internal/agent/autofan.go, client.go (heartbeat,               *)
(* syncConfiguration).                                                     *)
(*                                                                         *)
(* Temperatures are in tenths of a degree. mapNVIDIAFansToGPUs gives every *)
(* NVIDIA GPU all the fans of NVIDIA GPUs.                                 *)
(***************************************************************************)
EXTENDS Integers, SequencesExt

CONSTANTS
  Gpu,           \* the GPUs, a sequence in the order they are reported
  Policy,        \* enabled policies
  Heat,          \* temperatures, in tenths of a degree
  MaxUpsets,     \* bound on failing commands, foreign settings and restarts
  Manual,        \* a fan taken out of automatic control, whose speed nobody chose
  None

Gpus == ToSet(Gpu)
FanPolicy == [target : Int, least : 0 .. 100, most : 0 .. 100]

Percent == 0 .. 100

VARIABLES
  nvidia,        \* which GPUs are NVIDIA's; the others are AMD's
  policy,        \* the agent's configuration, None while disabled
  heat,          \* the temperatures of the GPUs
  fan,           \* what the fans of each GPU are set to, None if automatic
  lastPercent,   \* Client.lastFanPercent
  wanted,        \* history: the speed a GPU's temperature called for, when a
                 \* heartbeat last dealt with it without trouble since it was told the policy
  known,         \* history: the GPUs whose fans the agent knows. Not so when somebody
                 \* else set them, a command for them failed half way, or the agent
                 \* forgot its speeds with the fans still set; so again once it sets them
  upsets

fanVars == << nvidia, policy, heat, fan, lastPercent, wanted, known, upsets >>

-----------------------------------------------------------------------------

Larger(a, b) == IF a > b THEN a ELSE b
Smaller(a, b) == IF a < b THEN a ELSE b

\* desiredFanPercent: five points for each degree above the target.
Desired(p, t) == Smaller(p.most, Larger(p.least, p.least + ((t - p.target) * 5) \div 10))

Distance(a, b) == IF a < b THEN b - a ELSE a - b

\* Faulty variant: changes of several percent are not worth a command.
CloseTo(old, percent) == old # None /\ Distance(old, percent) < 6

KeepsSpeed(old, percent) == old # None /\ Distance(old, percent) < 3

\* The fans that are set together with a GPU's.
SharedWith(g) == IF g \in nvidia THEN nvidia ELSE {g}

\* applyAutofan deals with one GPU: s has the fans and the map of last speeds.
Controlled(s, g) ==
  LET percent == Desired(policy, heat[g])
  IN IF KeepsSpeed(s.last[g], percent) THEN s
     ELSE [fan  |-> [x \in Gpus |-> IF x \in SharedWith(g) THEN percent ELSE s.fan[x]],
           last |-> [s.last EXCEPT ![g] = percent]]

\* After the first n GPUs.
ControlledUpTo[n \in 0 .. Len(Gpu)] ==
  IF n = 0 THEN [fan |-> fan, last |-> lastPercent]
           ELSE Controlled(ControlledUpTo[n - 1], Gpu[n])

Upset == upsets < MaxUpsets /\ upsets' = upsets + 1

\* What a turn that ends in an error may leave: some of the fans at the new speed,
\* others no longer automatic but as fast as they were.
HalfSet(s, g) ==
  {[x \in Gpus |-> IF x \in set THEN Desired(policy, heat[g])
                   ELSE IF x \in held /\ s.fan[x] = None THEN Manual
                   ELSE s.fan[x]] : set, held \in SUBSET SharedWith(g)}

\* A heartbeat, which ends at the first GPU whose fans cannot be set or do not
\* read back.
FanBeat ==
  /\ policy # None
  /\ \E n \in 0 .. Len(Gpu) :
       LET s == ControlledUpTo[n]
       IN /\ lastPercent' = s.last
          /\ \/ n = Len(Gpu) /\ fan' = s.fan /\ UNCHANGED upsets
             \/ /\ n < Len(Gpu) /\ Upset
                /\ ~KeepsSpeed(s.last[Gpu[n + 1]], Desired(policy, heat[Gpu[n + 1]]))
                /\ fan' \in HalfSet(s, Gpu[n + 1])
          /\ wanted' = [g \in Gpus |->
               IF \E k \in 1 .. n : Gpu[k] = g THEN Desired(policy, heat[g]) ELSE None]
          /\ known' = {g \in Gpus : /\ fan'[g] = s.fan[g]
                                    /\ g \in known \/ s.last[g] # lastPercent[g]}
  /\ UNCHANGED << nvidia, policy, heat >>

HeatChanges(g, t) ==
  /\ heat' = [heat EXCEPT ![g] = t]
  /\ UNCHANGED << nvidia, policy, fan, lastPercent, wanted, known, upsets >>

\* A synchronisation with another enabled policy.
NewPolicy(p) ==
  /\ policy' = p
  /\ wanted' = [g \in Gpus |-> None]
  /\ UNCHANGED << nvidia, heat, fan, lastPercent, known, upsets >>

\* Faulty variant: the agent forgets what it set, and leaves it.
OnlyForgotten ==
  /\ policy # None
  /\ lastPercent' = [g \in Gpus |-> None] /\ policy' = None
  /\ wanted' = [g \in Gpus |-> None]
  /\ UNCHANGED << nvidia, heat, fan, known, upsets >>

\* A synchronisation that disables it: the fans go back first. Without a list of
\* NVIDIA's GPUs or without nvidia-settings, all of NVIDIA's are passed over, and an
\* AMD card is when its files are not there: none of this is an error. An error ends
\* the synchronisation; without one it may still fail at a later step, with the policy
\* still in force.
DisablePolicy ==
  /\ policy # None
  /\ wanted' = [g \in Gpus |-> None]
  /\ \/ \E passed \in SUBSET Gpus :
          /\ nvidia \subseteq passed \/ nvidia \cap passed = {}
          /\ fan' = [g \in Gpus |-> IF g \in passed THEN fan[g] ELSE None]
          /\ lastPercent' = [g \in Gpus |-> None]
          /\ \/ passed = {} /\ policy' = None /\ UNCHANGED upsets
             \/ policy' \in {None, policy} /\ Upset
          /\ known' = {g \in Gpus : fan'[g] = None}
     \/ /\ Upset
        /\ \E done \in SUBSET Gpus : fan' = [g \in Gpus |-> IF g \in done THEN None ELSE fan[g]]
        /\ known' = {g \in known : fan'[g] = fan[g]}
        /\ UNCHANGED << lastPercent, policy >>
  /\ UNCHANGED << nvidia, heat >>

\* A profile or another program sets or resets the fans of a GPU.
SetElsewhere(g, percent) ==
  /\ Upset
  /\ fan' = [x \in Gpus |-> IF x \in SharedWith(g) THEN percent ELSE fan[x]]
  /\ known' = known \ SharedWith(g)
  /\ UNCHANGED << nvidia, policy, heat, lastPercent, wanted >>

\* The agent restarts: the fans stay as they are.
FanRestart ==
  /\ Upset
  /\ policy' = None /\ lastPercent' = [g \in Gpus |-> None]
  /\ wanted' = [g \in Gpus |-> None]
  /\ known' = {g \in Gpus : fan[g] = None}
  /\ UNCHANGED << nvidia, heat, fan >>

FanInit ==
  /\ nvidia \in SUBSET Gpus
  /\ policy = None /\ heat \in [Gpus -> Heat]
  /\ fan = [g \in Gpus |-> None] /\ lastPercent = fan /\ wanted = fan
  /\ known = Gpus /\ upsets = 0

FanNext ==
  \/ FanBeat \/ DisablePolicy \/ FanRestart
  \/ \E g \in Gpus, t \in Heat : HeatChanges(g, t)
  \/ \E p \in Policy : NewPolicy(p)
  \/ \E g \in Gpus, percent \in {None, Manual, 100} : SetElsewhere(g, percent)

FanSpec == FanInit /\ [][FanNext]_fanVars

-----------------------------------------------------------------------------

FanTypeOK ==
  /\ nvidia \subseteq Gpus /\ known \subseteq Gpus
  /\ policy \in FanPolicy \cup {None} /\ heat \in [Gpus -> Int]
  /\ fan \in [Gpus -> Percent \cup {None, Manual}]
  /\ lastPercent \in [Gpus -> Percent \cup {None}]
  /\ wanted \in [Gpus -> Percent \cup {None}]
  /\ upsets \in 0 .. MaxUpsets

\* "Temperature-based automatic fan controls" (README.md:93): fans turn within three
\* points of what their GPU's temperature called for at the last heartbeat, through
\* changes of the policy, commands that fail and restarts, and are automatic while no
\* policy is in force. It is not promised of fans that somebody else set or a failing
\* command left half set or half reset, until the agent sets them the next time, which
\* it does only when the speed changes by three points (autofan.go:27); nor that fans
\* become automatic that the agent passed over when it disabled the policy
\* (autofan.go:67, 107) or still had set when it restarted, until a policy comes and
\* goes; nor of GPUs that share their fans, where the last one whose speed changed sets
\* them all (autofan.go:171).
FansFollow ==
  \A g \in known : SharedWith(g) = {g} =>
    /\ policy # None /\ wanted[g] # None =>
         fan[g] \in Percent /\ Distance(fan[g], wanted[g]) < 3
    /\ policy = None => fan[g] = None

=============================================================================
