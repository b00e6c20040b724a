---------------------------- MODULE MC_GpuTuning ----------------------------
(* Values for the constants of GpuTuning that a .cfg cannot write down.      *)
EXTENDS GpuTuning

S(selector, power, clock, offset) ==
  [selector |-> selector,
   value |-> [c \in Control |-> CASE c = "power" -> power
                                  [] c = "clock" -> clock
                                  [] c = "offset" -> offset]]

\* Limits in units of 10 W.
DefaultLimits == [g \in GPU |-> [c \in Control |-> IF c = "power" THEN 3 ELSE 0]]
HighestLimits == [g \in GPU |-> 4 - g]

Nothing == << >>
ForBoth == << S(All, 2, 1, 0) >>
ForEach == << S(0, 1, 0, 1), S(1, 0, 2, 0) >>
Mixed   == << S(0, 4, 1, 0), S(All, 0, 0, 2) >>

Configurations ==
  {[profile |-> p, limit |-> 0] : p \in {ForBoth, Mixed}}
    \cup {[profile |-> ForEach, limit |-> 2], [profile |-> Mixed, limit |-> 1]}

=============================================================================
