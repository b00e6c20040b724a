------------------------------- MODULE MC_Agent -------------------------------
(* Values for the constants of Agent that a .cfg cannot write down.          *)
EXTENDS Agent, MC_AgentWorkload

CONSTANTS g1, g2

TwoGpus == << g1, g2 >>

\* Two policies under which the temperatures ask for speeds at both limits,
\* between them, and one percent apart.
Curves == {[target |-> 600, least |-> 30, most |-> 60],
           [target |-> 650, least |-> 31, most |-> 100]}

=============================================================================
