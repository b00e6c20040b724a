-------------------------- MODULE MC_AgentWorkload --------------------------
(* Values for the constants of AgentWorkload that a .cfg cannot write down.  *)
EXTENDS AgentWorkload

CONSTANTS m1, m2, v1, v2

Plain(w) == [Blank EXCEPT !.main = w, !.profile = v1]

\* The first miner in two versions, binary and arguments both.
Old == [miner |-> m1, binary |-> v1, args |-> v1]
New == [miner |-> m1, binary |-> v2, args |-> v2]

\* The old binary with other arguments.
Tuned == [miner |-> m1, binary |-> v1, args |-> v2]

\* The second miner is the one installed on the rig.
Installed == [miner |-> m2, binary |-> None, args |-> v1]

\* An Epic sheet that falls back on the second miner, and is watched.
Epic(w) == [Plain(w) EXCEPT !.fallback = Installed, !.epic = TRUE, !.heat = TRUE]

Watched(c) == [c EXCEPT !.heat = TRUE, !.rate = TRUE]
Limited(c) == [c EXCEPT !.limit = TRUE]

\* An update of the main miner of an Epic sheet, and a power ceiling for the
\* new one.
EpicUpdates == {Epic(Old), Watched(Epic(New)), Limited(Watched(Epic(New)))}

\* The same, a change of arguments only, and no sheet any more.
Assignments == EpicUpdates \cup {Plain(Tuned), Blank}

\* An update that comes with a power ceiling, or not.
LimitedUpdates == {Plain(Old), Plain(New), Limited(Plain(New))}

=============================================================================
