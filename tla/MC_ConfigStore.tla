--------------------------- MODULE MC_ConfigStore ---------------------------
(* Values for the constants of ConfigStore that a .cfg cannot write down.    *)
EXTENDS ConfigStore, TLC

\* An Epic miner, the only kind that may have a fallback.
EpicMiner == {[body |-> 1, ready |-> TRUE, epic |-> TRUE, login |-> FALSE]}

\* An Epic miner in two versions, the second of which is not ready.
EpicMiners == EpicMiner \cup {[body |-> 1, ready |-> FALSE, epic |-> TRUE, login |-> FALSE]}

\* A miner whose arguments carry {WALLET}.{WORKER}, as most of the catalog's.
LoginMiner == {[body |-> 1, ready |-> TRUE, epic |-> FALSE, login |-> TRUE]}

RigSymmetry == Permutations(Rig)

\* A bound: one rig with sheets or with farms, or two rigs with profiles and policies.
NoSheets == /\ Sheets(store) = {}
            /\ store.farms = {} \/ Cardinality(Enrolled(store)) <= 1
            /\ \A w \in Wallet : store.wallets[w] = None
            /\ \A p \in Pool : store.pools[p] = None
            /\ \A m \in Miner : store.miners[m] = None
SheetsOnly == /\ Cardinality(Enrolled(store)) <= 1 /\ store.farms = {}
              /\ \A o \in Profile : store.profiles[o] = None
              /\ store.policy = Empty.policy
              /\ \A r \in Enrolled(store) :
                   store.rigs[r].rules = 1 /\ ~store.rigs[r].gpus

SheetsOrTuning == NoSheets \/ SheetsOnly

=============================================================================
