---------------------------- MODULE CommandLife ----------------------------
(***************************************************************************)
(* What the command channel promises, without network, leases or restarts: *)
(* a queued command is issued, carried out and then finished for good.     *)
(* An ordinary command may be carried out several times, but it is never   *)
(* reported complete without having been carried out. A system action      *)
(* (reboot, shutdown) is the other way round: it is recorded complete      *)
(* first and then carried out at most once.                                *)
(***************************************************************************)
EXTENDS Integers

CONSTANTS Cmd, Kinds, Many

VARIABLES kind, status, runs

lifeVars == << kind, status, runs >>

LifeInit ==
  /\ kind \in [Cmd -> Kinds]
  /\ status = [c \in Cmd |-> "none"]
  /\ runs = [c \in Cmd |-> 0]

Queue(c) ==
  /\ status[c] = "none"
  /\ status' = [status EXCEPT ![c] = "pending"]
  /\ UNCHANGED << kind, runs >>

Issue(c) ==
  /\ status[c] = "pending"
  /\ status' = [status EXCEPT ![c] = "running"]
  /\ UNCHANGED << kind, runs >>

Run(c) ==
  /\ IF kind[c] = "system"
       THEN status[c] = "complete" /\ runs[c] = 0
       ELSE status[c] \in {"running", "complete", "failed"}
  /\ runs' = [runs EXCEPT ![c] = IF @ < Many THEN @ + 1 ELSE Many]
  /\ UNCHANGED << kind, status >>

Finish(c, outcome) ==
  /\ status[c] = "running"
  /\ outcome = "complete" => kind[c] = "system" \/ runs[c] > 0
  /\ status' = [status EXCEPT ![c] = outcome]
  /\ UNCHANGED << kind, runs >>

LifeNext == \E c \in Cmd : \/ Queue(c) \/ Issue(c) \/ Run(c)
                           \/ \E o \in {"complete", "failed"} : Finish(c, o)

LifeSpec == LifeInit /\ [][LifeNext]_lifeVars

=============================================================================
