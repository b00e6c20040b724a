SPECIFICATION Spec
CONSTANTS
  m1 = m1
  m2 = m2
  v1 = v1
  v2 = v2
  Miner = {m1, m2}
  Version = {v1, v2}
  None = None
  Config <- Assignments
  Commands = {"start", "stop", "tune"}
  Heats = TRUE
  Slows = TRUE
  RebootAfter = 2
  MaxRevision = 2
  MaxFaults = 1
  MaxRestarts = 1
INVARIANTS
  TypeOK
  AppliedAsTold
  RunsAssigned
  ExactWhenCurrent
PROPERTIES
  StaysCool
