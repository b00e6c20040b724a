SPECIFICATION Spec
CONSTANTS
  m1 = m1
  m2 = m2
  v1 = v1
  v2 = v2
  Miner = {m1, m2}
  Version = {v1, v2}
  None = None
  Config <- LimitedUpdates
  Commands = {}
  Heats = FALSE
  Slows = FALSE
  RebootAfter = 1
  MaxRevision = 2
  MaxFaults = 2
  MaxRestarts = 0
PROPERTIES
  FailedUpdateRestored
