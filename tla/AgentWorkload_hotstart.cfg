SPECIFICATION FairSpec
CONSTANTS
  m1 = m1
  m2 = m2
  v1 = v1
  v2 = v2
  Miner = {m1, m2}
  Version = {v1, v2}
  None = None
  Config <- EpicUpdates
  Commands = {"start"}
  Heats = TRUE
  Slows = FALSE
  RebootAfter = 1
  MaxRevision = 1
  MaxFaults = 0
  MaxRestarts = 0
PROPERTIES
  HotMinerStops
