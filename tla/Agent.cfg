SPECIFICATION FairAgentSpec
CONSTANTS
  m1 = m1
  m2 = m2
  v1 = v1
  v2 = v2
  Miner = {m1, m2}
  Version = {v1, v2}
  None = None
  Config <- EpicUpdates
  Commands = {"stop", "tune"}
  Heats = TRUE
  Slows = FALSE
  RebootAfter = 2
  MaxRevision = 2
  MaxFaults = 1
  MaxRestarts = 1
  g1 = g1
  g2 = g2
  Gpu <- TwoGpus
  Policy <- Curves
  Heat = {600, 604, 608}
  MaxUpsets = 2
  Manual = Manual
  Cpu = {p1, p2}
  Coin = {k1, k2}
  Governor = {"powersave", "schedutil"}
  MaxBreaks = 2
INVARIANTS
  FansFollow
  GovernorsGivenBack
PROPERTIES
  HotMinerStops
  Converges
