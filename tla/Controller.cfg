SPECIFICATION ControllerSpec
CONSTANTS
  Wallet = {w1}
  Pool = {p1}
  Miner = {m1}
  Sheet = {h1, h2}
  Profile = {}
  Farm = {}
  Schedule = {s1}
  Rig = {a1, a2}
  Name = {b1, b2}
  Value = {1}
  Rules = {1}
  Limit = {1}
  MinerInput <- EpicMiner
  UserInput = {"plain"}
  MaxRevision = 1
  None = None
  Content = {k1, k2}
  Entry = {a1, a2}
  Job = {b1, b2}
  Seed = k1
  MaxEvents = 2
  Token = {a1, a2}
  Identity = {b1, b2}
  RigName = {g1}
  Machine = {a1, a2}
  Version = {b1, b2}
  MaxTasks = 2
  MaxTroubles = 1
  LogLimit = 2
  MaxFailures = 1
  Retention = 1
  LastDay = 2
  MaxErrors = 1
  User = {u1, u2, u3}
  Login = {l1, l2}
  Password = {a1, a2}
  MaxLosses = 2
  Helper = {a1, a2}
  Newest = 2
  MaxMishaps = 2
  Request = {a1, a2}
  Life = 2
  Timeout = 1
  FeedLife = 1
  LastTime = 5
SYMMETRY ServiceSymmetry
CHECK_DEADLOCK FALSE
INVARIANTS
  ControllerTypeOK
  ReferencesExist
  UniqueNames
  ScheduleRunsOnce
  ServedPackageMatches
  GrantUsedOnce
  WriterAndGrantAgree
  AlertsMatch
  HistoryKept
  AdministratorStays
  ControllerKept
  
PROPERTIES
  FailedImportUndone
  StartsWithSeed
