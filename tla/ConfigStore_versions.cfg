SPECIFICATION Spec
CONSTANTS
  Wallet = {w1}
  Pool = {p1}
  Miner = {m1}
  Sheet = {h1, h2}
  Profile = {o1}
  Farm = {f1}
  Schedule = {}
  Rig = {r1, r2}
  Name = {n1, n2}
  Value = {1, 2}
  Rules = {1, 2}
  Limit = {1, 2}
  MinerInput <- EpicMiners
  UserInput = {"named"}
  MaxRevision = 2
  None = None
SYMMETRY RigSymmetry
CONSTRAINT SheetsOrTuning
INVARIANTS
  RestartTellsTheSame
PROPERTIES
  ConfigurationVersioned
  RevisionNeverFalls
