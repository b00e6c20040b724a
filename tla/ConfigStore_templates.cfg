SPECIFICATION Spec
CONSTANTS
  Wallet = {w1}
  Pool = {p1}
  Miner = {m1}
  Sheet = {h1, h2}
  Profile = {}
  Farm = {}
  Schedule = {}
  Rig = {r1, r2}
  Name = {n1, n2}
  Value = {1}
  Rules = {1}
  Limit = {1}
  MinerInput <- LoginMiner
  UserInput = {"plain", "fixed"}
  MaxRevision = 2
  None = None
PROPERTIES
  TemplatesArePerSheet
