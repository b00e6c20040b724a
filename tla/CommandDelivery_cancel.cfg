SPECIFICATION Spec
CONSTANTS
  MaxCommands = 2
  MaxSubmits = 1
  MaxFaults = 0
INVARIANTS
  CancelRestores
