SPECIFICATION FairSpec
CONSTANTS
  MaxCommands = 2
  MaxSubmits = 2
  MaxFaults = 1
INVARIANTS
  TypeOK
  OncePerProcess
  SystemActionOnce
  CompleteWasExecuted
  ResultsAreAccepted
  TunedOnce
  InOrderWithoutFaults
PROPERTIES
  FinalIsFinal
  ImplementsLife
  EveryCommandFinishes
