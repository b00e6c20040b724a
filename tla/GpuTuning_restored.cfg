SPECIFICATION Spec
CONSTANTS
  GPU = {0, 1}
  All = All
  Factory <- DefaultLimits
  Maximum <- HighestLimits
  Watts = {1, 4}
  Config <- Configurations
  MaxRevision = 2
  MaxFaults = 2
  MaxRestarts = 1
  MaxMeddling = 1
PROPERTIES
  RestoredAsSaid
