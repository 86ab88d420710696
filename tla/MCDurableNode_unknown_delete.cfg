SPECIFICATION Spec
CONSTANTS
  Replica = {r1, r2}
  Configs <- TwoConfigs
  Seeds <- TwoSeeds
  LoadedLogs <- Loads
  Mutation <- Deletes
  MaxLog = 6
  MaxDrive = 2
  MaxRestarts = 0
PROPERTY EveryCommittedIsApplied
CHECK_DEADLOCK FALSE
