SPECIFICATION Spec
CONSTANTS
  Replica = {r1, r2}
  Configs <- TwoConfigs
  Seeds <- TwoSeeds
  LoadedLogs <- Loads
  Mutation <- Later
  MaxLog = 6
  MaxDrive = 2
  MaxRestarts = 1
INVARIANTS TypeOK LinksSound EntryIsHighest ContentsMatchLog ReplicasAgree SearchFindsStored
PROPERTY EveryAcceptedIsApplied
CHECK_DEADLOCK FALSE
