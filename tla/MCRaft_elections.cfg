\* Campaigns that do not overlap, logs that conflict.
SPECIFICATION Spec
CONSTANTS
  None = None
  Node = {n1, n2, n3}
  Command = {x}
  InitialVoters = {n1, n2, n3}
  Campaigners = {n1, n2}
  OverlappingCampaigns = FALSE
  Crashers = {}
  FailingDisks = {}
  VoterChanges = {}
  Refused = {}
  MaxTerm = 2
  MaxLog = 2
  MaxApplied = 2
  MaxUnsaved = 0
  MaxInFlight = 2
SYMMETRY Symmetry
INVARIANTS
  ElectionSafety
  LeaderHasQuorumOfItsTerm
  LogMatching
  DiskHoldsLog
