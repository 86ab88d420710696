\* A follower that holds an entry of an earlier leader.
SPECIFICATION Spec
CONSTANTS
  None = None
  Node = {n1, n2, n3}
  Command = {x}
  InitialVoters = {n1, n2, n3}
  Campaigners = {n1, n2}
  OverlappingCampaigns = FALSE
  Crashers = {}
  FailingDisks = {}
  VoterChanges = {}
  Refused = {}
  MaxTerm = 2
  MaxLog = 1
  MaxApplied = 2
  MaxUnsaved = 0
  MaxInFlight = 3
INVARIANTS
  CommittedOnMajority
