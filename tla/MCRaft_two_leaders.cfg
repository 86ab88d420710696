\* Concurrent campaigns of one term.
SPECIFICATION Spec
CONSTANTS
  None = None
  Node = {n1, n2, n3}
  Command = {x}
  InitialVoters = {n1, n2, n3}
  Campaigners = {n1, n2}
  OverlappingCampaigns = TRUE
  Crashers = {}
  FailingDisks = {}
  VoterChanges = {}
  Refused = {}
  MaxTerm = 1
  MaxLog = 0
  MaxApplied = 2
  MaxUnsaved = 0
  MaxInFlight = 3
INVARIANTS
  ElectionSafety
