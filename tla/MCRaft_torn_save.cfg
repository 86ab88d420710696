\* A follower that crashes while it saves.
SPECIFICATION Spec
CONSTANTS
  None = None
  Node = {n1, n2, n3}
  Command = {x}
  InitialVoters = {n1, n2, n3}
  Campaigners = {n1}
  OverlappingCampaigns = FALSE
  Crashers = {n2}
  FailingDisks = {}
  VoterChanges = {}
  Refused = {}
  MaxTerm = 1
  MaxLog = 1
  MaxApplied = 2
  MaxUnsaved = 0
  MaxInFlight = 3
INVARIANTS
  RestartSucceeds
