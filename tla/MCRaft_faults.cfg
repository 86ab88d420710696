\* Concurrent campaigns, hosts that crash, a disk that fails, a refused command.
SPECIFICATION Spec
CONSTANTS
  None = None
  Node = {n1, n2}
  Command = {x, y}
  InitialVoters = {n1, n2}
  Campaigners = {n1, n2}
  OverlappingCampaigns = TRUE
  Crashers = {n1, n2}
  FailingDisks = {n1}
  VoterChanges = {}
  Refused = {y}
  MaxTerm = 1
  MaxLog = 2
  MaxApplied = 1
  MaxUnsaved = 2
  MaxInFlight = 2
INVARIANTS
  TypeOK
  SavedBeforeSent
  AppliedWasAccepted
PROPERTIES
  TermNeverGoesBack
