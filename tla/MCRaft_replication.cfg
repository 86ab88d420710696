\* One campaigner, two hosts that crash, two proposals.
SPECIFICATION Spec
CONSTANTS
  None = None
  Node = {n1, n2, n3}
  Command = {x}
  InitialVoters = {n1, n2, n3}
  Campaigners = {n1}
  OverlappingCampaigns = FALSE
  Crashers = {n1, n2}
  FailingDisks = {}
  VoterChanges = {}
  Refused = {}
  MaxTerm = 2
  MaxLog = 2
  MaxApplied = 2
  MaxUnsaved = 0
  MaxInFlight = 2
INVARIANTS
  CommittedOnMajority
  StateMachineSafety
  AppliedOnceInOrder
PROPERTIES
  CommitsWithQuorum
