\* Voter changes, to one voter or to disjoint ones, across terms and a crash.
SPECIFICATION Spec
CONSTANTS
  None = None
  Node = {n1, n2, n3}
  Command = {}
  InitialVoters = {n1, n2, n3}
  Campaigners = {n1}
  OverlappingCampaigns = FALSE
  Crashers = {n1}
  FailingDisks = {}
  VoterChanges = {{n1}, {n2, n3}}
  Refused = {}
  MaxTerm = 2
  MaxLog = 2
  MaxApplied = 2
  MaxUnsaved = 0
  MaxInFlight = 2
INVARIANTS
  NoTwoElectorates
  ConfigsAlternate
  MembershipIsNewestConfig
