SPECIFICATION Spec
CONSTANTS
  None = 0
  Node <- ThreeNodes
  Command <- Values
  InitialVoters <- ThreeNodes
  Rounds = 13
  MinWindow = 4
  WarmUp = 3
INVARIANTS HistoryLinearizable IsolatedWriteUncommitted IsolatedTermStaysBehind AppliedAgree HealthyRoundCommits
PROPERTY RunEnds
