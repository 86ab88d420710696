SPECIFICATION Spec
CONSTANTS
  Upserts = {u1}
  Deletes = {d1}
  Searches = {s1}
  Request <- ThreeRequests
  MaxBatch = 2
  Target <- DeleteA
  NoOne = NoOne
  Peer = Peer
  Foreign <- InsertB
  MaxTurns = 3
INVARIANTS AllOrNothing BatchIsContiguous SearchSeesWholeEntries
PROPERTY EveryCallReturns
