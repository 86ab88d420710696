\* Crashes of the process, of the machine, or every fault.
SPECIFICATION Spec
CONSTANTS
  Missing = Missing
  Key = {k1, k2}
  Value = {v1, v2}
  SyncEvery = 3
  FaultSets <- CrashesAndErrors
  MaxFile = 4
SYMMETRY Symmetry
INVARIANTS
  TypeOK
  PromisedSurvives
  MemoryMatchesLog
  NothingUnlogged
PROPERTIES
  ImplementsStore
