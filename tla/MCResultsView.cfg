SPECIFICATION ResultsSpec
CONSTANTS
  Runs = {r1, r2}
  NoRun = NoRun
  Closed = Closed
  Tables = {bus, branch}
  Snapshot = snapshot
  Trace = trace
  Index = index
  NoOverlay = NoOverlay
  MaxLoads = 1
INVARIANTS
  ResultsTypeOK
  OverlayMatchesTables
  SpinnersOwned
PROPERTIES
  MixedOnlyByLateAnswer
  WrongHeaderOnlyLateOrFailed
SYMMETRY Interchangeable
