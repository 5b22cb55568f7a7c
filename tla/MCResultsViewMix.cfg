SPECIFICATION ResultsSpec
CONSTANTS
  Runs = {r1, r2}
  NoRun = NoRun
  Closed = Closed
  Tables = {bus, branch}
  Snapshot = snapshot
  Trace = trace
  Index = index
  NoOverlay = NoOverlay
  MaxLoads = 1
INVARIANT OverlayOfOneRun
SYMMETRY Interchangeable
