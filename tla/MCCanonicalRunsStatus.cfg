SPECIFICATION RunsSpec
CONSTANTS
  Cases = {c1}
  HeaderName <- MCHeaderName
  Contents <- MCContents
  EmptyContent = "empty"
  Ops <- MCOps
  RefreshOp = "refresh"
  OpError = OpError
  Effect <- MCEffect
  NoEnm = NoEnm
  Loop = loop
  Workers = {w1, w2}
  MaxRevision = 3
  MaxEpoch = 0
  RunIds = {r1}
  NoRun = NoRun
  Valid <- MCValid
  Solvable <- MCSolvable
  Traceable <- MCTraceable
  Reportable <- MCReportable
PROPERTY TerminalIsFinal
