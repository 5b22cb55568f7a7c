SPECIFICATION StoreSpec
CONSTANTS
  Cases = {c1}
  HeaderName <- MCHeaderName
  MaxSegments = 2
  Contents <- MCContents
  EmptyContent = 0
  Ops <- MCOps
  RefreshOp = "refresh"
  OpError = OpError
  Effect <- MCEffect
  NoEnm = NoEnm
  Loop = loop
  Workers = {w1}
  MaxRevision = 3
  MaxEpoch = 0
PROPERTY RevisionMonotone
