SPECIFICATION FairSyncSpec
CONSTANTS
  Cases = {c1, c2}
  HeaderName <- MCHeaderName
  MaxSegments = 2
  Contents <- MCContents
  EmptyContent = 0
  Ops <- MCOps
  RefreshOp = "refresh"
  OpError = OpError
  Effect <- MCEffect
  NoEnm = NoEnm
  Clients = {t1, t2}
  NoCase = NoCase
  MaxRequests = 3
  MaxRestarts = 1
INVARIANTS
  SyncTypeOK
  SnapshotsLag
  GuardedRetryAppliedOnce
PROPERTIES
  RefinesRegister
  SpinnerStops
CHECK_DEADLOCK FALSE
