SPECIFICATION TopologySpec
CONSTANTS
  m500 = m500
  middle = middle
  end = end
  supply1 = supply1
  supply2 = supply2
  Supplies <- MCSupplies
  Foreign <- MCForeign
  Media <- MCMedia
  Lengths <- MCLengths
  Positions <- MCPositions
  AtStart = start
  AtEnd = end
  TrunkNamed <- MCTrunkNamed
  PortCounts <- MCPortCounts
  Stations <- MCStations
  NormalStates <- MCNormalStates
  MaxListed = 2
  Updated <- MCUpdated
  MaxBuses = 6
  MaxRings = 1
  MaxOps = 6
  UpdateCost = 2
INVARIANT NetworkIntact
PROPERTIES TrunkStaysChain RefsLostOnlyBySplit
CHECK_DEADLOCK FALSE
SYMMETRY MCSupplySymmetry
