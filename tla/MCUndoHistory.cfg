SPECIFICATION HistorySpec
CONSTANTS
  Fields <- MCFields
  name = name
  in_service = in_service
  Values = {0, 1}
  Edits <- MCEdits
  MAX_HISTORY_SIZE = 2
  Calls = {a, b}
  MaxParts = 2
  MaxStacked = 0
  NoTransaction = NoTransaction
  NoCall = NoCall
INVARIANTS
  HistoryTypeOK
  StacksFit
  StacksBounded
PROPERTY RefinesLinearHistory
SYMMETRY Slots
