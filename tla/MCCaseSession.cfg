SPECIFICATION SessionSpec
CONSTANTS
  Cases = {c1, c2}
  NoCase = NoCase
  Runs = {r1, r2}
  NoRun = NoRun
  Slots = {a, b}
  Idle = Idle
INVARIANTS
  SessionTypeOK
  FocusedRunExecuted
  FlagsOwned
PROPERTIES
  NoStrayRun
  FocusLostOnlyByOtherCase
  StatusLostOnlyByOtherRun
SYMMETRY Interchangeable
