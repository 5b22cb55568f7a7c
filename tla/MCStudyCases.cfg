SPECIFICATION CasesSpec
CONSTANTS
  Cases = {c1, c2, c3}
  Projects = {p1, p2}
  Procs = {w1, w2}
  NoRow = NoRow
  DeletedRow = DeletedRow
  NoJob = NoJob
  Exclusive = TRUE
INVARIANTS
  CasesTypeOK
  OneActive
PROPERTY ActiveCaseKept
SYMMETRY Interchangeable
