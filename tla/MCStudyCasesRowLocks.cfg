SPECIFICATION CasesSpec
CONSTANTS
  Cases = {c1, c2}
  Projects = {p1}
  Procs = {w1, w2}
  NoRow = NoRow
  DeletedRow = DeletedRow
  NoJob = NoJob
  Exclusive = FALSE
INVARIANT OneActive
