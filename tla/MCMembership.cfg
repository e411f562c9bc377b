SPECIFICATION Spec
CONSTANTS
  u1 = u1
  g1 = g1
  g2 = g2
  Null = Null
  Person = {u1}
  Project = {g1, g2}
  Login = {l1}
  File <- MCFile
  MaxDate = 1
  MaxObserved = 4
INVARIANTS
  RowsSummarise
  CurrentIsRecorded
PROPERTIES
  ImportReportExact
