SPECIFICATION Spec
CONSTANTS
  a = a
  b = b
  t1 = t1
  t2 = t2
  l1 = l1
  p1 = p1
  n1 = n1
  n2 = n2
  Null = Null
  Text = Text
  Upload = {a, b}
  Form = {f1}
  Title = {t1, t2}
  Link = {l1}
  Project = {p1}
  Name = {n1, n2}
  Document <- MCDocument
  MaxRecords = 3
  MaxAsked = 2
INVARIANTS
  StoreSound
  ReportIsWhatLanded
  ReportInOrder
  OneAnswerPerProject
SYMMETRY UploadsAlike
CHECK_DEADLOCK FALSE
