SPECIFICATION RepairSpec
CONSTANTS
  Pub = {p1}
  Row = {r1, r2, r3}
  Person = {u1}
  Name = {n1}
  ClaimId = {1, 2, 3, 4}
  Edit = {e1}
  Queue = {q1}
  Scorer = {s1}
  Null = null
  Unclaimed = {null}
  MaxAuthors = 3
  MaxSuggestions = 1
  NoRow = NoRow
  NoPub = NoPub
  NoClaim = NoClaim
  Idle = Idle
SYMMETRY RequestSymmetry
VIEW Tables
PROPERTY
  DecisionsKept
