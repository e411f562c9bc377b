SPECIFICATION RepairSpec
CONSTANTS
  Pub = {p1, p2}
  Row = {r1, r2, r3}
  Person = {u1}
  Name = {n1, n2}
  ClaimId = {1, 2, 3, 4}
  Edit = {e1, e2}
  Queue = {}
  Scorer = {}
  Null = null
  Unclaimed = {null}
  MaxAuthors = 2
  MaxSuggestions = 1
  NoRow = NoRow
  NoPub = NoPub
  NoClaim = NoClaim
  Idle = Idle
SYMMETRY RequestSymmetry
VIEW Tables
INVARIANTS
  MembershipConsistent
PROPERTIES
  OtherDecisionsKept
  CreditLeavesByCorrection
  PeopleCarried
  NamesakesKeepOrder
