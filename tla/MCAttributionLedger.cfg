SPECIFICATION Spec
CONSTANTS
  Pub = {p1, p2}
  Row = {r1}
  Person = {u1, u2}
  Name = {n1, n2}
  ClaimId = {1, 2, 3}
  Edit = {e1}
  Queue = {q1}
  Scorer = {s1}
  Null = null
  Unclaimed = {null}
  MaxAuthors = 1
  MaxSuggestions = 1
  NoRow = NoRow
  NoPub = NoPub
  NoClaim = NoClaim
  Idle = Idle
SYMMETRY PeopleAreAlike
VIEW Tables
INVARIANTS
  TypeOK
  AttributionAccounted
  CreditSettlesQueue
  SuggestionsDescribeRow
  QueuePageHolds
PROPERTIES
  LedgerKept
  DecisionsKept
