SPECIFICATION FairSpec
CONSTANTS
  Person = {u1}
  Run = {s1}
  Login = {l1}
  SinceDates = {0}
  Earliest <- MCEarliest
  Overlap <- MCOverlap
  Width <- MCWidth
  MaxClock = 3
  MaxFailures = 1
  None = none
  NoRow = noRow
  Idle = idle
INVARIANTS
  TypeOK
  NothingSkipped
PROPERTIES
  SessionKept
  EveryoneArrives
