SPECIFICATION FairSpec
CONSTANTS
  Person = {u1}
  Run = {s1, s2}
  Login = {}
  SinceDates = {0}
  Earliest <- MCEarliest
  Overlap <- MCOverlap
  Width <- MCWidth
  MaxClock = 3
  MaxFailures = 1
  None = none
  NoRow = noRow
  Idle = idle
INVARIANTS
  NothingSkipped
PROPERTIES
  EveryoneArrives
