SPECIFICATION FairSpec
CONSTANTS
  Person = {u1}
  Row = {r1}
  Byline = {b1}
  Spelling = {s1, s2}
  Unusable = {}
  Nickname = {x1}
  Writer = {w1, w2}
  Renamer = {n1}
  Catchup = {}
  None = none
  Automatic = automatic
  Keep = keep
  Idle = idle
INVARIANTS
  TypeOK
  AccountNamesFollow
PROPERTIES
  CustomNamesKept
  NamesCatchUp
