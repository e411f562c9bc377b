SPECIFICATION Spec
CONSTANTS
  Person = {u1, u2}
  Row = {r1}
  Byline = {b1, b2}
  Spelling = {s1}
  Unusable = {bad}
  Nickname = {x1}
  Writer = {w1}
  Renamer = {n1}
  Catchup = {c1}
  None = none
  Automatic = automatic
  Keep = keep
  Idle = idle
SYMMETRY RequestsAreAlike
INVARIANTS
  AccountShowsCredited
PROPERTIES
  CustomNamesKept
