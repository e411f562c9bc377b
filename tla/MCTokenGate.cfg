SPECIFICATION FairSpec
CONSTANTS
  Token = {t1, t2}
  Kid = {k1, k2}
  t1 = t1
  t2 = t2
  k1 = k1
  k2 = k2
  KidOf <- MCKidOf
  Request = {q1, q2}
  ListTimeout = 1
  KeyTimeout = 1
  RefetchGap = 1
  Http = 1
  Revocable = {t1}
  Refused = refused
  None = none
PROPERTIES
  RevocationBinds
  StoredListIsCurrent
  KeysRecover
