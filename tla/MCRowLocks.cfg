SPECIFICATION Spec
CONSTANTS
  Transaction = {t1, t2}
  Person = {1}
  Publication = {1, 2}
  Author = {1, 2, 3, 4}
  List <- MCList
  Account <- MCAccount
INVARIANT
  NoWaitCycle
CHECK_DEADLOCK FALSE
