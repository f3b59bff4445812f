CONSTANTS
  Keys = {k1}
  Futures = {f1, f2}
  Getters = {g1, g2}
  Interruptible = {g1}
  Pool = {t1, t2}
  MaxQueue = 2
  None = None
SPECIFICATION FairSpec
INVARIANTS TypeOK ReturnsVerdict LastAskedLastTold
PROPERTIES AnswerStands GetReturns
CHECK_DEADLOCK TRUE
