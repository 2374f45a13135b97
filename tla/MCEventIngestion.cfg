SPECIFICATION FairSpec
CONSTANTS
  t1 = t1  t2 = t2  t3 = t3  p1 = p1  p2 = p2
  None = None
  Transactions = {t1, t2, t3}
  Bodies <- SomeBodies
  Procs = {p1, p2}
  MaxFaults = 1
CHECK_DEADLOCK FALSE
INVARIANTS TypeOK AnsweredIsAccountedFor
PROPERTIES ImplementsAtMostOnce EventuallyAnswered EventuallyHandled
