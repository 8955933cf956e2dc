SPECIFICATION FairSpec
CONSTANTS
  t1 = t1
  t2 = t2
  NoThread = NoThread
  Threads <- MCThreads
  Pollers = {t1}
  MaxCompletions = 3
  MaxOdd = 1
INVARIANTS
  TypeOK
  NoLostWakeupUnlessThrown
  EachOnce
  InOrderPerQueue
PROPERTY
  WaiterServed
CHECK_DEADLOCK FALSE
