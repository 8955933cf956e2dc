SPECIFICATION Spec
CONSTANTS
  t1 = t1
  t2 = t2
  NoThread = NoThread
  Threads <- MCThreads
  Pollers = {}
  MaxCompletions = 4
  MaxOdd = 1
INVARIANT
  NoLostWakeup
CHECK_DEADLOCK FALSE
