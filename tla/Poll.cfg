SPECIFICATION FairSpec
CONSTANTS
  Fds <- MCFds
  Bridged = {3, 4}
  Requests <- MCRequests
  SetsAsked <- MCSetsAsked
  Timeouts <- TimeoutsTried
  MaxTime = 2
INVARIANTS
  TypeOK
  NoFalseInput
  NothingMissed
  NeverGivesUp
  EntriesAsAsked
PROPERTY
  PollReturns
CHECK_DEADLOCK FALSE
