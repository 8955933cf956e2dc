SPECIFICATION Spec
CONSTANTS
  Fds <- MCFds
  Bridged = {3, 4}
  Requests <- MCRequests
  SetsAsked <- MCSetsAsked
  Timeouts <- TimeoutsTried
  MaxTime = 2
INVARIANT
  Shown
CHECK_DEADLOCK FALSE
