SPECIFICATION Spec
CONSTANTS
  client = client
  server = server
  Sides <- MCSides
  Pieces = FALSE
  MaxAppWrites = 1
INVARIANT
  FallsBack
CHECK_DEADLOCK FALSE
