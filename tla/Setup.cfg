SPECIFICATION AppSpec
CONSTANTS
  Client = client
  Server = server
  Sides <- MCSides
  Pieces = FALSE
  MaxAppWrites = 1
  Messages = 2
  Sizes = 2
  Capacity = 1
INVARIANTS
  AppTypeOK
  WritesLand
  NoLeftovers
  UnwindsInOrder
  NothingHeldAfterFailure
  OneUnderWay
PROPERTIES
  Settles
  EchoCompletes
CHECK_DEADLOCK FALSE
