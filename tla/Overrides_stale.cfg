SPECIFICATION Spec
CONSTANTS
  server = server
  child1 = child1
  child2 = child2
  a = a
  b = b
  x = x
  peer = peer
  other = other
  Procs <- MCProcs
  Root = server
  Fds = {3, 4}
  Conns <- MCConns
  Streams <- MCStreams
  Peer <- MCPeer
  RdmaHost = peer
  None = None
  Terminal = Terminal
  ForkGen = 0
  MaxAlive = 2
INVARIANT
  ReachesItsConnection
CHECK_DEADLOCK FALSE
