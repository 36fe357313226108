\* Expected violation: Serve keeps accepting when Shutdown ran before it set the listener.
CONSTANTS
  c1 = c1
  c2 = c2
  c3 = c3
  NoConn = NoConn
  Conns <- MCConns
  Limits = {0}
  CallSeqs <- MCCallsShutdown
  Deadlines = {FALSE}

SPECIFICATION Spec

PROPERTY ServeStops

CHECK_DEADLOCK FALSE
