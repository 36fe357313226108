\* Expected violation: Shutdown returns nil while a session runs.
CONSTANTS
  c1 = c1
  c2 = c2
  c3 = c3
  NoConn = NoConn
  Conns <- MCConns
  Limits = {0}
  CallSeqs <- MCCallsShutdown
  Deadlines = {FALSE}

SPECIFICATION Spec

INVARIANT ShutdownWaitsForSessions

CHECK_DEADLOCK FALSE
