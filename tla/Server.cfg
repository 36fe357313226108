\* Three clients against a server with maxConnections = 1 or unlimited; the
\* application calls Shutdown, with a context that may or may not expire,
\* or Close.
CONSTANTS
  c1 = c1
  c2 = c2
  c3 = c3
  NoConn = NoConn
  Conns <- MCConns
  Limits = {0, 1}
  CallSeqs <- MCCallsOne
  Deadlines = {FALSE, TRUE}

SPECIFICATION Spec

INVARIANT TypeOK
INVARIANT ConnectionCap
INVARIANT SlotsAccounted

PROPERTY ShutdownTerminates

\* Every goroutine ends once Shutdown or Close has run: the system stops.
CHECK_DEADLOCK FALSE
