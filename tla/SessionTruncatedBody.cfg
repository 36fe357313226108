\* Expected violation: a body cut off by the client closing is handed to OnData as complete.
CONSTANTS
  MaxRecipients = 1
  MaxInvalidCmds = 2
  Configs <- MCTLSAuth
  ClientLines <- MCClientLines
  MaxPipeline = 1
  MaxBdatChunks = 1

SPECIFICATION Spec

INVARIANT DeliveredOnlyTerminated

CHECK_DEADLOCK FALSE
