\* Expected violation: the app calls Bdat where the server rejects it (no
\* recipient yet); the chunk's bytes are then read as a command and its
\* reply is taken by the next call.
CONSTANTS
  MaxRecipients = 1
  MaxInvalidCmds = 2
  Configs <- MCConfigs
  MaxBdatChunks = 1
  Calls <- MCCalls
  Mechs <- MCMechs
  FaultSets <- MCNoFaults
  MaxCalls = 3

SPECIFICATION Spec

PROPERTY ReplyMatches

CHECK_DEADLOCK FALSE
