\* The client against a submission server and a relay, five calls after
\* Dial, no fault (the server's read deadline is part of its loop), no Bdat.
CONSTANTS
  MaxRecipients = 2
  MaxInvalidCmds = 2
  Configs <- MCConfigs
  MaxBdatChunks = 1
  Calls <- MCCallsNoBdat
  Mechs <- MCMechs
  FaultSets <- MCNoFaults
  MaxCalls = 5

SPECIFICATION Spec

INVARIANT TypeOK
INVARIANT DeliveryAgreement
INVARIANT ExtsAfterTLS

PROPERTY ReplyMatches
PROPERTY CallsReturn
PROPERTY TxnRefinement

\* The client stops after Close or after its last call.
CHECK_DEADLOCK FALSE
