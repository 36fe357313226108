\* Two servers: a submission server (STARTTLS, AUTH, VRFY, MAIL refused
\* before AUTH) and a relay with none of these options.  The client
\* pipelines up to two lines; one recipient, two invalid commands and one
\* non-final BDAT chunk are allowed.
CONSTANTS
  MaxRecipients = 1
  MaxInvalidCmds = 2
  Configs <- MCConfigs
  ClientLines <- MCClientLines
  MaxPipeline = 2
  MaxBdatChunks = 1

SPECIFICATION Spec

INVARIANT TypeOK
INVARIANT TxnConsistent
INVARIANT DeliveryIntegrity
INVARIANT HelloOverTLS

PROPERTY NoPlaintextAfterTLS

\* A session ends (QUIT, read error, invalid-command cap): no step follows.
CHECK_DEADLOCK FALSE
