\* As Dialogue.cfg, with the io.Reader given to Data failing.
CONSTANTS
  MaxRecipients = 1
  MaxInvalidCmds = 2
  Configs <- MCConfigs
  MaxBdatChunks = 1
  Calls <- MCCallsNoBdat
  Mechs <- MCMechs
  FaultSets <- MCCopyFaults
  MaxCalls = 3

SPECIFICATION Spec

INVARIANT DeliveryAgreement

CHECK_DEADLOCK FALSE
