\* Expected violation: the CR of a false ".CR" is lost when one byte of the
\* caller's buffer is left.
CONSTANTS
  Modes = {"raw"}
  MaxBody = 4
  ReadSizes <- MCReadSizes

SPECIFICATION Spec

INVARIANT DecodeMatchesSpec

CHECK_DEADLOCK FALSE
