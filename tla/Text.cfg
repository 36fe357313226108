\* Every address string of up to 5 characters over the full alphabet, sent
\* by this client (with or without options) and by any other client.
CONSTANTS
  Chars <- MCChars
  Alnum <- MCAlnum
  NonASCII <- MCNonASCII
  MaxLen = 5

SPECIFICATION Spec

INVARIANT AcceptedPathSpecValid
INVARIANT RelayRoundTrip

\* The session handles one line and the exchange ends there.
CHECK_DEADLOCK FALSE
