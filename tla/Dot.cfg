\* Any body of up to 4 bytes through the writer in chunks of any size, and
\* any 4 raw client bytes followed by a terminator and the next command,
\* read back through buffers of 1 to 3 bytes; in writer mode, handleDATA's
\* reply for every OnData outcome of MCErrors, read by Data, then Noop.
CONSTANTS
  Modes = {"writer", "raw"}
  MaxBody = 4
  ReadSizes <- MCReadSizes
  Errors <- MCErrors

SPECIFICATION DataSpec

INVARIANT TypeOK
INVARIANT DotRoundTrip
INVARIANT BodyBoundary
INVARIANT CallsGetTheirReply

PROPERTY ReaderTerminates
PROPERTY CallsReturn

\* The body, its reply and the next command are read; nothing follows.
CHECK_DEADLOCK FALSE
