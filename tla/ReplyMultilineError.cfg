\* Expected violation: OnData returns an SMTPError whose message has two
\* lines; session.reply writes it as one reply line with an LF inside, the
\* client's Data reads up to that LF, and Noop reads the second line.
CONSTANTS
  Modes = {"writer"}
  MaxBody = 1
  ReadSizes <- MCReadSizes
  Errors <- MCMultiline

SPECIFICATION DataSpec

INVARIANT CallsGetTheirReply

CHECK_DEADLOCK FALSE
