\* Every stream of up to six bytes, and of seven without a carriage return, in
\* every way of cutting it into chunks: room for a stuffed line, a terminator of
\* either form and a command behind it, and for a line beyond its budget.
SPECIFICATION FairSpec
CONSTANTS
  MaxLen = 7
  Streams <- MCStreams
  MaxSize = 2
  MaxCommand = 3
INVARIANTS AcceptedIsSent RefusedIsTooLarge BufferBounded CommandsAreLines
PROPERTY SessionEnds
CHECK_DEADLOCK FALSE
