\* Streams of lines of every shape, descendants in and out of the group, more output than
\* fits, and a deadline.
CONSTANTS
  Noise = Noise
  None = None
  MaxUnwrapDepth = 3
  MaxOperations = 1
  Line <- MCLine
  Limit = 2
  Child <- MCChild
  MaxLines = 3
SPECIFICATION FairSpec
CONSTRAINT Focus
INVARIANTS AnswerIsEarned
PROPERTIES RunReturns
CHECK_DEADLOCK FALSE
