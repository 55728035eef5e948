SPECIFICATION FairSpec
CONSTANTS
  Size = 4
  Lengths <- MCLengths
  Buffer = 8
  MaxCalls = 3
  MaxWakes = 1
  MaxNoise = 1
INVARIANTS TypeOK CleanLine OwnReply
PROPERTIES CallReturns
CHECK_DEADLOCK FALSE
