SPECIFICATION FairSpec
CONSTANTS
  MaxRounds = 2
  MayFail = {"open", "begin", "start", "write", "result", "drop", "overrun", "prepare"}
INVARIANTS
  NothingOutlives
  SessionsUsedOpen
  ListeningConsistent
  OwnWords
PROPERTIES
  RoundReturns
