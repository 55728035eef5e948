SPECIFICATION FairSpec
CONSTANTS
  Utterance <- MCUtterance
  MaxAwake = 2
INVARIANTS OneFloor PromptWhole
PROPERTIES TakesTurns
