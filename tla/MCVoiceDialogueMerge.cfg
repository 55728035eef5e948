SPECIFICATION FairSpec
CONSTANTS
  Utterance <- MCUtterance
  MaxAwake = 2
PROPERTIES AsksForTheRest
