SPECIFICATION FairSpec
CONSTANTS
  Depth = 2
  Posture = Posture
  MaxScene = 3
INVARIANTS WaysAgree MovesToTarget BlindOnce
PROPERTIES NeverBack CatchesUp
