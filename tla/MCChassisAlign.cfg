SPECIFICATION FairSpec
CONSTANTS
  Poses <- MCPoses
  Twists <- MCTwists
  Garbage <- MCGarbage
  Speed = 1
  Settle = 3
  MaxGap = 5
  Reach = 4
  Depth = 2
  MaxTravel = 12
INVARIANTS CommandMatchesStage
PROPERTIES AlignsInStages SteerBeforeDrive AlignmentEnds
