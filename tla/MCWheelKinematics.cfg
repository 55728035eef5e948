SPECIFICATION DriveSpec
CONSTANTS
  r_x = 3
  r_y = 4
  MaxSpeed = 9
  Excess = 112
  Inputs <- MCInputs
INVARIANTS PullsAsAsked WithinTolerance OdometryFollowsTwist
