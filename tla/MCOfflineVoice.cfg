SPECIFICATION FairSpec
CONSTANTS
  Threshold = 2
  Limit = 1
  Depth = 2
  MaxCrossed = 1
INVARIANTS OneAtATime AsleepIsDeaf AwakeAsks CutShortOnlyIfLate
PROPERTIES RecordingEnds
