SPECIFICATION Spec
CONSTANTS
  NumWheels = 2
  NumServos = 1
  QueueLength = 2
  SetTicks = 1
  GetTicks = 0
  MaxLate = 2
INVARIANTS
  TypeOK
  OwnReading
  BacklogBound
  DropNeedsLateness
