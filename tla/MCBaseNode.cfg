SPECIFICATION NodeFairSpec
CONSTANTS
  NumWheels = 1
  NumServos = 1
  QueueLength = 1
  SetTicks = 1
  GetTicks = 0
  MaxLate = 1
PROPERTIES
  CallbackReturns
  CommandServed
