SPECIFICATION Spec
CONSTANTS
  Size = 5
  MaxPacket = 3
  MaxRead = 2
  Timeout = 1
  Byte = {0, 1}
INVARIANTS
  NothingInvented
