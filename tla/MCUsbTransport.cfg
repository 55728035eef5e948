SPECIFICATION FairSpec
CONSTANTS
  Size = 3
  MaxPacket = 2
  MaxRead = 2
  Byte = {0, 1}
  ReadTimeout = 1
  WriteTimeout = 1
INVARIANTS
  TypeOK
  UnsplicedContent
  SuccessMeansSent
PROPERTIES
  CallReturns
