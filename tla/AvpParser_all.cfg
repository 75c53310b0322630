SPECIFICATION FairSpec
CONSTANTS
  HeaderLen = 20
  MsgMaxSize = 4096
  MaxBody = 10
  LengthOctets = {0, 1, 2, 3, 4, 5, 255}
  Messages <- MCMessages
CHECK_DEADLOCK FALSE
INVARIANTS
  TypeOK ReturnsWholeMessage
PROPERTY
  WellFormedParsed
