\* A client that sends up to four requests: an answer with an error should mean that
\* the message was not delivered.
SPECIFICATION Spec
CONSTANTS
  HexLen = 2
  MinHead = 1
  MaxHead = 4
  PingMax = 2
  IntMax = 8
  Stream <- MCStream
INVARIANT
  ErrorMeansNotSent
CHECK_DEADLOCK FALSE
