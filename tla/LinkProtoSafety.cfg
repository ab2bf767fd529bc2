\* A client that sends up to four requests; the buffer holds six bytes.  The
\* process may exit, and a link that is closed stays so.
SPECIFICATION FairSpec
CONSTANTS
  HexLen = 2
  MinHead = 1
  MaxHead = 4
  PingMax = 2
  IntMax = 8
  Stream <- MCStream
INVARIANTS
  TypeOK
  Aligned
  ReadRoom
  Intact
  AckMeansAll
  AnsweredOnce
  NoPanic
  ExitClean
PROPERTIES
  SuspendEnds
CHECK_DEADLOCK FALSE
