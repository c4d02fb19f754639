SPECIFICATION FairSpec
CONSTANTS
  Senders = {"stratum", "workio"}
  RBUFSIZE = 6
  RECVSIZE = 5
  Room = 1
  Lengths = {0, 2}
  OutLength = 2
  MaxLines = 3
  MaxSends = 2
  MaxSessions = 2
INVARIANTS BufferFits LinesArriveWhole SendersTakeTurns SentIsSeen
PROPERTY LinesAreRead
CHECK_DEADLOCK FALSE
