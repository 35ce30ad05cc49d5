CONSTANTS
  Piece = 3
  HeadLen = 2
  Mp2Lens = {3}
  FlacLens = {4, 7}
  ReplyLen = 3
  SockBuf = 6
  PollLimit = 2
  MaxMessages = 4
SPECIFICATION FairSpec
INVARIANT TypeOK
INVARIANT InFrame
PROPERTY TornIsLast
PROPERTY TimedSendReturns
PROPERTY BodyArrives
CHECK_DEADLOCK FALSE
