SPECIFICATION FairSpec
CONSTANTS
  MaxOutQueue = 2
  OutDelay = 1
  OutDelayAfterAck = 2
  RxQuietWindow = 2
  MaxQueueWait = 2
  AirTimes <- MCAirTimes
  Ids = 3
  Wrap = 6
  Longest = 3
INVARIANT TypeOK
PROPERTY QuietUnlessBacklogged
PROPERTY GapBetweenKeyings
PROPERTY ImplementsTxFifo
PROPERTY FrontLeaves
