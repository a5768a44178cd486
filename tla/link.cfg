SPECIFICATION Spec
CONSTANTS
  a = a
  b = b
  NoSsid = NoSsid
  Ssids <- MCSsids
  InitialList <- MCList
  MaxNetworks = 3
  MaxEdits = 1
  MaxLines = 1
  ConnectTimeout = 1
  RetryInterval = 2
  ReconnectDelay = 2
  VerifyTimeout = 0
  Old = 3
INVARIANT TypeOK
PROPERTY EverySlotIsTried
PROPERTY LoginEndsInBeacon
PROPERTY Reconnects
PROPERTY SessionReturns
