SPECIFICATION FairSpec
CONSTANTS
  CadActive = TRUE
  DifsSlots = 2
  BackoffMax = 2
  CadMaxWait = 4
  AirTime = 1
  WatchdogTimeout = 8
  SendsPerPass = 2
  TxMayFail = TRUE
INVARIANT NoLostWakeup
INVARIANT ReadsAreFresh
PROPERTY KeyedOnClearChannel
PROPERTY ListensAgain
