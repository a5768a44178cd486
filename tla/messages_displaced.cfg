SPECIFICATION Spec
CONSTANTS
  Slots = 2
  TTL = 2
  Wrap = 8
  Token <- MCToken
  UnlockWindow = 2
  MaxFailed = 2
  Lockout = 2
  ReadCooldown = 1
  RebootDelay = 1
  AllMessages <- MCNumbered
  IsIGate = FALSE
  MaxOutQueue = 2
  InitConfig <- MCInitConfig
  MaxClock = 2
CHECK_DEADLOCK FALSE
INVARIANT AckedBeforeReply
