SPECIFICATION Spec
CONSTANTS
  Slots = 2
  TTL = 2
  Wrap = 8
  Token <- MCToken
  UnlockWindow = 2
  MaxFailed = 2
  Lockout = 2
  ReadCooldown = 1
  RebootDelay = 1
  AllMessages <- MCMessages
  IsIGate = FALSE
  MaxOutQueue = 2
  InitConfig <- MCInitConfig
  MaxClock = 2
CHECK_DEADLOCK FALSE
INVARIANT TypeOK
INVARIANT RepliesFollowAcks
INVARIANT CopiesAreAcked
PROPERTY ProcessedOnce
PROPERTY WriteNeedsUnlock
PROPERTY BatchIsAtomic
PROPERTY LockoutHolds
