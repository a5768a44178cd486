SPECIFICATION Spec
CONSTANTS
  Slots = 1
  TTL = 2
  Wrap = 5
  Digis <- MCDigis
  Packets <- MCPackets
  Sender <- MCSender
  Hash <- MCHash
  Addressee <- MCAddressee
  NoGate <- MCNoGate
  FirstPaths <- MCFirstPaths
  Hears <- MCHears
  Mode <- MCMode
  Tactical <- MCTactical
  MaxOutQueue = 1
  MaxSends = 2
  MaxFailures = 1
  MaxClock = 2
CHECK_DEADLOCK FALSE
INVARIANT NoUnstampedRelay
