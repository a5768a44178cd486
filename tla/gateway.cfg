SPECIFICATION Spec
CHECK_DEADLOCK FALSE
CONSTANTS
  Slots = 1
  TTL = 1
  Wrap = 8
  HeardSlots = 2
  Gates <- MCGates
  Packets <- MCPackets
  Sender <- MCSender
  Addressee <- MCAddressee
  Hash <- MCHash
  NoOne = "nobody"
  NoGate = {}
  Commands = {"command"}
  Reply <- MCReply
  FromRF = {"chat"}
  FromIS = {"toStation", "command"}
  DownlinkEnabled = TRUE
  HeardWindow = 1
  MaxClock = 1
  MaxEvents = 3
INVARIANT NoGateLoop
PROPERTY EachGateRemembers
