SPECIFICATION Spec
CHECK_DEADLOCK FALSE
CONSTANTS
  Bytes <- MCBytes
  Own <- MCOwn
  KissBufSize = 6
  MaxKissBuffer = 9
  MaxIterations = 3
  Kinds = {"socket", "serial", "esp32", "nrf52"}
  Payloads <- MCPayloads
  LongPayload <- MCLong
  Phones = {"p"}
  NoPhone = "nobody"
  Pins = {"1111", "2222"}
  Knows <- MCKnows
  OddForms <- MCOddForms
  MaxBoots = 2
INVARIANT FramesArrive
INVARIANT SocketRecovers
INVARIANT OnlyPairedPhones
PROPERTY ConnectionIsFreed
