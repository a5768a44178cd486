SPECIFICATION Spec
CONSTANTS
  Tasks = {"loop", "web"}
  Devices <- MCDevices
  NonSmartRate = 2
  Profile <- MCProfile
  InitialInterval = 1
  PhgRate = 2
  CommentAfter = 2
  CounterAtBoot = 2
  CounterWrap = 5
  Speeds = {0, 2, 3, 5}
  Longest = 2
INVARIANT TypeOK
INVARIANT CommentIsRegular
PROPERTY BeaconsAreSpaced
PROPERTY FirstPositionIsReported
PROPERTY Advertises
PROPERTY PhgIsSent
