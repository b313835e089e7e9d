SPECIFICATION PartsSpec
CONSTANTS
  A = a
  B = b
  MaxActs = 2
  MaxInbox = 2
  MaxOutbox = 1
  MaxMessages = 2
  MaxBroken = 1
  MaxOpened = 1
  Creators = {"you"}
  MaxChanges = 2
  MaxFetches = 1
  White = "w"
  Targets = {"t1", "t2"}
  MaxSpeed = 2
  MaxShots = 1
  FrameDeltas = {1, 3, 5}
  SinkTicks = 2
  TicksPerFrame = 2
  MaxFrameDelta = 4
INVARIANTS TypesOK MyAimIsMine ChatIsWhole HomeIsFresh ReportIsTrue TimeIsPlayed
PROPERTIES AimIsFollowed
CHECK_DEADLOCK FALSE
