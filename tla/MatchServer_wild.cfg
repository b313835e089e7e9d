SPECIFICATION Spec
CONSTANTS
  creator = creator
  opponent = opponent
  nobody = nobody
  leaver = leaver
  free = free
  g1 = g1
  g2 = g2
  Creator = creator
  Opponent = opponent
  NoUser = nobody
  CreatorBalls = {1, 2}
  OpponentBalls = {9}
  BlackBall = 8
  PrepareTime = 1
  TurnTime = 1
  ShotTime = 1
  Goroutines = {}
  Leaver = leaver
  NoWorker = free
  RetryDelay = 1
  Stalls = TRUE
  CueStates = TRUE
  MaxTurns = 3
  Budget <- Wild
INVARIANTS TypeOK StoredIsSound
CHECK_DEADLOCK FALSE
