SPECIFICATION FairSpec
CONSTANTS
    creator = creator
    opponent = opponent
    Creator = creator
    Opponent = opponent
    MaxConns = 2
    MaxTabs = 2
    MaxInbox = 2
    MaxActs = 3
INVARIANTS TypeOK ViewAgrees
PROPERTIES SparesConnected SeatIsFreed PlayersReachTheGame
CHECK_DEADLOCK FALSE
