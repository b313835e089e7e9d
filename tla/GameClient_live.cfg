SPECIFICATION FairSpec
CONSTANTS
    me = me
    other = other
    Me = me
    Other = other
    Creator = me
    Mishaps = {}
    MaxShots = 2
    MaxTurns = 3
    MaxMatches = 2
    MaxBreaks = 1
    MaxInbox = 2
INVARIANTS AimsAtTable
PROPERTIES TableIsPlayed ShotsAreSeen CatchesUp OwnShotIsReported
CHECK_DEADLOCK FALSE
