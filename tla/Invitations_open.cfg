SPECIFICATION FairSpec
CONSTANTS
    MaxInvites = 2
    MaxActs = 2
INVARIANTS InvitesAgree FullRoomInvitesNobody
PROPERTIES InvitedIsTold
CHECK_DEADLOCK FALSE
