SPECIFICATION FairSpec
CONSTANTS
    a = a
    b = b
    Tabs = {a, b}
    MaxTokens = 4
    Paths <- OnePath
    Grace = 1
    Retry = 1
    Life = 2
    MaxFaults = 1
INVARIANTS OneActiveToken RenewalIsPending ActiveHasProfile
PROPERTIES StaysIn OutEverywhere
CHECK_DEADLOCK FALSE
