\* Workflows of two and three steps under three commands at any time.
SPECIFICATION FairSpec
CONSTANTS
    Workflows <- TwoSteps
    MaxRequests = 3
INVARIANTS ActsOnce
PROPERTIES PauseIsKept StopEnds FollowsPlan
CHECK_DEADLOCK FALSE
