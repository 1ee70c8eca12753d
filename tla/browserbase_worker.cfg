\* Workflows of two steps, cancelled or timed out anywhere.
SPECIFICATION FairSpec
CONSTANTS
    Workflows <- TwoSteps
INVARIANTS OutcomeAgrees CleanupIsTrue
PROPERTIES RunEnds FollowsPlan
CHECK_DEADLOCK FALSE
