\* Every phase on a page that changes twice, with two locator candidates.
SPECIFICATION Spec
CONSTANTS
    Candidates = 2
    Quiet = 2
    Stable = 2
    Retry = 2
    Limit = 3
    MaxChanges = 2
INVARIANTS TargetIsBest BlamedRightly WaitIsTrue
PROPERTIES NotBegunAfterStop
CHECK_DEADLOCK FALSE
