\* Two pages, two picker requests, locks, replays and closed tabs.
SPECIFICATION Spec
CONSTANTS
    p1 = p1
    p2 = p2
    q1 = q1
    q2 = q2
    Page <- TwoPages
    Request <- Requests
    None = None
    Generation = 2
SYMMETRY Symmetry
INVARIANTS PickersFollowPage OneTimerPerLock
CHECK_DEADLOCK FALSE
