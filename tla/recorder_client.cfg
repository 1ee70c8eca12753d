\* Recording, replaying and picking over a connection that breaks.
SPECIFICATION Spec
CONSTANTS
    Buffer = 2
    Retries = 1
    Short = TRUE
    MaxActions = 2
    MaxBreaks = 2
    MaxEvents = 3
INVARIANTS NoSilentLoss ScreenAgrees
PROPERTIES StepsFollowRecording
CHECK_DEADLOCK FALSE
