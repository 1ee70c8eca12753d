\* A client that comes back while its runtime is released for a stop or a restart.
SPECIFICATION Spec
CONSTANTS
    Buffer = 2
    Retries = 1
    Short = TRUE
    MaxActions = 2
    MaxBreaks = 2
    MaxEvents = 3
INVARIANTS ReconnectingIsSupported
CHECK_DEADLOCK FALSE
