\* A submission that takes as long as its time limits allow, beyond the first poll.
SPECIFICATION Spec
CONSTANTS
    o1 = o1
    o2 = o2
    w1 = w1
    w2 = w2
    Batch = {b1}
    Workflow <- OneWorkflow
    Owner <- OneOwner
    NoBatch = NoBatch
    NoOwner = NoOwner
    MaxStep = 1
    SubmitGrace = 1
    LeaseTime = 2
    PollDelay = 1
    SubmitTimeout = 2
    Garbled = FALSE
    Prompt = TRUE
INVARIANTS LostIsNotExecuted
CHECK_DEADLOCK FALSE
