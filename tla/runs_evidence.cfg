\* A submission that ends before the first poll, and a service that may restart.
SPECIFICATION Spec
CONSTANTS
    o1 = o1
    o2 = o2
    w1 = w1
    w2 = w2
    Batch = {b1}
    Workflow <- OneWorkflow
    Owner <- OneOwner
    NoBatch = NoBatch
    NoOwner = NoOwner
    MaxStep = 1
    SubmitGrace = 2
    LeaseTime = 2
    PollDelay = 1
    SubmitTimeout = 1
    Garbled = FALSE
    Prompt = TRUE
INVARIANTS EvidenceChangesNoVerdict
CHECK_DEADLOCK FALSE
