\* One batch, two tracker identities, polls that may outlast the lease, slow submissions, unusable answers.
SPECIFICATION Spec
CONSTANTS
    o1 = o1
    o2 = o2
    w1 = w1
    w2 = w2
    Batch = {b1}
    Workflow <- OneWorkflow
    Owner <- TwoOwners
    NoBatch = NoBatch
    NoOwner = NoOwner
    MaxStep = 1
    SubmitGrace = 2
    LeaseTime = 2
    PollDelay = 1
    SubmitTimeout = 2
    Garbled = TRUE
    Prompt = FALSE
SYMMETRY Symmetry
INVARIANTS RecordedOutcomeIsReal NoFalseLoss AvailableIsStored
PROPERTIES LeaseIsolation HistoryIsKept
CHECK_DEADLOCK FALSE
