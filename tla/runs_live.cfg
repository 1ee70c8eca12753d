\* One batch of up to two workflows, a tracker that ends its polls within the lease.
SPECIFICATION FairSpec
CONSTANTS
    o1 = o1
    o2 = o2
    w1 = w1
    w2 = w2
    Batch = {b1}
    Workflow <- TwoWorkflows
    Owner <- OneOwner
    NoBatch = NoBatch
    NoOwner = NoOwner
    MaxStep = 0
    SubmitGrace = 1
    LeaseTime = 1
    PollDelay = 1
    SubmitTimeout = 0
    Garbled = FALSE
    Prompt = TRUE
INVARIANTS VerdictSummarises
PROPERTIES EveryBatchSettles
CHECK_DEADLOCK FALSE
