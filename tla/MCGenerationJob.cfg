CONSTANTS
    Jobs = {j1}
    Workers = {w1, w2}
    NoJob = NoJob
    MAX_GENERATION_ATTEMPTS = 2
    MaxRequeues = 1
SPECIFICATION Spec
SYMMETRY Symmetry
INVARIANTS
    EvidenceFromLatestAttempt
    AttemptBudget
    BackoffKeepsItsDelivery
PROPERTIES
    FencedSuccess
CHECK_DEADLOCK FALSE
